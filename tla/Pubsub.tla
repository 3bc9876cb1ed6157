------------------------------- MODULE Pubsub -------------------------------
(***************************************************************************)
(* Topics and subscriptions (services/pubsub) over the backends inmem,     *)
(* nats, gcp, azure and aws, behind the frontends aws_sns with             *)
(* aws_sqs_receive, gcp_pubsub and azure_servicebus_topics.                *)
(*                                                                         *)
(* A link says that a topic feeds a subscription; a box holds the messages *)
(* of a subscription, pending (mail) or leased (out).  The domain knows a  *)
(* subscription by its name alone.  nats and azure keep it below its topic *)
(* and look for the topic first; aws makes it of an SQS queue and an SNS   *)
(* subscription, in two calls.                                             *)
(***************************************************************************)
EXTENDS Shim

CONSTANTS
    Topics, Subs,
    MaxMsgs,        \* bound: messages ever published
    MaxDeliveries,  \* bound: deliveries to a subscription
    MaxLinks        \* bound: subscriptions ever asked for

VARIABLES
    topics,     \* the topics there are
    links,      \* pairs of a topic (None: deleted under it) and a subscription
    box,        \* per box, its messages or None
    published,  \* how many messages were published
    linked,     \* how many subscriptions were asked for
    due         \* history: per topic and subscription, the messages it still owes
                \* its reader; None when the subscription was not promised

pubsubVars == <<topics, links, box, published, linked, due>>

Msgs == 1..MaxMsgs
Pairs == Topics \X Subs
PerTopic == backend \in {"nats", "azure"}
Box(t, s) == <<IF PerTopic THEN t ELSE None, s>>
Boxes == (Topics \cup {None}) \X Subs
NewBox == [mail |-> {}, out |-> {}, cnt |-> [m \in Msgs |-> 0]]
BoxStates == [mail : SUBSET Msgs, out : SUBSET Msgs, cnt : [Msgs -> Nat]]

ASSUME NoneIsNoBox == None \notin BoxStates

PubsubInit ==
    /\ topics = {} /\ links = {} /\ published = 0 /\ linked = 0
    /\ box = [b \in Boxes |-> None]
    /\ due = [p \in Pairs |-> None]

-----------------------------------------------------------------------------
(* Requests *)

CreateTopicReq(t, idem) == [op |-> "createTopic", at |-> "first", topic |-> t, idem |-> idem]
DeleteTopicReq(t) == [op |-> "deleteTopic", at |-> "first", topic |-> t]
CreateSubReq(t, s, idem) ==
    [op |-> "createSub", at |-> "first", topic |-> t, sub |-> s, idem |-> idem]
DeleteSubReq(s) == [op |-> "deleteSub", at |-> "first", topic |-> None, sub |-> s]
PublishReq(t, n) == [op |-> "publish", at |-> "first", topic |-> t, left |-> n]
ReceiveReq(s) == [op |-> "receive", at |-> "first", topic |-> None, sub |-> s]
\* handles: pairs of a message and the number of the delivery
AckReq(b, hs) == [op |-> "ack", at |-> "first", at_box |-> b, left |-> hs]
VisibilityReq(at, b, h, zero) ==
    [op |-> "visibility", at |-> at, at_box |-> b, left |-> {h}, zero |-> zero]

Asked(c, r) == Begin(c, r) /\ UNCHANGED <<topics, links, box, published>>
\* Who asks for a deletion no longer counts on what is deleted.
Unpromised(P) == [p \in Pairs |-> IF p \in P THEN None ELSE due[p]]
DeletesTopic(c, t) ==
    Asked(c, DeleteTopicReq(t)) /\ due' = Unpromised({t} \X Subs) /\ UNCHANGED linked
DeletesSub(c, s) ==
    Asked(c, DeleteSubReq(s)) /\ due' = Unpromised(Topics \X {s}) /\ UNCHANGED linked
Subscribes(c, t, s, idem) ==
    /\ linked < MaxLinks
    /\ Asked(c, CreateSubReq(t, s, idem))
    /\ linked' = linked + 1
    /\ due' = due
AsksPlain(c, r) == Asked(c, r) /\ UNCHANGED <<due, linked>>

Deliveries(x) == UNION {{m} \X (1..x.cnt[m]) : m \in Msgs}
Handles(b) == IF box[b] = None THEN {} ELSE Deliveries(box[b])

\* aws_sns and aws_sqs_receive: an existing topic or subscription is no error.
SnsCreateTopic(c) == \E t \in Topics : AsksPlain(c, CreateTopicReq(t, TRUE))
SnsDeleteTopic(c) == \E t \in Topics : DeletesTopic(c, t)
SnsSubscribe(c) == \E t \in Topics, s \in Subs : Subscribes(c, t, s, TRUE)
SnsUnsubscribe(c) == \E s \in Subs : DeletesSub(c, s)
SnsPublish(c) == \E t \in Topics : published < MaxMsgs /\ AsksPlain(c, PublishReq(t, 1))
SqsReceiveMessage(c) == \E s \in Subs : AsksPlain(c, ReceiveReq(s))
SqsDeleteMessage(c) == \E b \in Boxes : \E h \in Handles(b) : AsksPlain(c, AckReq(b, {h}))
SqsChangeVisibility(c) == \E b \in Boxes, zero \in BOOLEAN : \E h \in Handles(b) :
    AsksPlain(c, VisibilityReq("first", b, h, zero))

\* gcp_pubsub: several messages or handles in one request, one call for each.
GcpCreateTopicFront(c) == \E t \in Topics : AsksPlain(c, CreateTopicReq(t, FALSE))
GcpCreateSubFront(c) == \E t \in Topics, s \in Subs : Subscribes(c, t, s, FALSE)
GcpPublishFront(c) ==
    \E t \in Topics, n \in 1..(MaxMsgs - published) : AsksPlain(c, PublishReq(t, n))
GcpAcknowledge(c) ==
    \E b \in Boxes : \E hs \in SUBSET Handles(b) : hs # {} /\ AsksPlain(c, AckReq(b, hs))

\* azure_servicebus_topics: a renewal looks at the subscription first.
AzureRenewLock(c) == \E b \in Boxes : \E h \in Handles(b) :
    AsksPlain(c, VisibilityReq("head", b, h, FALSE))

PubsubRequests(c) ==
    /\ req[c] = Idle
    /\ \/ SnsCreateTopic(c) \/ SnsDeleteTopic(c) \/ SnsSubscribe(c) \/ SnsUnsubscribe(c)
       \/ SnsPublish(c) \/ SqsReceiveMessage(c) \/ SqsDeleteMessage(c) \/ SqsChangeVisibility(c)
       \/ GcpCreateTopicFront(c) \/ GcpCreateSubFront(c) \/ GcpPublishFront(c) \/ GcpAcknowledge(c)
       \/ AzureRenewLock(c)

-----------------------------------------------------------------------------
(* What a call leaves *)

PubsubSame == UNCHANGED pubsubVars
PubsubFails(c) == Fails(c) /\ PubsubSame
PubsubGoes(c, at) == Goes(c, [req[c] EXCEPT !.at = at]) /\ PubsubSame
Says(c) == Ends(c, "ok") /\ UNCHANGED <<published, linked>>

-----------------------------------------------------------------------------
(* Topics *)

TopicMade(c) ==
    /\ topics' = topics \cup {req[c].topic}
    /\ UNCHANGED <<links, box, due>>
    /\ Says(c)
TopicExists(c) == IF req[c].idem THEN Ends(c, "ok") /\ PubsubSame ELSE PubsubFails(c)
InmemCreateTopic(c) ==
    /\ Is(c, "createTopic", "first", "inmem")
    /\ IF req[c].topic \in topics THEN TopicExists(c) ELSE TopicMade(c)
\* nats: the same configuration once more is no error; nor is it on aws.
NatsCreateTopic(c) == Is(c, "createTopic", "first", "nats") /\ TopicMade(c)
AwsCreateTopic(c) == Is(c, "createTopic", "first", "aws") /\ TopicMade(c)
GcpCreateTopic(c) ==
    /\ Is(c, "createTopic", "first", "gcp")
    /\ IF req[c].topic \in topics THEN TopicExists(c) ELSE TopicMade(c)
AzureCreateTopic(c) ==
    /\ Is(c, "createTopic", "first", "azure")
    /\ IF req[c].topic \in topics THEN TopicExists(c) ELSE TopicMade(c)

OfTopic(t) == {l \in links : l[1] = t}
TopicGone(c) ==
    LET t == req[c].topic IN
    IF t \notin topics THEN PubsubFails(c)
    ELSE /\ topics' = topics \ {t}
         /\ links' = links \ OfTopic(t)
         /\ box' = [b \in Boxes |-> IF \E l \in OfTopic(t) : b = Box(l[1], l[2]) THEN None ELSE box[b]]
         /\ due' = due
         /\ Says(c)
InmemDeleteTopic(c) == Is(c, "deleteTopic", "first", "inmem") /\ TopicGone(c)
NatsDeleteTopic(c) == Is(c, "deleteTopic", "first", "nats") /\ TopicGone(c)
AzureDeleteTopic(c) == Is(c, "deleteTopic", "first", "azure") /\ TopicGone(c)
\* gcp: the subscriptions stay, without a topic.
GcpDeleteTopic(c) ==
    /\ Is(c, "deleteTopic", "first", "gcp")
    /\ LET t == req[c].topic IN
       IF t \notin topics THEN PubsubFails(c)
       ELSE /\ topics' = topics \ {t}
            /\ links' = (links \ OfTopic(t)) \cup {<<None, l[2]>> : l \in OfTopic(t)}
            /\ UNCHANGED <<box, due>>
            /\ Says(c)
\* aws: the SNS subscriptions go, the queues stay.
AwsDeleteTopic(c) ==
    /\ Is(c, "deleteTopic", "first", "aws")
    /\ LET t == req[c].topic IN
       /\ topics' = topics \ {t}
       /\ links' = links \ OfTopic(t)
       /\ UNCHANGED <<box, due>>
       /\ Says(c)

-----------------------------------------------------------------------------
(* CreateSubscription *)

\* An answer that nothing disturbed is a promise.
Promised(c, p) == IF alone = c /\ due[p] = None THEN [due EXCEPT ![p] = {}] ELSE due
SubMade(c, b) ==
    LET p == <<req[c].topic, req[c].sub>> IN
    /\ links' = links \cup {p}
    /\ box' = b
    /\ topics' = topics
    /\ due' = Promised(c, p)
    /\ Says(c)
SubExists(c) == IF req[c].idem THEN Ends(c, "ok") /\ PubsubSame ELSE PubsubFails(c)
WithBox(t, s) == [box EXCEPT ![Box(t, s)] = NewBox]
Taken(s) == \E t \in Topics \cup {None} : <<t, s>> \in links

InmemCreateSub(c) ==
    /\ Is(c, "createSub", "first", "inmem")
    /\ IF req[c].topic \notin topics THEN PubsubFails(c)
       ELSE IF Taken(req[c].sub) THEN SubExists(c)
       ELSE SubMade(c, WithBox(req[c].topic, req[c].sub))
GcpCreateSub(c) ==
    /\ Is(c, "createSub", "first", "gcp")
    /\ IF req[c].topic \notin topics THEN PubsubFails(c)
       ELSE IF Taken(req[c].sub) THEN SubExists(c)
       ELSE SubMade(c, WithBox(req[c].topic, req[c].sub))
\* nats and azure: the name may be taken below another topic.  The consumer
\* of nats may be there already, with the same configuration.
NatsCreateSub(c) ==
    /\ Is(c, "createSub", "first", "nats")
    /\ LET p == <<req[c].topic, req[c].sub>> IN
       IF p[1] \notin topics THEN PubsubFails(c)
       ELSE SubMade(c, IF p \in links THEN box ELSE WithBox(p[1], p[2]))
AzureCreateSub(c) ==
    /\ Is(c, "createSub", "first", "azure")
    /\ LET p == <<req[c].topic, req[c].sub>> IN
       IF p[1] \notin topics THEN PubsubFails(c)
       ELSE IF p \in links THEN SubExists(c)
       ELSE SubMade(c, WithBox(p[1], p[2]))
\* aws: the queue, if it is not there, then the SNS subscription.
AwsCreateSubQueue(c) ==
    /\ Is(c, "createSub", "first", "aws")
    /\ LET q == Box(req[c].topic, req[c].sub) IN
       box' = IF box[q] = None THEN [box EXCEPT ![q] = NewBox] ELSE box
    /\ UNCHANGED <<topics, links, published, linked, due>>
    /\ Goes(c, [req[c] EXCEPT !.at = "subscribe"])
\* Mutation: a queue that cannot be subscribed is deleted again.
QueueRolledBack(c) ==
    /\ box' = [box EXCEPT ![Box(req[c].topic, req[c].sub)] = None]
    /\ UNCHANGED <<topics, links, published, linked, due>>
    /\ Fails(c)
SubscribeFails(c) == PubsubFails(c)
AwsCreateSubSubscribe(c) ==
    /\ Is(c, "createSub", "subscribe", "aws")
    /\ IF req[c].topic \in topics THEN SubMade(c, box) ELSE SubscribeFails(c)

-----------------------------------------------------------------------------
(* DeleteSubscription *)

SubGone(c, p) ==
    /\ links' = links \ {p}
    /\ box' = [box EXCEPT ![Box(p[1], p[2])] = None]
    /\ UNCHANGED <<topics, due>>
    /\ Says(c)
InmemDeleteSub(c) ==
    /\ Is(c, "deleteSub", "first", "inmem")
    /\ IF ~Taken(req[c].sub) THEN PubsubFails(c)
       ELSE \E l \in links : l[2] = req[c].sub /\ SubGone(c, l)
GcpDeleteSub(c) ==
    /\ Is(c, "deleteSub", "first", "gcp")
    /\ IF ~Taken(req[c].sub) THEN PubsubFails(c)
       ELSE \E l \in links : l[2] = req[c].sub /\ SubGone(c, l)
\* nats: the first stream listed that has the consumer loses it.
NatsDeleteSub(c) ==
    /\ Is(c, "deleteSub", "first", "nats")
    /\ IF ~Taken(req[c].sub) THEN PubsubFails(c)
       ELSE \E l \in links : l[2] = req[c].sub /\ SubGone(c, l)
\* azure: the first topic listed whose GetSubscription gives no error, and it
\* gives none for a subscription that is not there.
FindTopicForSubscription(c, at) ==
    IF topics = {} THEN PubsubFails(c)
    ELSE \E t \in Topics : /\ t \in topics
                           /\ Goes(c, [req[c] EXCEPT !.at = at, !.topic = t])
                           /\ PubsubSame
AzureDeleteSubFind(c) ==
    Is(c, "deleteSub", "first", "azure") /\ FindTopicForSubscription(c, "found")
AzureDeleteSub(c) ==
    /\ Is(c, "deleteSub", "found", "azure")
    /\ LET p == <<req[c].topic, req[c].sub>> IN
       IF p \in links THEN SubGone(c, p) ELSE PubsubFails(c)
\* aws: look for an SNS subscription to the queue, drop it if there is one,
\* and delete the queue.
AwsDeleteSubList(c) ==
    /\ Is(c, "deleteSub", "first", "aws")
    /\ IF ~Taken(req[c].sub) THEN PubsubGoes(c, "queue")
       ELSE \E l \in links : /\ l[2] = req[c].sub
                             /\ Goes(c, [req[c] EXCEPT !.at = "unsubscribe", !.topic = l[1]])
                             /\ PubsubSame
AwsDeleteSubUnsubscribe(c) ==
    /\ Is(c, "deleteSub", "unsubscribe", "aws")
    /\ links' = links \ {<<req[c].topic, req[c].sub>>}
    /\ UNCHANGED <<topics, box, published, linked, due>>
    /\ Goes(c, [req[c] EXCEPT !.at = "queue"])
AwsDeleteSubQueue(c) ==
    /\ Is(c, "deleteSub", "queue", "aws")
    /\ LET q == Box(None, req[c].sub) IN
       IF box[q] = None THEN PubsubFails(c)
       ELSE /\ box' = [box EXCEPT ![q] = None]
            /\ UNCHANGED <<topics, links, due>>
            /\ Says(c)

-----------------------------------------------------------------------------
(* Publish, to the subscriptions the topic has *)

PublishedTo(t, m, B) ==
    [b \in Boxes |-> IF box[b] # None /\ b \in B /\ \E l \in OfTopic(t) : Box(l[1], l[2]) = b
                     THEN [box[b] EXCEPT !.mail = @ \cup {m}] ELSE box[b]]
\* One message, to those of the boxes B that the topic feeds.
PublishesNext(c, B) ==
    LET t == req[c].topic  m == published + 1 IN
    IF t \notin topics THEN PubsubFails(c)
    ELSE /\ m <= MaxMsgs
         /\ published' = m
         /\ box' = PublishedTo(t, m, B)
         /\ due' = [p \in Pairs |-> IF p[1] = t /\ due[p] # None /\ Box(p[1], p[2]) \in B
                                    THEN due[p] \cup {m} ELSE due[p]]
         /\ UNCHANGED <<topics, links, linked>>
         /\ IF req[c].left > 1 THEN Goes(c, [req[c] EXCEPT !.left = @ - 1]) ELSE Ends(c, "ok")
InmemPublish(c) == Is(c, "publish", "first", "inmem") /\ PublishesNext(c, Boxes)
NatsPublish(c) == Is(c, "publish", "first", "nats") /\ PublishesNext(c, Boxes)
GcpPublish(c) == Is(c, "publish", "first", "gcp") /\ PublishesNext(c, Boxes)
AzurePublish(c) == Is(c, "publish", "first", "azure") /\ PublishesNext(c, Boxes)
\* aws: SNS may write to the queues that have a policy for it, and
\* CreateSubscription gives them none: who operates the account may have.
AwsPublish(c) ==
    /\ Is(c, "publish", "first", "aws")
    /\ \E B \in SUBSET ({None} \X Subs) : PublishesNext(c, B)
\* The bound on messages is met before the last message of a request.
PublishStops(c) == req[c].op = "publish" /\ published = MaxMsgs /\ PubsubFails(c)

-----------------------------------------------------------------------------
(* Receive *)

\* Leases that ran out (late) are pending again; some of the pending
\* messages are leased.
Leased(x, late, got) ==
    [mail |-> (x.mail \cup late) \ got, out |-> (x.out \ late) \cup got,
     cnt |-> [m \in Msgs |-> IF m \in got THEN x.cnt[m] + 1 ELSE x.cnt[m]]]
Deliverable(x, late) ==
    {got \in SUBSET (x.mail \cup late) : Cardinality(Deliveries(x)) + Cardinality(got) <= MaxDeliveries}
Receives(c, b) ==
    IF box[b] = None THEN PubsubFails(c)
    ELSE \E got \in Deliverable(box[b], {}) :
            /\ box' = [box EXCEPT ![b] = Leased(@, {}, got)]
            /\ UNCHANGED <<topics, links, due>>
            /\ Says(c)
\* inmem: no timer runs; a receive takes the late leases back.
InmemReceive(c) ==
    /\ Is(c, "receive", "first", "inmem")
    /\ LET b == Box(None, req[c].sub) IN
       IF box[b] = None THEN PubsubFails(c)
       ELSE \E late \in SUBSET box[b].out : \E got \in Deliverable(box[b], late) :
               /\ box' = [box EXCEPT ![b] = Leased(@, late, got)]
               /\ UNCHANGED <<topics, links, due>>
               /\ Says(c)
GcpReceive(c) == Is(c, "receive", "first", "gcp") /\ Receives(c, Box(None, req[c].sub))
AwsReceive(c) == Is(c, "receive", "first", "aws") /\ Receives(c, Box(None, req[c].sub))
\* nats: a stream that has the consumer.
NatsReceiveFind(c) ==
    /\ Is(c, "receive", "first", "nats")
    /\ IF ~Taken(req[c].sub) THEN PubsubFails(c)
       ELSE \E l \in links : /\ l[2] = req[c].sub
                             /\ Goes(c, [req[c] EXCEPT !.at = "found", !.topic = l[1]])
                             /\ PubsubSame
NatsReceive(c) == Is(c, "receive", "found", "nats") /\ Receives(c, <<req[c].topic, req[c].sub>>)
AzureReceiveFind(c) == Is(c, "receive", "first", "azure") /\ FindTopicForSubscription(c, "found")
AzureReceive(c) == Is(c, "receive", "found", "azure") /\ Receives(c, <<req[c].topic, req[c].sub>>)

\* A lease runs out by itself.
LeaseRunsOut ==
    /\ backend # "inmem"
    /\ \E b \in Boxes :
         /\ box[b] # None
         /\ \E m \in box[b].out : box' = [box EXCEPT ![b] = Leased(@, {m}, {})]
    /\ UNCHANGED <<topics, links, published, linked, due, shimVars>>
\* What box b owed for message m is settled, and the message is gone from it.
Owing(b, m) ==
    [p \in Pairs |-> IF due[p] # None /\ Box(p[1], p[2]) = b THEN due[p] \ {m} ELSE due[p]]
BoxWithout(b, m) == [box EXCEPT ![b].mail = @ \ {m}, ![b].out = @ \ {m}]
\* A message older than the retention is dropped: four days on nats, where
\* CreateTopic says so, what the service keeps by default elsewhere.
MessageExpires ==
    /\ backend # "inmem"
    /\ \E b \in Boxes :
         /\ box[b] # None
         /\ \E m \in box[b].mail \cup box[b].out : box' = BoxWithout(b, m) /\ due' = Owing(b, m)
    /\ UNCHANGED <<topics, links, published, linked, shimVars>>

-----------------------------------------------------------------------------
(* Ack and ChangeVisibility, by handle *)

\* Mutation: any handle ever given for a leased message will do.
InFlightAnyHandle(b, h) == box[b] # None /\ h[1] \in box[b].out
InFlight(b, h) == box[b] # None /\ h[1] \in box[b].out /\ h[2] = box[b].cnt[h[1]]
Settled(b, h) == BoxWithout(b, h[1])
\* The handle of an earlier delivery, or of a lease that ran out, is accepted.
OldHandlesCount == backend \in {"nats", "gcp", "aws"}
\* Who acknowledges with a handle that counts is owed the message no longer.
SettlesDue(b, h) ==
    IF box[b] # None /\ (OldHandlesCount \/ h[2] = box[b].cnt[h[1]]) THEN Owing(b, h[1]) ELSE due
NextHandle(c, h) ==
    IF req[c].left = {h} THEN Ends(c, "ok") ELSE Goes(c, [req[c] EXCEPT !.left = @ \ {h}])
AcksOne(c, h) ==
    /\ box' = Settled(req[c].at_box, h)
    /\ due' = SettlesDue(req[c].at_box, h)
    /\ UNCHANGED <<topics, links, published, linked>>
    /\ NextHandle(c, h)
\* Nothing happens, and nobody says so.
AcksNothing(c, h) == PubsubSame /\ NextHandle(c, h)
InmemAck(c) ==
    /\ Is(c, "ack", "first", "inmem")
    /\ \E h \in req[c].left :
         IF InFlight(req[c].at_box, h) THEN AcksOne(c, h) ELSE PubsubFails(c)
\* nats: the acknowledgement is published to the reply subject of the delivery,
\* and may be lost; the server settles the message, whoever leases it by now.
NatsAck(c) ==
    /\ Is(c, "ack", "first", "nats")
    /\ \E h \in req[c].left :
         \/ box[req[c].at_box] # None /\ AcksOne(c, h)
         \/ AcksNothing(c, h)
\* gcp and aws: a handle that is not the last, or whose lease ran out, is
\* answered with success, and may or may not settle the message.
GcpAck(c) ==
    /\ Is(c, "ack", "first", "gcp")
    /\ \E h \in req[c].left :
         IF box[req[c].at_box] = None THEN PubsubFails(c)
         ELSE AcksOne(c, h) \/ (~InFlight(req[c].at_box, h) /\ AcksNothing(c, h))
AwsAck(c) ==
    /\ Is(c, "ack", "first", "aws")
    /\ \E h \in req[c].left :
         IF box[req[c].at_box] = None THEN PubsubFails(c)
         ELSE AcksOne(c, h) \/ (~InFlight(req[c].at_box, h) /\ AcksNothing(c, h))
AzureAck(c) ==
    /\ Is(c, "ack", "first", "azure")
    /\ \E h \in req[c].left :
         IF InFlight(req[c].at_box, h) THEN AcksOne(c, h) ELSE PubsubFails(c)

\* Zero gives the message back; anything else, and anything at all on nats
\* and azure, renews the lease.
HeadsSubscription(c) ==
    /\ req[c].op = "visibility" /\ req[c].at = "head"
    /\ IF IF backend = "azure" THEN topics # {} ELSE Taken(req[c].at_box[2])
       THEN PubsubGoes(c, "first") ELSE PubsubFails(c)
GivesBack(c, h) ==
    /\ box' = [box EXCEPT ![req[c].at_box] = Leased(@, {h[1]}, {})]
    /\ UNCHANGED <<topics, links, due>>
    /\ Says(c)
Renews(c) == Ends(c, "ok") /\ PubsubSame
InmemChangeVisibility(c) ==
    /\ Is(c, "visibility", "first", "inmem")
    /\ \E h \in req[c].left :
         IF ~InFlight(req[c].at_box, h) THEN PubsubFails(c)
         ELSE IF req[c].zero THEN GivesBack(c, h) ELSE Renews(c)
GcpChangeVisibility(c) ==
    /\ Is(c, "visibility", "first", "gcp")
    /\ \E h \in req[c].left :
         IF InFlight(req[c].at_box, h) /\ req[c].zero THEN GivesBack(c, h) ELSE Renews(c)
AwsChangeVisibility(c) ==
    /\ Is(c, "visibility", "first", "aws")
    /\ \E h \in req[c].left :
         IF ~InFlight(req[c].at_box, h) THEN PubsubFails(c)
         ELSE IF req[c].zero THEN GivesBack(c, h) ELSE Renews(c)
NatsChangeVisibility(c) == Is(c, "visibility", "first", "nats") /\ Renews(c)
AzureChangeVisibility(c) ==
    /\ Is(c, "visibility", "first", "azure")
    /\ \E h \in req[c].left : IF InFlight(req[c].at_box, h) THEN Renews(c) ELSE PubsubFails(c)

-----------------------------------------------------------------------------
PubsubStep(c) ==
    /\ req[c] # Idle
    /\ \/ PublishStops(c) \/ HeadsSubscription(c)
       \/ /\ backend = "inmem"
          /\ \/ InmemCreateTopic(c) \/ InmemDeleteTopic(c) \/ InmemCreateSub(c)
             \/ InmemDeleteSub(c) \/ InmemPublish(c) \/ InmemReceive(c)
             \/ InmemAck(c) \/ InmemChangeVisibility(c)
       \/ /\ backend = "nats"
          /\ \/ NatsCreateTopic(c) \/ NatsDeleteTopic(c) \/ NatsCreateSub(c)
             \/ NatsDeleteSub(c) \/ NatsPublish(c) \/ NatsReceiveFind(c)
             \/ NatsReceive(c) \/ NatsAck(c) \/ NatsChangeVisibility(c)
       \/ /\ backend = "aws"
          /\ \/ AwsCreateTopic(c) \/ AwsDeleteTopic(c) \/ AwsCreateSubQueue(c)
             \/ AwsCreateSubSubscribe(c) \/ AwsDeleteSubList(c)
             \/ AwsDeleteSubUnsubscribe(c) \/ AwsDeleteSubQueue(c) \/ AwsPublish(c)
             \/ AwsReceive(c) \/ AwsAck(c) \/ AwsChangeVisibility(c)
       \/ /\ backend = "gcp"
          /\ \/ GcpCreateTopic(c) \/ GcpDeleteTopic(c) \/ GcpCreateSub(c)
             \/ GcpDeleteSub(c) \/ GcpPublish(c) \/ GcpReceive(c) \/ GcpAck(c)
             \/ GcpChangeVisibility(c)
       \/ /\ backend = "azure"
          /\ \/ AzureCreateTopic(c) \/ AzureDeleteTopic(c) \/ AzureCreateSub(c)
             \/ AzureDeleteSubFind(c) \/ AzureDeleteSub(c) \/ AzurePublish(c)
             \/ AzureReceiveFind(c) \/ AzureReceive(c) \/ AzureAck(c)
             \/ AzureChangeVisibility(c)

PubsubNext ==
    /\ service = "pubsub"
    /\ \/ \E c \in Clients : PubsubRequests(c) \/ PubsubStep(c) \/ (Dies(c) /\ PubsubSame)
       \/ LeaseRunsOut \/ MessageExpires

PubsubSpec == ShimInit /\ PubsubInit /\ [][PubsubNext]_<<shimVars, pubsubVars>>

-----------------------------------------------------------------------------
\* What a subscription owes is kept: a message that reached a subscription
\* after an undisturbed CreateSubscription answered, and before anyone asks to
\* delete the subscription or its topic, is pending or leased until it is
\* acknowledged or older than the retention.  On inmem and azure only the
\* handle of its last delivery acknowledges it; on nats, gcp and aws any handle
\* it was ever delivered with may.  Requests that fail half way and other
\* subscriptions of the same name do not lose it.
DueIsKept ==
    \A p \in Pairs : due[p] # None =>
        LET b == Box(p[1], p[2]) IN
        due[p] # {} => box[b] # None /\ due[p] \subseteq box[b].mail \cup box[b].out
=============================================================================
