------------------------------ MODULE QueueShim ------------------------------
(***************************************************************************)
(* The three queue frontends (aws_sqs, gcp_pubsub, azure_servicebus) over  *)
(* the in-process backend.  A shim process serves one frontend, fixed when *)
(* it starts.  net/http runs one goroutine per request; a handler that     *)
(* makes one backend call is one action, a handler that makes several is a *)
(* process `req[c]' with one action per call, so other requests come in    *)
(* between.  Error replies change no state and are left out, except where  *)
(* the handler goes on (or stops half-way) after one.                      *)
(***************************************************************************)
EXTENDS QueueInmem, Sequences, FiniteSetsExt

CONSTANTS
    Frontends,      \* the frontends to explore
    TagSets,        \* tag sets of a CreateQueue request
    Bodies,         \* publish batches: sequences of "ok", "huge", "garbled"
    AckBatches,     \* how many AckIds an acknowledge or modifyAckDeadline has
    HugeSize,       \* the size of a "huge" body
    GcpAckDefault,  \* createSubscription's answer for AckDeadlineSeconds 0
    GcpPullWait     \* WaitTime of a pull that may wait

ASSUME FrontendInputs == /\ TagSets \subseteq SUBSET TagKeys
                         /\ Bodies \subseteq Seq({"ok", "huge", "garbled"})
                         /\ AckBatches \subseteq Nat
                         /\ HugeSize \in Nat
                         /\ GcpAckDefault \in Nat
                         /\ GcpPullWait \in Nat

VARIABLES
    frontend,       \* the frontend this shim process serves
    req             \* per client, the multi-call handler it is in

shimVars == <<vars, frontend, req>>

NoReq == [op |-> "none"]

Free(c) == ~poll[c].active /\ req[c].op = "none"

ShimInit == Init /\ frontend \in Frontends /\ req = [c \in Clients |-> NoReq]

Finish(c) == req' = [req EXCEPT ![c] = NoReq]
Continue(c, r) == req' = [req EXCEPT ![c] = r]

-----------------------------------------------------------------------------
(* aws_sqs *)

\* CreateQueue, then TagQueue when the request has tags; if tagging fails
\* the queue of that name is deleted, whoever created it.
SqsCreateQueue(c, q, a, T) ==
    /\ Free(c)
    /\ CreateQueue(q, a)
    /\ IF T = {} THEN UNCHANGED req
       ELSE Continue(c, [op |-> "sqsTag", queue |-> q, tags |-> T])

SqsCreateTag(c) ==
    /\ req[c].op = "sqsTag"
    /\ \/ TagQueue(req[c].queue, req[c].tags) /\ Finish(c)
       \/ /\ req[c].queue \notin live
          /\ Continue(c, [op |-> "sqsRollback", queue |-> req[c].queue])
          /\ UNCHANGED vars

SqsCreateRollback(c) ==
    /\ req[c].op = "sqsRollback"
    /\ \/ DeleteQueue(req[c].queue)
       \/ req[c].queue \notin live /\ UNCHANGED vars
    /\ Finish(c)

SqsAdmin(q) ==
    \/ DeleteQueue(q)
    \/ HeadQueue(q)                      \* GetQueueUrl, GetQueueAttributes
    \/ \E a \in Attrs : SetQueueAttributes(q, a)
    \/ \E T \in SUBSET TagKeys : TagQueue(q, T) \/ UntagQueue(q, T)

SqsSendMessage(q) == \E s \in Sizes, d \in Delays : SendMessage(q, s, d)

SqsReceiveMessage(c, q) ==
    /\ Free(c)
    /\ \E n \in Batches, v \in Visibilities, w \in Waits : StartReceive(c, q, n, v, w)

SqsDeleteMessage(q, h) == DeleteMessage(q, h)
SqsChangeMessageVisibility(q, h) == \E v \in Visibilities : ChangeVisibility(q, h, v)

-----------------------------------------------------------------------------
(* gcp_pubsub: topic and subscription of one name are one domain queue *)

CreateTopic(q) == CreateQueue(q, NoAttributes)

\* getTopic, getSubscription; deleteSubscription too only probes the queue.
ProbeQueue(q) == HeadQueue(q)
DeleteTopic(q) == DeleteQueue(q)

\* An existing queue is taken for success, and the answer repeats the
\* request's ack deadline (10 when it had none).
CreateSubscription(c, q, a) ==
    /\ Free(c)
    /\ \/ CreateQueue(q, [NoAttributes EXCEPT !.vis = a.vis, !.ret = a.ret])
       \/ q \in live /\ UNCHANGED vars
    /\ Continue(c, [op |-> "subscribed", queue |-> q,
                    ackDeadline |-> OrDefault(a.vis, GcpAckDefault)])

ReplySubscription(c) ==
    /\ req[c].op = "subscribed"
    /\ Finish(c)
    /\ UNCHANGED vars

\* What the publish requests under way may still send.
Unsent ==
    MapThenSumSet(LAMBDA c : IF req[c].op = "publish" THEN Len(req[c].todo) ELSE 0, Clients)

Publish(c, q, body) ==
    /\ Free(c)
    /\ enqueued + Unsent + Len(body) <= MaxMsgs             \* bound MaxMsgs
    /\ Continue(c, [op |-> "publish", queue |-> q, todo |-> body])
    /\ UNCHANGED vars

Accepts(q, item) ==
    /\ item # "garbled"                                     \* base64
    /\ q \in live
    /\ attributes[q].max > 0 => (item = "huge" => HugeSize <= attributes[q].max)

\* Mutation: a rejected message is tried again and again.
PublishRetrying(c) ==
    LET r == req[c]
    IN  /\ r.op = "publish"
        /\ \/ r.todo = <<>> /\ Finish(c) /\ UNCHANGED vars
           \/ /\ r.todo # <<>> /\ Accepts(r.queue, Head(r.todo))
              /\ SendMessage(r.queue, IF Head(r.todo) = "huge" THEN HugeSize ELSE 1, 0)
              /\ Continue(c, [r EXCEPT !.todo = Tail(@)])
           \/ /\ r.todo # <<>> /\ ~Accepts(r.queue, Head(r.todo))
              /\ UNCHANGED <<vars, req>>

\* One turn of publish's loop: the first message that is refused ends the
\* request with an error, and the ones before it stay sent.
PublishNext(c) ==
    LET r == req[c]
    IN  /\ r.op = "publish"
        /\ \/ /\ ~(r.todo # <<>> /\ Accepts(r.queue, Head(r.todo)))
              /\ Finish(c)
              /\ UNCHANGED vars
           \/ /\ r.todo # <<>> /\ Accepts(r.queue, Head(r.todo))
              /\ SendMessage(r.queue, IF Head(r.todo) = "huge" THEN HugeSize ELSE 1, 0)
              /\ Continue(c, [r EXCEPT !.todo = Tail(@)])

Pull(c, q) ==
    /\ Free(c)
    /\ \E n \in Batches, w \in {0, GcpPullWait} : StartReceive(c, q, n, 0, w)

HandleIn(q, h) == q \in live /\ inflight[q][h] # NoMsg

\* acknowledge and modifyAckDeadline go through their AckIds in order and
\* stop at the first that is not in flight.
Acknowledge(c, q, ids) ==
    /\ Free(c)
    /\ Continue(c, [op |-> "acknowledge", queue |-> q, todo |-> ids])
    /\ UNCHANGED vars

AcknowledgeNext(c) ==
    LET r == req[c]
    IN  /\ r.op = "acknowledge"
        /\ \/ /\ r.todo # <<>>
              /\ DeleteMessage(r.queue, Head(r.todo))
              /\ Continue(c, [r EXCEPT !.todo = Tail(@)])
           \/ /\ ~(r.todo # <<>> /\ HandleIn(r.queue, Head(r.todo)))
              /\ Finish(c)
              /\ UNCHANGED vars

ModifyAckDeadline(c, q, ids, v) ==
    /\ Free(c)
    /\ Continue(c, [op |-> "modifyAck", queue |-> q, todo |-> ids, vis |-> v])
    /\ UNCHANGED vars

ModifyAckDeadlineNext(c) ==
    LET r == req[c]
    IN  /\ r.op = "modifyAck"
        /\ \/ /\ r.todo # <<>>
              /\ ChangeVisibility(r.queue, Head(r.todo), r.vis)
              /\ Continue(c, [r EXCEPT !.todo = Tail(@)])
           \/ /\ ~(r.todo # <<>> /\ HandleIn(r.queue, Head(r.todo)))
              /\ Finish(c)
              /\ UNCHANGED vars

-----------------------------------------------------------------------------
(* azure_servicebus *)

EntityPut(q) == CreateQueue(q, NoAttributes)
EntityDelete(q) == DeleteQueue(q)
EntityGet(q) == HeadQueue(q)
ServiceBusSend(q) == \E s \in Sizes : SendMessage(q, s, 0)

PeekLock(c, q) ==
    /\ Free(c)
    /\ \E w \in Waits : StartReceive(c, q, 1, 0, w)

CompleteMessage(q, h) == DeleteMessage(q, h)

\* renewLock: HeadQueue for the queue's lock duration, then
\* ChangeVisibility.  `lapsed' remembers whether the lock had run out by the
\* time HeadQueue looked.
RenewLock(c, q, h) ==
    /\ Free(c)
    /\ HeadQueue(q)
    /\ Continue(c, [op |-> "renew", queue |-> q, handle |-> h,
                    extend |-> OrDefault(attributes[q].vis, DefaultAttrs.vis),
                    lapsed |-> h \in Lapsed(q)])

RenewLockChange(c) ==
    LET r == req[c]
    IN  /\ r.op = "renew"
        /\ \/ ChangeVisibility(r.queue, r.handle, r.extend)
           \/ ~HandleIn(r.queue, r.handle) /\ UNCHANGED vars
        /\ Finish(c)

-----------------------------------------------------------------------------
AckIds == UNION {[1..n -> issued] : n \in AckBatches}

AwsNext ==
    \E q \in Queues :
        \/ SqsAdmin(q) /\ UNCHANGED req
        \/ SqsSendMessage(q) /\ UNCHANGED req
        \/ \E h \in issued : (SqsDeleteMessage(q, h) \/ SqsChangeMessageVisibility(q, h))
                             /\ UNCHANGED req
        \/ \E c \in Clients :
             \/ \E a \in Attrs, T \in TagSets : SqsCreateQueue(c, q, a, T)
             \/ SqsReceiveMessage(c, q) /\ UNCHANGED req

GcpNext ==
    \E q \in Queues :
        \/ (CreateTopic(q) \/ ProbeQueue(q) \/ DeleteTopic(q)) /\ UNCHANGED req
        \/ \E c \in Clients :
             \/ \E a \in Attrs : CreateSubscription(c, q, a)
             \/ \E b \in Bodies : Publish(c, q, b)
             \/ Pull(c, q) /\ UNCHANGED req
             \/ \E ids \in AckIds : Acknowledge(c, q, ids)
             \/ \E ids \in AckIds, v \in Visibilities : ModifyAckDeadline(c, q, ids, v)

AzureNext ==
    \E q \in Queues :
        \/ (EntityPut(q) \/ EntityDelete(q) \/ EntityGet(q) \/ ServiceBusSend(q))
           /\ UNCHANGED req
        \/ \E h \in issued : CompleteMessage(q, h) /\ UNCHANGED req
        \/ \E c \in Clients :
             \/ PeekLock(c, q) /\ UNCHANGED req
             \/ \E h \in issued : RenewLock(c, q, h)

\* The next call of a handler that is under way.
HandlerStep(c) ==
    \/ SqsCreateTag(c)
    \/ SqsCreateRollback(c)
    \/ ReplySubscription(c)
    \/ PublishNext(c)
    \/ AcknowledgeNext(c)
    \/ ModifyAckDeadlineNext(c)
    \/ RenewLockChange(c)
    \/ TryReceive(c) /\ UNCHANGED req

ShimNext ==
    /\ UNCHANGED frontend
    /\ \/ frontend = "aws" /\ AwsNext
       \/ frontend = "gcp" /\ GcpNext
       \/ frontend = "azure" /\ AzureNext
       \/ \E c \in Clients : HandlerStep(c)
       \/ \E c \in Clients : CancelReceive(c) /\ UNCHANGED req
       \/ Tick /\ UNCHANGED req

\* A handler's goroutine keeps running, and time passes.
ShimFairness ==
    /\ WF_shimVars(Tick /\ UNCHANGED <<frontend, req>>)
    /\ \A c \in Clients : WF_shimVars(HandlerStep(c) /\ UNCHANGED frontend)

ShimSpec == ShimInit /\ [][ShimNext]_shimVars /\ ShimFairness

-----------------------------------------------------------------------------
(* Properties *)

\* A lock that had run out when renewLock was called is not renewed, although
\* the message may sit unclaimed in `inflight': HeadQueue, which renewLock
\* calls only for the lock duration, gives it back first (answer 410
\* MessageLockLost).
LapsedLockNotRenewed ==
    [][\A c \in Clients :
          req[c].op = "renew" /\ req'[c] # req[c] /\ req[c].lapsed
             => UNCHANGED visibleAt]_shimVars

\* Every request ends: the loops of publish, acknowledge and
\* modifyAckDeadline, CreateQueue's tagging and rollback, and the long poll
\* under a receive all come to an end whatever the other requests do.
RequestsEnd == \A c \in Clients : ~Free(c) ~> Free(c)
=============================================================================
