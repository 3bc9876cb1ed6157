----------------------------- MODULE QueueInmem -----------------------------
(***************************************************************************)
(* The in-process queue backend (services/queue/backends/inmem).           *)
(*                                                                         *)
(* Every method runs under the backend's mutex, so each is one atomic      *)
(* action; ReceiveMessages is not: it is a loop of critical sections       *)
(* (tryReceive) with a sleep in between, modelled as one process per       *)
(* client.  An error return changes nothing and is the action's guard.     *)
(*                                                                         *)
(* Time.  A deadline of the code (visibleAfter, visibleAt, the poll's      *)
(* deadline) is the number of ticks left until it; `now.Before(deadline)'  *)
(* is `left > 0', and Tick lets one tick pass for all of them.             *)
(*                                                                         *)
(* Messages are numbered in the order they are sent, which is the order of *)
(* enqueuedAt.  takeVisible sorts `pending' by enqueuedAt each time it     *)
(* reads it and nothing else reads its order, so `pending' is a set.       *)
(***************************************************************************)
EXTENDS Naturals, FiniteSets, Functions

CONSTANTS
    Queues,         \* queue names
    Clients,        \* goroutines inside ReceiveMessages
    Handles,        \* the receipt handles newID can return (bound)
    NoHandle,       \* receiptHandle == ""
    NoMsg,          \* a handle that is not a key of inflight
    MaxMsgs,        \* bound: messages ever sent
    TagKeys,        \* tag keys (a tag's value is not modelled)
    Attrs,          \* attribute records a caller passes, 0 = not set
    DefaultAttrs,   \* what CreateQueue puts for 0
    Sizes,          \* body sizes
    Delays,         \* DelaySeconds of a send, 0 = the queue's
    Visibilities,   \* visibility timeouts of a receive or a change
    Waits,          \* long-poll budgets
    Batches,        \* MaxMessages of a receive
    MaxBatch        \* the cap of tryReceive (10 in the code)

Msgs == 1..MaxMsgs

Attributes == [vis : Nat, ret : Nat, max : Nat, delay : Nat]

ASSUME NamesAssumption == /\ NoHandle \notin Handles
                          /\ NoMsg \notin Msgs
ASSUME BoundsAssumption == /\ MaxMsgs \in Nat
                           /\ MaxBatch \in Nat \ {0}
                           /\ IsFiniteSet(Handles)
ASSUME InputsAssumption == /\ Attrs \subseteq Attributes
                           /\ DefaultAttrs \in Attributes
                           /\ Sizes \subseteq Nat
                           /\ Delays \subseteq Nat
                           /\ Visibilities \subseteq Nat
                           /\ Waits \subseteq Nat
                           /\ Batches \subseteq Nat

VARIABLES
    live,           \* the keys of Backend.queues
    attributes,     \* per queue, queueState.attributes
    tags,           \* per queue, the keys of queueState.tags
    pending,        \* per queue, queueState.pending
    inflight,       \* per queue, queueState.inflight: handle -> message
    receiptHandle,  \* per message
    visibleAfter,   \* per message, ticks until it may be taken
    visibleAt,      \* per message, ticks until its lease ends
    deliveryCount,  \* per message
    enqueued,       \* how many messages were sent: 1..enqueued exist
    issued,         \* the handles newID has returned
    poll,           \* per client, the ReceiveMessages it is in, or Idle
    acked,          \* history: the messages removed by DeleteMessage
    dropped         \* history: the messages lost with their queue

queueVars == <<live, attributes, tags>>
msgVars == <<pending, inflight, receiptHandle, visibleAfter, visibleAt,
             deliveryCount, enqueued, issued, acked, dropped>>
vars == <<queueVars, msgVars, poll>>

Idle == [active |-> FALSE]
Polls == [active : {TRUE}, queue : Queues, max : Nat, vis : Nat,
          wait : Nat, left : Nat, slept : BOOLEAN]
NoInflight == [h \in Handles |-> NoMsg]
NoAttributes == [vis |-> 0, ret |-> 0, max |-> 0, delay |-> 0]

Init ==
    /\ live = {}
    /\ attributes = [q \in Queues |-> NoAttributes]
    /\ tags = [q \in Queues |-> {}]
    /\ pending = [q \in Queues |-> {}]
    /\ inflight = [q \in Queues |-> NoInflight]
    /\ receiptHandle = [m \in Msgs |-> NoHandle]
    /\ visibleAfter = [m \in Msgs |-> 0]
    /\ visibleAt = [m \in Msgs |-> 0]
    /\ deliveryCount = [m \in Msgs |-> 0]
    /\ enqueued = 0
    /\ issued = {}
    /\ poll = [c \in Clients |-> Idle]
    /\ acked = {}
    /\ dropped = {}

-----------------------------------------------------------------------------
(* Queue administration *)

OrDefault(v, d) == IF v = 0 THEN d ELSE v

WithDefaults(a) == [f \in DOMAIN DefaultAttrs |-> OrDefault(a[f], DefaultAttrs[f])]

\* SetQueueAttributes: a zero field leaves the attribute as it is.
Merged(old, a) == [f \in DOMAIN old |-> OrDefault(a[f], old[f])]

Leased(q) == {inflight[q][h] : h \in Handles} \ {NoMsg}

CreateQueue(q, a) ==
    /\ q \notin live
    /\ live' = live \cup {q}
    /\ attributes' = [attributes EXCEPT ![q] = WithDefaults(a)]
    /\ UNCHANGED <<tags, msgVars, poll>>

\* delete(b.queues, name): what hung off the queue is garbage from then on.
DeleteQueue(q) ==
    LET gone == pending[q] \cup Leased(q)
    IN  /\ q \in live
        /\ live' = live \ {q}
        /\ attributes' = [attributes EXCEPT ![q] = NoAttributes]
        /\ tags' = [tags EXCEPT ![q] = {}]
        /\ pending' = [pending EXCEPT ![q] = {}]
        /\ inflight' = [inflight EXCEPT ![q] = NoInflight]
        /\ receiptHandle' = [m \in Msgs |-> IF m \in gone THEN NoHandle ELSE receiptHandle[m]]
        /\ visibleAfter' = [m \in Msgs |-> IF m \in gone THEN 0 ELSE visibleAfter[m]]
        /\ visibleAt' = [m \in Msgs |-> IF m \in gone THEN 0 ELSE visibleAt[m]]
        /\ dropped' = dropped \cup gone
        /\ UNCHANGED <<deliveryCount, enqueued, issued, poll, acked>>

SetQueueAttributes(q, a) ==
    /\ q \in live
    /\ attributes' = [attributes EXCEPT ![q] = Merged(@, a)]
    /\ UNCHANGED <<live, tags, msgVars, poll>>

TagQueue(q, T) ==
    /\ q \in live
    /\ tags' = [tags EXCEPT ![q] = @ \cup T]
    /\ UNCHANGED <<live, attributes, msgVars, poll>>

UntagQueue(q, T) ==
    /\ q \in live
    /\ tags' = [tags EXCEPT ![q] = @ \ T]
    /\ UNCHANGED <<live, attributes, msgVars, poll>>

-----------------------------------------------------------------------------
(* Messages *)

\* Mutation: a lease is taken back one tick before it ends.
LapsedEarly(q) ==
    {h \in Handles : inflight[q][h] # NoMsg /\ visibleAt[inflight[q][h]] <= 1}

\* reclaimInflight: the handles whose lease has run out, and what it leaves.
Lapsed(q) == {h \in Handles : inflight[q][h] # NoMsg /\ visibleAt[inflight[q][h]] = 0}

Reclaimed(q) == {inflight[q][h] : h \in Lapsed(q)}

\* Mutation: a lapsed message is dropped from inflight and not re-queued.
AfterReclaimLosing(q) == pending[q]

AfterReclaim(q) == pending[q] \cup Reclaimed(q)

\* takeVisible: the n oldest of the messages that may be seen.
Visible(q) == {m \in AfterReclaim(q) : visibleAfter[m] = 0}

Picked(q, n) ==
    {m \in Visible(q) : Cardinality({k \in Visible(q) : k < m}) < n}

BatchSize(n) == IF n = 0 \/ n > MaxBatch THEN MaxBatch ELSE n

\* Mutation: HeadQueue only reads.
HeadQueueReading(q) == q \in live /\ UNCHANGED vars

\* Mutation: reclaim forgets to clear the message's receipt handle.
HeadQueueKeepingHandles(q) ==
    /\ q \in live
    /\ pending' = [pending EXCEPT ![q] = AfterReclaim(q)]
    /\ inflight' = [inflight EXCEPT ![q] =
                       [h \in Handles |-> IF h \in Lapsed(q) THEN NoMsg ELSE @[h]]]
    /\ UNCHANGED <<queueVars, receiptHandle, visibleAfter, visibleAt, deliveryCount,
                   enqueued, issued, poll, acked, dropped>>

\* HeadQueue reclaims what has lapsed and reports the attributes.
HeadQueue(q) ==
    /\ q \in live
    /\ pending' = [pending EXCEPT ![q] = AfterReclaim(q)]
    /\ inflight' = [inflight EXCEPT ![q] =
                       [h \in Handles |-> IF h \in Lapsed(q) THEN NoMsg ELSE @[h]]]
    /\ receiptHandle' = [m \in Msgs |-> IF m \in Reclaimed(q) THEN NoHandle
                                        ELSE receiptHandle[m]]
    /\ UNCHANGED <<queueVars, visibleAfter, visibleAt, deliveryCount, enqueued,
                   issued, poll, acked, dropped>>

SendMessage(q, size, delay) ==
    LET m == enqueued + 1
    IN  /\ q \in live
        /\ attributes[q].max > 0 => size <= attributes[q].max
        /\ m \in Msgs                            \* bound MaxMsgs
        /\ enqueued' = m
        /\ pending' = [pending EXCEPT ![q] = @ \cup {m}]
        /\ visibleAfter' = [visibleAfter EXCEPT ![m] = OrDefault(delay, attributes[q].delay)]
        /\ UNCHANGED <<queueVars, inflight, receiptHandle, visibleAt, deliveryCount,
                       issued, poll, acked, dropped>>

\* Mutation: handles that were used before may be used again.
FreshHandlesReused(S) == Injection(S, Handles)

\* One handle of newID for each message, none of them seen before.
FreshHandles(S) == Injection(S, Handles \ issued)

NewHandles(S) == CHOOSE f \in FreshHandles(S) : TRUE

\* The critical section of tryReceive on a queue that exists.
Deliver(q, n, v) ==
    LET S == Picked(q, BatchSize(n))
        f == NewHandles(S)
        kept(h) == IF h \in Lapsed(q) THEN NoMsg ELSE inflight[q][h]
    IN  /\ FreshHandles(S) # {}                  \* bound Handles
        /\ pending' = [pending EXCEPT ![q] = AfterReclaim(q) \ S]
        /\ inflight' = [inflight EXCEPT ![q] =
                 [h \in Handles |-> IF \E m \in S : f[m] = h
                                    THEN CHOOSE m \in S : f[m] = h ELSE kept(h)]]
        /\ receiptHandle' = [m \in Msgs |-> IF m \in S THEN f[m]
                                            ELSE IF m \in Reclaimed(q) THEN NoHandle
                                            ELSE receiptHandle[m]]
        /\ visibleAt' = [m \in Msgs |-> IF m \in S THEN OrDefault(v, attributes[q].vis)
                                        ELSE visibleAt[m]]
        /\ deliveryCount' = [m \in Msgs |-> IF m \in S THEN deliveryCount[m] + 1
                                            ELSE deliveryCount[m]]
        /\ issued' = issued \cup {f[m] : m \in S}
        /\ UNCHANGED <<queueVars, visibleAfter, enqueued, acked, dropped>>

\* ReceiveMessages: the call fixes the deadline, then loops over TryReceive.
\* A receive is admitted only while every admitted one can get its handles.
Reserved == {c \in Clients : poll[c].active}

StartReceive(c, q, n, v, w) ==
    /\ ~poll[c].active
    /\ Cardinality(Handles \ issued) >= MaxBatch * (Cardinality(Reserved) + 1)
    /\ poll' = [poll EXCEPT ![c] = [active |-> TRUE, queue |-> q, max |-> n,
                                    vis |-> v, wait |-> w, left |-> w,
                                    slept |-> FALSE]]
    /\ UNCHANGED <<queueVars, msgVars>>

\* Mutation: the loop never looks at its deadline.
TryReceiveForever(c) ==
    LET p == poll[c]
    IN  /\ p.active
        /\ \/ p.queue \notin live /\ UNCHANGED <<queueVars, msgVars>>
           \/ p.queue \in live /\ Deliver(p.queue, p.max, p.vis)
        /\ poll' = IF \/ p.queue \notin live
                      \/ Picked(p.queue, BatchSize(p.max)) # {}
                      \/ p.wait = 0
                   THEN [poll EXCEPT ![c] = Idle]
                   ELSE [poll EXCEPT ![c].slept = TRUE]

\* One turn of the loop: it ends with an error, with messages, at once when
\* there is no budget, or once the deadline has passed.
TryReceive(c) ==
    LET p == poll[c]
    IN  /\ p.active
        /\ \/ /\ p.queue \notin live
              /\ UNCHANGED <<queueVars, msgVars>>
           \/ /\ p.queue \in live
              /\ Deliver(p.queue, p.max, p.vis)
        /\ poll' = IF \/ p.queue \notin live
                      \/ Picked(p.queue, BatchSize(p.max)) # {}
                      \/ p.wait = 0
                      \/ p.left = 0
                   THEN [poll EXCEPT ![c] = Idle]
                   ELSE [poll EXCEPT ![c].slept = TRUE]

\* ctx.Done, which the loop looks at only while it sleeps.
CancelReceive(c) ==
    /\ poll[c].active
    /\ poll[c].slept
    /\ poll' = [poll EXCEPT ![c] = Idle]
    /\ UNCHANGED <<queueVars, msgVars>>

DeleteMessage(q, h) ==
    LET m == inflight[q][h]
    IN  /\ q \in live
        /\ m # NoMsg
        /\ inflight' = [inflight EXCEPT ![q][h] = NoMsg]
        /\ receiptHandle' = [receiptHandle EXCEPT ![m] = NoHandle]
        /\ visibleAt' = [visibleAt EXCEPT ![m] = 0]
        /\ acked' = acked \cup {m}
        /\ UNCHANGED <<queueVars, pending, visibleAfter, deliveryCount, enqueued,
                       issued, poll, dropped>>

\* Mutation: the message given back also stays in flight.
ReturnMessageTwice(q, h) ==
    LET m == inflight[q][h]
    IN  /\ q \in live
        /\ m # NoMsg
        /\ visibleAt' = [visibleAt EXCEPT ![m] = 0]
        /\ visibleAfter' = [visibleAfter EXCEPT ![m] = 0]
        /\ pending' = [pending EXCEPT ![q] = @ \cup {m}]
        /\ UNCHANGED <<queueVars, inflight, receiptHandle, deliveryCount, enqueued,
                       issued, poll, acked, dropped>>

\* ChangeVisibility: zero gives the message back, anything else moves the
\* end of the lease, even of one that has lapsed and was not reclaimed yet.
ReturnMessage(q, h) ==
    LET m == inflight[q][h]
    IN  /\ q \in live
        /\ m # NoMsg
        /\ inflight' = [inflight EXCEPT ![q][h] = NoMsg]
        /\ receiptHandle' = [receiptHandle EXCEPT ![m] = NoHandle]
        /\ visibleAt' = [visibleAt EXCEPT ![m] = 0]
        /\ visibleAfter' = [visibleAfter EXCEPT ![m] = 0]
        /\ pending' = [pending EXCEPT ![q] = @ \cup {m}]
        /\ UNCHANGED <<queueVars, deliveryCount, enqueued, issued, poll, acked, dropped>>

ExtendLease(q, h, v) ==
    LET m == inflight[q][h]
    IN  /\ q \in live
        /\ m # NoMsg
        /\ v > 0
        /\ visibleAt' = [visibleAt EXCEPT ![m] = v]
        /\ UNCHANGED <<queueVars, pending, inflight, receiptHandle, visibleAfter,
                       deliveryCount, enqueued, issued, poll, acked, dropped>>

ChangeVisibility(q, h, v) == IF v = 0 THEN ReturnMessage(q, h) ELSE ExtendLease(q, h, v)

-----------------------------------------------------------------------------
Less(t) == IF t = 0 THEN 0 ELSE t - 1

Tick ==
    /\ visibleAfter' = [m \in Msgs |-> Less(visibleAfter[m])]
    /\ visibleAt' = [m \in Msgs |-> Less(visibleAt[m])]
    /\ poll' = [c \in Clients |-> IF poll[c].active
                                  THEN [poll[c] EXCEPT !.left = Less(@)] ELSE poll[c]]
    /\ UNCHANGED <<queueVars, pending, inflight, receiptHandle, deliveryCount,
                   enqueued, issued, acked, dropped>>

Next ==
    \/ \E q \in Queues :
         \/ DeleteQueue(q)
         \/ HeadQueue(q)
         \/ \E a \in Attrs : CreateQueue(q, a) \/ SetQueueAttributes(q, a)
         \/ \E T \in SUBSET TagKeys : TagQueue(q, T) \/ UntagQueue(q, T)
         \/ \E size \in Sizes, d \in Delays : SendMessage(q, size, d)
         \/ \E h \in Handles : DeleteMessage(q, h)
         \/ \E h \in Handles, v \in Visibilities : ChangeVisibility(q, h, v)
    \/ \E c \in Clients :
         \/ \E q \in Queues, n \in Batches, v \in Visibilities, w \in Waits :
               StartReceive(c, q, n, v, w)
         \/ TryReceive(c)
         \/ CancelReceive(c)
    \/ Tick

\* time.After fires and the goroutine is scheduled again; time passes.
Fairness == WF_vars(Tick) /\ \A c \in Clients : WF_vars(TryReceive(c))

Spec == Init /\ [][Next]_vars
FairSpec == Spec /\ Fairness

-----------------------------------------------------------------------------
(* Properties *)

\* Every variable keeps its type through every method of the backend.
TypeOK ==
    /\ live \subseteq Queues
    /\ attributes \in [Queues -> Attributes]
    /\ tags \in [Queues -> SUBSET TagKeys]
    /\ pending \in [Queues -> SUBSET Msgs]
    /\ inflight \in [Queues -> [Handles -> Msgs \cup {NoMsg}]]
    /\ receiptHandle \in [Msgs -> Handles \cup {NoHandle}]
    /\ visibleAfter \in [Msgs -> Nat]
    /\ visibleAt \in [Msgs -> Nat]
    /\ deliveryCount \in [Msgs -> Nat]
    /\ enqueued \in 0..MaxMsgs
    /\ issued \subseteq Handles
    /\ poll \in [Clients -> Polls \cup {Idle}]
    /\ acked \subseteq Msgs
    /\ dropped \subseteq Msgs

\* A message is found in one place: waiting in a queue or leased by it.
InPending(m) == \E q \in Queues : m \in pending[q]
InFlight(m) == \E q \in Queues, h \in Handles : inflight[q][h] = m

PlacedOnce(m) ==
    /\ ~(InPending(m) /\ InFlight(m))
    /\ \A q, r \in Queues : m \in pending[q] /\ m \in pending[r] => q = r
    /\ \A q, r \in Queues : \A g, h \in Handles :
          inflight[q][g] = m /\ inflight[r][h] = m => q = r /\ g = h

\* No message is lost, duplicated or brought back by the moves between
\* `pending' and `inflight' (send, receive, lazy reclaim, change of
\* visibility): one that was sent and neither acknowledged nor deleted with
\* its queue is in exactly one of them, once; any other is in none.
Conservation ==
    \A m \in Msgs :
        /\ PlacedOnce(m)
        /\ InPending(m) \/ InFlight(m)
             <=> m <= enqueued /\ m \notin acked \cup dropped

\* The two records of a lease agree: `inflight' maps h to m exactly when
\* m.receiptHandle is h, so a handle the message no longer carries can
\* neither delete nor extend it (DeleteMessage, ChangeVisibility).
HandleAgreement ==
    \A m \in Msgs, h \in Handles :
        receiptHandle[m] = h <=> \E q \in Queues : inflight[q][h] = m

\* What makes the two inductive: a key of `inflight' came from newID, and
\* only messages that were sent are ever acknowledged or dropped.
IssuedKeys == \A q \in Queues, h \in Handles : inflight[q][h] # NoMsg => h \in issued
SentOnly == \A m \in acked \cup dropped : m <= enqueued

MessageInv == TypeOK /\ Conservation /\ HandleAgreement /\ IssuedKeys /\ SentOnly

\* A message whose lease is in force is given to no other consumer: its
\* handle changes only by going away, and then it was acknowledged, deleted
\* with its queue, or given back (ChangeVisibility 0).
LeaseExclusive ==
    [][\A m \in Msgs :
          receiptHandle[m] # NoHandle /\ visibleAt[m] > 0 =>
             \/ receiptHandle'[m] = receiptHandle[m]
             \/ /\ receiptHandle'[m] = NoHandle
                /\ m \in acked' \cup dropped' \/ InPending(m)']_vars

\* A handle names one delivery for ever: it never moves to another message,
\* and once it has been retired (acknowledged, reclaimed, given back) it is
\* never a key of `inflight' again.
HandleNamesOneDelivery ==
    [][\A h \in issued : \A q \in Queues :
          inflight'[q][h] \in {inflight[q][h], NoMsg}]_vars

\* The long poll of ReceiveMessages returns: with messages, with an error or
\* empty-handed when its budget is spent, whatever the others do.
LongPollReturns ==
    \A c \in Clients : poll[c].active ~> ~poll[c].active

\* What the backend does with messages is what the interface promises.
Service == INSTANCE QueueService WITH
    sent <- 1..enqueued,
    owed <- [q \in Queues |-> pending[q] \cup Leased(q)],
    lease <- receiptHandle,
    spent <- issued

ImplementsService == Service!Spec
=============================================================================
