----------------------------- MODULE QueueProofs -----------------------------
(***************************************************************************)
(* Theorems about the in-process queue backend, alone and under the three  *)
(* frontends, for any number of queues, clients, messages and handles.     *)
(***************************************************************************)
EXTENDS QueueShim, TLAPS

\* What a caller may do with the backend: the steps of Next, with any inputs.
AnyCall ==
    \/ \E q \in Queues :
         \/ DeleteQueue(q)
         \/ HeadQueue(q)
         \/ \E a \in Attributes : CreateQueue(q, a) \/ SetQueueAttributes(q, a)
         \/ \E T \in SUBSET TagKeys : TagQueue(q, T) \/ UntagQueue(q, T)
         \/ \E size, d \in Nat : SendMessage(q, size, d)
         \/ \E h \in Handles : DeleteMessage(q, h)
         \/ \E h \in Handles, v \in Nat : ChangeVisibility(q, h, v)
    \/ \E c \in Clients :
         \/ \E q \in Queues, n, v, w \in Nat : StartReceive(c, q, n, v, w)
         \/ TryReceive(c)
         \/ CancelReceive(c)
    \/ Tick

LEMMA NextIsACall == [Next]_vars => [AnyCall]_vars
BY InputsAssumption DEF Next, AnyCall

-----------------------------------------------------------------------------
(* The operators the actions are built from *)

\* newID: the handles of one delivery are new and pairwise different.
LEMMA NewHandlesFresh ==
    ASSUME NEW S, FreshHandles(S) # {}
    PROVE  /\ NewHandles(S) \in [S -> Handles \ issued]
           /\ \A m, n \in S : NewHandles(S)[m] = NewHandles(S)[n] => m = n
<1>1. NewHandles(S) \in FreshHandles(S)
  BY DEF NewHandles
<1> QED
  BY <1>1 DEF FreshHandles, Injection, IsInjective

\* The merges of attributes give attributes (CreateQueue, SetQueueAttributes).
LEMMA MergeType ==
    ASSUME NEW old \in Attributes, NEW a \in Attributes
    PROVE  Merged(old, a) \in Attributes
<1>1. DOMAIN old = {"vis", "ret", "max", "delay"}
  BY DEF Attributes
<1>2. \A f \in DOMAIN old : OrDefault(a[f], old[f]) \in Nat
  BY <1>1 DEF Attributes, OrDefault
<1>3. Merged(old, a) = [vis |-> OrDefault(a["vis"], old["vis"]),
                        ret |-> OrDefault(a["ret"], old["ret"]),
                        max |-> OrDefault(a["max"], old["max"]),
                        delay |-> OrDefault(a["delay"], old["delay"])]
  BY <1>1 DEF Merged
<1> QED
  BY <1>1, <1>2, <1>3 DEF Attributes

LEMMA DefaultsType ==
    ASSUME NEW a \in Attributes
    PROVE  WithDefaults(a) \in Attributes
BY MergeType, InputsAssumption DEF WithDefaults, Merged

\* A picked message is a message, and it was waiting or its lease had lapsed.
LEMMA PickedType ==
    ASSUME TypeOK, NEW q \in Queues, NEW n
    PROVE  /\ Picked(q, n) \subseteq AfterReclaim(q)
           /\ AfterReclaim(q) \subseteq Msgs
           /\ Reclaimed(q) \subseteq Msgs
           /\ Leased(q) \subseteq Msgs
BY DEF Picked, Visible, AfterReclaim, Reclaimed, Lapsed, Leased, TypeOK

-----------------------------------------------------------------------------
(* Type correctness *)

LEMMA InitType == Init => TypeOK
BY BoundsAssumption, NamesAssumption
   DEF Init, TypeOK, NoAttributes, Attributes, NoInflight

LEMMA DeliverType ==
    ASSUME TypeOK, NEW q \in Queues, NEW n, NEW v \in Nat, Deliver(q, n, v)
    PROVE  /\ pending' \in [Queues -> SUBSET Msgs]
           /\ inflight' \in [Queues -> [Handles -> Msgs \cup {NoMsg}]]
           /\ receiptHandle' \in [Msgs -> Handles \cup {NoHandle}]
           /\ visibleAt' \in [Msgs -> Nat]
           /\ deliveryCount' \in [Msgs -> Nat]
           /\ issued' \subseteq Handles
<1> DEFINE S == Picked(q, BatchSize(n))
           f == NewHandles(S)
           in(h) == IF \E m \in S : f[m] = h THEN CHOOSE m \in S : f[m] = h
                    ELSE IF h \in Lapsed(q) THEN NoMsg ELSE inflight[q][h]
<1>1. f \in [S -> Handles]
  BY NewHandlesFresh DEF Deliver
<1>2. S \subseteq Msgs /\ AfterReclaim(q) \subseteq Msgs
  BY PickedType
<1>3. \A h \in Handles : in(h) \in Msgs \cup {NoMsg}
  BY <1>2 DEF TypeOK
<1>4. OrDefault(v, attributes[q].vis) \in Nat
  BY DEF TypeOK, Attributes, OrDefault
<1>5. pending' \in [Queues -> SUBSET Msgs]
  BY <1>2 DEF Deliver, TypeOK
<1>6. inflight' = [inflight EXCEPT ![q] = [h \in Handles |-> in(h)]]
  BY DEF Deliver
<1>7. inflight' \in [Queues -> [Handles -> Msgs \cup {NoMsg}]]
  <2> HIDE DEF in
  <2> QED BY <1>3, <1>6 DEF TypeOK
<1> HIDE DEF S, f
<1>8. receiptHandle' \in [Msgs -> Handles \cup {NoHandle}]
  BY <1>1, <1>2 DEF Deliver, TypeOK, S, f
<1>9. visibleAt' \in [Msgs -> Nat] /\ deliveryCount' \in [Msgs -> Nat]
  BY <1>4 DEF Deliver, TypeOK
<1>10. issued' \subseteq Handles
  BY <1>1 DEF Deliver, TypeOK, S, f
<1> QED
  BY <1>5, <1>7, <1>8, <1>9, <1>10

LEMMA NextType == TypeOK /\ [AnyCall]_vars => TypeOK'
<1> SUFFICES ASSUME TypeOK, [AnyCall]_vars PROVE TypeOK'
  OBVIOUS
<1> USE NamesAssumption, BoundsAssumption, InputsAssumption
<1>1. ASSUME NEW q \in Queues, NEW a \in Attributes, CreateQueue(q, a) PROVE TypeOK'
  <2>1. WithDefaults(a) \in Attributes
    BY DefaultsType
  <2> QED BY <1>1, <2>1 DEF CreateQueue, TypeOK, msgVars
<1>2. ASSUME NEW q \in Queues, DeleteQueue(q) PROVE TypeOK'
  <2>1. NoAttributes \in Attributes /\ NoInflight \in [Handles -> Msgs \cup {NoMsg}]
    BY DEF NoAttributes, Attributes, NoInflight
  <2>2. Leased(q) \subseteq Msgs
    BY PickedType
  <2> QED BY <1>2, <2>1, <2>2 DEF DeleteQueue, TypeOK
<1>3. ASSUME NEW q \in Queues, NEW a \in Attributes, SetQueueAttributes(q, a) PROVE TypeOK'
  <2>1. Merged(attributes[q], a) \in Attributes
    BY MergeType DEF TypeOK
  <2> QED BY <1>3, <2>1 DEF SetQueueAttributes, TypeOK, msgVars
<1>4. ASSUME NEW q \in Queues, NEW T \in SUBSET TagKeys, TagQueue(q, T) \/ UntagQueue(q, T)
      PROVE  TypeOK'
  BY <1>4 DEF TagQueue, UntagQueue, TypeOK, msgVars
<1>5. ASSUME NEW q \in Queues, HeadQueue(q) PROVE TypeOK'
  <2>1. AfterReclaim(q) \subseteq Msgs
    BY PickedType
  <2> QED BY <1>5, <2>1 DEF HeadQueue, TypeOK, queueVars
<1>6. ASSUME NEW q \in Queues, NEW size \in Nat, NEW d \in Nat, SendMessage(q, size, d)
      PROVE  TypeOK'
  <2>1. OrDefault(d, attributes[q].delay) \in Nat
    BY DEF TypeOK, Attributes, OrDefault
  <2>2. enqueued + 1 \in Msgs /\ enqueued' \in 0..MaxMsgs
    BY <1>6 DEF SendMessage, Msgs
  <2>3. /\ pending' \in [Queues -> SUBSET Msgs]
        /\ visibleAfter' \in [Msgs -> Nat]
    BY <1>6, <2>1, <2>2 DEF SendMessage, TypeOK
  <2> QED BY <1>6, <2>2, <2>3 DEF SendMessage, TypeOK, queueVars
<1>7. ASSUME NEW q \in Queues, NEW h \in Handles, DeleteMessage(q, h) PROVE TypeOK'
  BY <1>7 DEF DeleteMessage, TypeOK, queueVars
<1>8. ASSUME NEW q \in Queues, NEW h \in Handles, ReturnMessage(q, h) PROVE TypeOK'
  BY <1>8 DEF ReturnMessage, TypeOK, queueVars
<1>9. ASSUME NEW q \in Queues, NEW h \in Handles, NEW v \in Nat, ExtendLease(q, h, v)
      PROVE  TypeOK'
  BY <1>9 DEF ExtendLease, TypeOK, queueVars
<1>10. ASSUME NEW c \in Clients, NEW q \in Queues, NEW n \in Nat, NEW v \in Nat,
              NEW w \in Nat, StartReceive(c, q, n, v, w)
       PROVE  TypeOK'
  BY <1>10 DEF StartReceive, TypeOK, queueVars, msgVars, Polls
<1>11. ASSUME NEW c \in Clients, TryReceive(c) PROVE TypeOK'
  <2>1. poll[c] \in Polls
    BY <1>11 DEF TryReceive, TypeOK, Idle
  <2>2. poll' \in [Clients -> Polls \cup {Idle}]
    <3>1. [poll[c] EXCEPT !.slept = TRUE] \in Polls
      BY <2>1 DEF Polls
    <3>2. poll' = [poll EXCEPT ![c] = Idle]
          \/ poll' = [poll EXCEPT ![c] = [poll[c] EXCEPT !.slept = TRUE]]
      BY <1>11 DEF TryReceive
    <3> QED BY <3>1, <3>2 DEF TypeOK
  <2>3. CASE poll[c].queue \notin live
    BY <1>11, <2>2, <2>3 DEF TryReceive, TypeOK, queueVars, msgVars, Deliver
  <2>4. CASE poll[c].queue \in live
    <3>1. Deliver(poll[c].queue, poll[c].max, poll[c].vis)
      BY <1>11, <2>4 DEF TryReceive
    <3>2. poll[c].queue \in Queues /\ poll[c].vis \in Nat
      BY <2>1 DEF Polls
    <3>3. UNCHANGED <<queueVars, visibleAfter, enqueued, acked, dropped>>
      BY <3>1 DEF Deliver
    <3> QED BY <2>2, <3>1, <3>2, <3>3, DeliverType DEF TypeOK, queueVars
  <2> QED BY <2>3, <2>4
<1>12. ASSUME NEW c \in Clients, CancelReceive(c) PROVE TypeOK'
  BY <1>12 DEF CancelReceive, TypeOK, queueVars, msgVars
<1>13. ASSUME Tick PROVE TypeOK'
  <2>1. \A t \in Nat : Less(t) \in Nat
    BY DEF Less
  <2>2. ASSUME NEW c \in Clients PROVE poll'[c] \in Polls \cup {Idle}
    <3>1. poll[c] \in Polls \cup {Idle}
      BY DEF TypeOK
    <3>2. poll[c] \in Polls => [poll[c] EXCEPT !.left = Less(@)] \in Polls
      BY <2>1 DEF Polls
    <3>3. poll[c].active => poll[c] \in Polls
      BY <3>1 DEF Idle
    <3> QED BY <1>13, <3>1, <3>2, <3>3 DEF Tick
  <2>3. poll' \in [Clients -> Polls \cup {Idle}]
    BY <1>13, <2>2 DEF Tick
  <2> QED BY <1>13, <2>1, <2>3 DEF Tick, TypeOK, queueVars
<1>14. ASSUME UNCHANGED vars PROVE TypeOK'
  BY <1>14 DEF vars, queueVars, msgVars, TypeOK
<1> QED
  BY <1>1, <1>2, <1>3, <1>4, <1>5, <1>6, <1>7, <1>8, <1>9, <1>10, <1>11, <1>12, <1>13, <1>14
     DEF AnyCall, ChangeVisibility

\* Every variable keeps its type, whatever the clients call and in any order.
THEOREM TypeCorrect == Spec => []TypeOK
BY InitType, NextType, NextIsACall, PTL DEF Spec

-----------------------------------------------------------------------------
(* No message is lost, duplicated or brought back *)

\* reclaimInflight: a lapsed lease goes away and its message waits again.
LEMMA HeadQueueMoves ==
    ASSUME MessageInv, NEW q \in Queues, HeadQueue(q)
    PROVE  Conservation' /\ HandleAgreement' /\ IssuedKeys' /\ SentOnly'
<1>1. \A r \in Queues : pending'[r] = IF r = q THEN AfterReclaim(q) ELSE pending[r]
  BY DEF HeadQueue, MessageInv, TypeOK
<1>2. \A r \in Queues, h \in Handles :
          inflight'[r][h] = IF r = q /\ h \in Lapsed(q) THEN NoMsg ELSE inflight[r][h]
  BY DEF HeadQueue, MessageInv, TypeOK
<1>3. \A m \in Msgs : m \in AfterReclaim(q) <=>
          m \in pending[q] \/ \E h \in Lapsed(q) : inflight[q][h] = m
  BY DEF AfterReclaim, Reclaimed
<1>4. Lapsed(q) \subseteq Handles
  BY DEF Lapsed
<1>5. ASSUME NEW m \in Msgs PROVE PlacedOnce(m)'
  BY <1>1, <1>2, <1>3, <1>4, NamesAssumption
     DEF MessageInv, Conservation, PlacedOnce, InPending, InFlight
<1>6. ASSUME NEW m \in Msgs PROVE (InPending(m) \/ InFlight(m))' <=> InPending(m) \/ InFlight(m)
  BY <1>1, <1>2, <1>3, <1>4, NamesAssumption DEF InPending, InFlight
<1>7. Conservation'
  BY <1>5, <1>6 DEF Conservation, HeadQueue, MessageInv
<1>8. HandleAgreement'
  <2> SUFFICES ASSUME NEW m \in Msgs, NEW h \in Handles
               PROVE  receiptHandle'[m] = h <=> \E r \in Queues : inflight'[r][h] = m
    BY DEF HandleAgreement
  <2>1. receiptHandle'[m] = IF m \in Reclaimed(q) THEN NoHandle ELSE receiptHandle[m]
    BY DEF HeadQueue
  <2>2. m \in Reclaimed(q) <=> \E g \in Lapsed(q) : inflight[q][g] = m
    BY DEF Reclaimed
  <2>3. PlacedOnce(m)
    BY DEF MessageInv, Conservation
  <2> QED
    BY <1>2, <1>4, <2>1, <2>2, <2>3, NamesAssumption DEF MessageInv, HandleAgreement, PlacedOnce
<1>9. IssuedKeys' /\ SentOnly'
  BY <1>2 DEF HeadQueue, MessageInv, IssuedKeys, SentOnly
<1> QED
  BY <1>7, <1>8, <1>9

\* DeleteQueue: what waits or is leased there is dropped, nothing else moves.
LEMMA DeleteQueueMoves ==
    ASSUME MessageInv, NEW q \in Queues, DeleteQueue(q)
    PROVE  Conservation' /\ HandleAgreement' /\ IssuedKeys' /\ SentOnly'
<1> DEFINE gone == pending[q] \cup Leased(q)
<1>1. \A r \in Queues : pending'[r] = IF r = q THEN {} ELSE pending[r]
  BY DEF DeleteQueue, MessageInv, TypeOK
<1>2. \A r \in Queues, h \in Handles :
          inflight'[r][h] = IF r = q THEN NoMsg ELSE inflight[r][h]
  BY DEF DeleteQueue, MessageInv, TypeOK, NoInflight
<1>3. \A m \in Msgs : m \in gone <=>
          m \in pending[q] \/ \E h \in Handles : inflight[q][h] = m
  BY NamesAssumption DEF Leased
<1>4. dropped' = dropped \cup gone /\ acked' = acked /\ enqueued' = enqueued
  BY DEF DeleteQueue
<1>5. gone \subseteq Msgs
  BY PickedType DEF MessageInv, TypeOK
<1> HIDE DEF gone
<1>6. ASSUME NEW m \in Msgs PROVE PlacedOnce(m)'
  BY <1>1, <1>2, NamesAssumption DEF MessageInv, Conservation, PlacedOnce, InPending, InFlight
<1>7. ASSUME NEW m \in Msgs
      PROVE  (InPending(m) \/ InFlight(m))' <=> (InPending(m) \/ InFlight(m)) /\ m \notin gone
  <2>1. PlacedOnce(m)
    BY DEF MessageInv, Conservation
  <2> QED
    BY <1>1, <1>2, <1>3, <2>1, NamesAssumption DEF PlacedOnce, InPending, InFlight
<1>8. Conservation'
  BY <1>4, <1>6, <1>7 DEF Conservation, MessageInv
<1>9. HandleAgreement'
  <2> SUFFICES ASSUME NEW m \in Msgs, NEW h \in Handles
               PROVE  receiptHandle'[m] = h <=> \E r \in Queues : inflight'[r][h] = m
    BY DEF HandleAgreement
  <2>1. receiptHandle'[m] = IF m \in gone THEN NoHandle ELSE receiptHandle[m]
    BY DEF DeleteQueue, gone
  <2>2. PlacedOnce(m)
    BY DEF MessageInv, Conservation
  <2> QED
    BY <1>2, <1>3, <2>1, <2>2, NamesAssumption
       DEF MessageInv, HandleAgreement, PlacedOnce, InPending, InFlight
<1>10. \A m \in gone : m <= enqueued
  BY <1>3, <1>5 DEF MessageInv, Conservation, InPending, InFlight
<1>11. IssuedKeys' /\ SentOnly'
  BY <1>2, <1>4, <1>10 DEF DeleteQueue, MessageInv, IssuedKeys, SentOnly
<1> QED
  BY <1>8, <1>9, <1>11

\* SendMessage: the next message, which was nowhere, waits in one queue.
LEMMA SendMessageMoves ==
    ASSUME MessageInv, NEW q \in Queues, NEW size, NEW d, SendMessage(q, size, d)
    PROVE  Conservation' /\ HandleAgreement' /\ IssuedKeys' /\ SentOnly'
<1> DEFINE k == enqueued + 1
<1>1. k \in Msgs /\ enqueued' = k /\ enqueued \in Nat
  BY DEF SendMessage, MessageInv, TypeOK
<1>2. \A r \in Queues : pending'[r] = IF r = q THEN pending[r] \cup {k} ELSE pending[r]
  BY DEF SendMessage, MessageInv, TypeOK
<1>3. UNCHANGED <<inflight, receiptHandle, issued, acked, dropped>>
  BY DEF SendMessage
<1>4. \A m \in Msgs : m <= enqueued' <=> m <= enqueued \/ m = k
  BY <1>1 DEF Msgs
<1>5. k \notin acked \cup dropped /\ ~(k <= enqueued)
  BY <1>1 DEF MessageInv, SentOnly
<1>6. ~InPending(k) /\ ~InFlight(k)
  BY <1>1, <1>5 DEF MessageInv, Conservation
<1> HIDE DEF k
<1>7. ASSUME NEW m \in Msgs PROVE PlacedOnce(m)'
  <2>1. CASE m = k
    BY <1>2, <1>3, <1>6, <2>1 DEF PlacedOnce, InPending, InFlight
  <2>2. CASE m # k
    <3>1. PlacedOnce(m)
      BY DEF MessageInv, Conservation
    <3>2. \A r \in Queues : m \in pending'[r] <=> m \in pending[r]
      BY <1>2, <2>2
    <3> QED BY <1>3, <3>1, <3>2 DEF PlacedOnce, InPending, InFlight
  <2> QED BY <2>1, <2>2
<1>8. ASSUME NEW m \in Msgs
      PROVE  (InPending(m) \/ InFlight(m))' <=> InPending(m) \/ InFlight(m) \/ m = k
  BY <1>2, <1>3 DEF InPending, InFlight
<1>9. Conservation'
  BY <1>3, <1>4, <1>5, <1>7, <1>8 DEF Conservation, MessageInv
<1>10. HandleAgreement' /\ IssuedKeys'
  BY <1>3 DEF MessageInv, HandleAgreement, IssuedKeys
<1>11. SentOnly'
  BY <1>3, <1>4 DEF MessageInv, SentOnly, TypeOK
<1> QED
  BY <1>9, <1>10, <1>11

\* DeleteMessage: the leased message goes, with its handle.
LEMMA DeleteMessageMoves ==
    ASSUME MessageInv, NEW q \in Queues, NEW g \in Handles, DeleteMessage(q, g)
    PROVE  Conservation' /\ HandleAgreement' /\ IssuedKeys' /\ SentOnly'
<1> DEFINE k == inflight[q][g]
<1>1. k \in Msgs /\ k # NoMsg
  BY DEF DeleteMessage, MessageInv, TypeOK
<1>2. \A r \in Queues, h \in Handles :
          inflight'[r][h] = IF r = q /\ h = g THEN NoMsg ELSE inflight[r][h]
  BY DEF DeleteMessage, MessageInv, TypeOK
<1>3. \A m \in Msgs : receiptHandle'[m] = IF m = k THEN NoHandle ELSE receiptHandle[m]
  BY DEF DeleteMessage, MessageInv, TypeOK
<1>4. acked' = acked \cup {k} /\ UNCHANGED <<pending, enqueued, issued, dropped>>
  BY DEF DeleteMessage
<1>5. PlacedOnce(k) /\ k <= enqueued
  BY <1>1 DEF MessageInv, Conservation, InFlight
<1>6. ASSUME NEW m \in Msgs PROVE PlacedOnce(m)'
  <2>1. PlacedOnce(m)
    BY DEF MessageInv, Conservation
  <2> QED
    BY <1>2, <1>4, <2>1, NamesAssumption DEF PlacedOnce, InPending, InFlight
<1>7. ASSUME NEW m \in Msgs
      PROVE  (InPending(m) \/ InFlight(m))' <=> (InPending(m) \/ InFlight(m)) /\ m # k
  BY <1>2, <1>4, <1>5, NamesAssumption DEF PlacedOnce, InPending, InFlight
<1>8. Conservation'
  BY <1>4, <1>6, <1>7 DEF Conservation, MessageInv
<1>9. HandleAgreement'
  BY <1>2, <1>3, <1>5, NamesAssumption DEF MessageInv, HandleAgreement, PlacedOnce
<1>10. IssuedKeys' /\ SentOnly'
  BY <1>2, <1>4, <1>5 DEF MessageInv, IssuedKeys, SentOnly
<1> QED
  BY <1>8, <1>9, <1>10

\* ChangeVisibility 0: the leased message waits in its queue again.
LEMMA ReturnMessageMoves ==
    ASSUME MessageInv, NEW q \in Queues, NEW g \in Handles, ReturnMessage(q, g)
    PROVE  Conservation' /\ HandleAgreement' /\ IssuedKeys' /\ SentOnly'
<1>k. PICK k \in Msgs : k = inflight[q][g]
  BY DEF ReturnMessage, MessageInv, TypeOK
<1>1. k # NoMsg
  BY <1>k DEF ReturnMessage
<1>2. \A r \in Queues, h \in Handles :
          inflight'[r][h] = IF r = q /\ h = g THEN NoMsg ELSE inflight[r][h]
  BY DEF ReturnMessage, MessageInv, TypeOK
<1>3. \A m \in Msgs : receiptHandle'[m] = IF m = k THEN NoHandle ELSE receiptHandle[m]
  BY <1>k DEF ReturnMessage, MessageInv, TypeOK
<1>4. \A r \in Queues : pending'[r] = IF r = q THEN pending[r] \cup {k} ELSE pending[r]
  BY <1>k DEF ReturnMessage, MessageInv, TypeOK
<1>5. UNCHANGED <<enqueued, issued, acked, dropped>>
  BY DEF ReturnMessage
<1>6. PlacedOnce(k)
  BY <1>1 DEF MessageInv, Conservation
<1>7. /\ InPending(k)' /\ ~InFlight(k)'
      /\ \A r \in Queues : k \in pending'[r] => r = q
  <2>1. \A r \in Queues : k \notin pending[r]
    BY <1>6, <1>k DEF PlacedOnce, InPending, InFlight
  <2>2. \A r \in Queues, h \in Handles : inflight[r][h] = k => r = q /\ h = g
    BY <1>6, <1>k DEF PlacedOnce
  <2>3. \A r \in Queues, h \in Handles : inflight'[r][h] # k
    BY <1>1, <1>2, <2>2
  <2>4. \A r \in Queues : k \in pending'[r] <=> r = q
    BY <1>4, <2>1
  <2> QED BY <2>3, <2>4 DEF InPending, InFlight
<1>8. ASSUME NEW m \in Msgs, m # k
      PROVE  /\ \A r \in Queues : m \in pending'[r] <=> m \in pending[r]
             /\ \A r \in Queues, h \in Handles : inflight'[r][h] = m <=> inflight[r][h] = m
  BY <1>2, <1>4, <1>8, <1>k, NamesAssumption
<1>p. ASSUME NEW m \in Msgs
      PROVE  PlacedOnce(m)' /\ ((InPending(m) \/ InFlight(m))' <=> InPending(m) \/ InFlight(m))
  <2>1. CASE m = k
    <3>1. InFlight(k)
      BY <1>k DEF InFlight
    <3>2. PlacedOnce(k)'
      BY <1>7 DEF PlacedOnce, InPending, InFlight
    <3> QED BY <1>7, <2>1, <3>1, <3>2
  <2>2. CASE m # k
    <3>1. PlacedOnce(m)
      BY DEF MessageInv, Conservation
    <3> QED BY <1>8, <2>2, <3>1 DEF PlacedOnce, InPending, InFlight
  <2> QED BY <2>1, <2>2
<1>9. Conservation'
  BY <1>5, <1>p DEF Conservation, MessageInv
<1>10. HandleAgreement'
  BY <1>2, <1>3, <1>6, <1>k, NamesAssumption DEF MessageInv, HandleAgreement, PlacedOnce
<1>11. IssuedKeys' /\ SentOnly'
  BY <1>2, <1>5 DEF MessageInv, IssuedKeys, SentOnly
<1> QED
  BY <1>9, <1>10, <1>11

\* tryReceive, seen from each message: S is handed out under the handles f.
Delivered(q, S, f) ==
    /\ \A r \in Queues : pending'[r] = IF r = q THEN AfterReclaim(q) \ S ELSE pending[r]
    /\ \A r \in Queues \ {q}, h \in Handles : inflight'[r][h] = inflight[r][h]
    /\ \A m \in S : inflight'[q][f[m]] = m
    /\ \A h \in Handles : (\A m \in S : f[m] # h) =>
          inflight'[q][h] = IF h \in Lapsed(q) THEN NoMsg ELSE inflight[q][h]
    /\ \A m \in Msgs : receiptHandle'[m] = IF m \in S THEN f[m]
                                          ELSE IF m \in Reclaimed(q) THEN NoHandle
                                          ELSE receiptHandle[m]
    /\ issued' = issued \cup {f[m] : m \in S}
    /\ UNCHANGED <<live, enqueued, acked, dropped>>

LEMMA DeliverEffect ==
    ASSUME TypeOK, NEW q \in Queues, NEW n, NEW v, Deliver(q, n, v)
    PROVE  \E S \in SUBSET AfterReclaim(q) : \E f \in [S -> Handles \ issued] :
              /\ \A m, k \in S : f[m] = f[k] => m = k
              /\ Delivered(q, S, f)
<1>1. PICK S : S = Picked(q, BatchSize(n))
  OBVIOUS
<1>2. PICK f : f = NewHandles(S)
  OBVIOUS
<1>3. S \subseteq AfterReclaim(q)
  BY <1>1, PickedType
<1>4. f \in [S -> Handles \ issued] /\ \A m, k \in S : f[m] = f[k] => m = k
  BY <1>1, <1>2, NewHandlesFresh DEF Deliver
<1>5. \A r \in Queues : pending'[r] = IF r = q THEN AfterReclaim(q) \ S ELSE pending[r]
  BY <1>1 DEF Deliver, TypeOK
<1>6. /\ \A r \in Queues \ {q} : inflight'[r] = inflight[r]
      /\ \A h \in Handles : inflight'[q][h] =
            IF \E m \in S : f[m] = h THEN CHOOSE m \in S : f[m] = h
            ELSE IF h \in Lapsed(q) THEN NoMsg ELSE inflight[q][h]
  BY <1>1, <1>2 DEF Deliver, TypeOK
<1>7. \A m \in S : inflight'[q][f[m]] = m
  <2> TAKE m \in S
  <2>1. f[m] \in Handles
    BY <1>4
  <2>2. (CHOOSE k \in S : f[k] = f[m]) = m
    BY <1>4
  <2> QED BY <1>6, <2>1, <2>2
<1>8. \A m \in Msgs : receiptHandle'[m] = IF m \in S THEN f[m]
                                         ELSE IF m \in Reclaimed(q) THEN NoHandle
                                         ELSE receiptHandle[m]
  BY <1>1, <1>2 DEF Deliver
<1>9. issued' = issued \cup {f[m] : m \in S} /\ UNCHANGED <<live, enqueued, acked, dropped>>
  BY <1>1, <1>2 DEF Deliver, queueVars
<1>10. Delivered(q, S, f)
  BY <1>5, <1>6, <1>7, <1>8, <1>9 DEF Delivered
<1> QED
  BY <1>3, <1>4, <1>10

\* tryReceive: a message handed out was waiting or its lease had lapsed, and
\* its handle is new, so no other lease is touched.
LEMMA DeliverMoves ==
    ASSUME MessageInv, NEW q \in Queues, NEW n, NEW v, Deliver(q, n, v)
    PROVE  Conservation' /\ HandleAgreement' /\ IssuedKeys' /\ SentOnly'
<1>s. PICK S \in SUBSET AfterReclaim(q) : \E f \in [S -> Handles \ issued] :
         (\A m, k \in S : f[m] = f[k] => m = k) /\ Delivered(q, S, f)
  BY DeliverEffect DEF MessageInv
<1>1. PICK f \in [S -> Handles \ issued] :
         (\A m, k \in S : f[m] = f[k] => m = k) /\ Delivered(q, S, f)
  BY <1>s
<1>2. S \subseteq Msgs
  BY PickedType DEF MessageInv
<1>3. Lapsed(q) \subseteq Handles /\ \A h \in Lapsed(q) : inflight[q][h] # NoMsg
  BY DEF Lapsed
<1>4. \A m \in AfterReclaim(q) : m \in pending[q] \/ \E h \in Lapsed(q) : inflight[q][h] = m
  BY DEF AfterReclaim, Reclaimed
<1>5. \A m \in S, r \in Queues : inflight[r][f[m]] = NoMsg
  BY <1>1 DEF MessageInv, IssuedKeys
<1>6. ASSUME NEW m \in Msgs, NEW r \in Queues, NEW h \in Handles, m \notin S
      PROVE  inflight'[r][h] = m <=> inflight[r][h] = m /\ ~(r = q /\ h \in Lapsed(q))
  <2>1. CASE r # q
    BY <1>1, <2>1 DEF Delivered
  <2>2. CASE r = q /\ \E k \in S : f[k] = h
    BY <1>1, <1>5, <1>6, <2>2, NamesAssumption DEF Delivered
  <2>3. CASE r = q /\ ~\E k \in S : f[k] = h
    BY <1>1, <2>3, NamesAssumption DEF Delivered
  <2> QED BY <2>1, <2>2, <2>3
<1>7. ASSUME NEW m \in S, NEW r \in Queues, NEW h \in Handles
      PROVE  inflight'[r][h] = m <=> r = q /\ h = f[m]
  <2>1. m \in Msgs /\ PlacedOnce(m)
    BY <1>2 DEF MessageInv, Conservation
  <2>2. inflight[r][h] = m => r = q /\ h \in Lapsed(q)
    BY <1>3, <1>4, <2>1 DEF PlacedOnce, InPending, InFlight
  <2>3. CASE r # q
    BY <1>1, <2>2, <2>3 DEF Delivered
  <2>4. CASE r = q /\ \E k \in S : f[k] = h
    BY <1>1, <2>4 DEF Delivered
  <2>5. CASE r = q /\ ~\E k \in S : f[k] = h
    BY <1>1, <2>1, <2>2, <2>5, NamesAssumption DEF Delivered
  <2> QED BY <2>3, <2>4, <2>5
<1>8. ASSUME NEW m \in S, NEW r \in Queues PROVE m \notin pending'[r]
  <2>1. m \in Msgs /\ PlacedOnce(m)
    BY <1>2 DEF MessageInv, Conservation
  <2>2. m \in pending[r] => r = q
    BY <1>3, <1>4, <2>1 DEF PlacedOnce, InPending, InFlight
  <2> QED BY <1>1, <2>2 DEF Delivered
<1>u. ASSUME NEW m \in Msgs, NEW r \in Queues, m \notin S
      PROVE  m \in pending'[r] <=> m \in pending[r] \/ (r = q /\ m \in Reclaimed(q))
  BY <1>1, <1>u DEF Delivered, AfterReclaim
<1>v. \A m \in Msgs : m \in Reclaimed(q) <=> \E h \in Lapsed(q) : inflight[q][h] = m
  BY DEF Reclaimed
<1>9. ASSUME NEW m \in Msgs
      PROVE  PlacedOnce(m)' /\ ((InPending(m) \/ InFlight(m))' <=> InPending(m) \/ InFlight(m))
  <2>1. CASE m \in S
    <3>1. ~InPending(m)'
      <4>1. \A r \in Queues : m \notin pending'[r]
        BY <1>8, <2>1
      <4> QED BY <4>1 DEF InPending
    <3>2. InFlight(m)'
      BY <1>1, <1>7, <2>1 DEF InFlight
    <3>3. PlacedOnce(m)'
      BY <1>7, <1>8, <2>1, <3>1 DEF PlacedOnce
    <3>4. InPending(m) \/ InFlight(m)
      BY <1>3, <1>4, <2>1 DEF InPending, InFlight
    <3> QED BY <3>1, <3>2, <3>3, <3>4
  <2>2. CASE m \notin S
    <3>1. PlacedOnce(m)
      BY DEF MessageInv, Conservation
    <3>2. \A r \in Queues, h \in Handles : inflight'[r][h] = m <=>
             inflight[r][h] = m /\ ~(r = q /\ h \in Lapsed(q))
      BY <1>6, <2>2
    <3>3. \A r \in Queues : m \in pending'[r] <=>
             m \in pending[r] \/ (r = q /\ m \in Reclaimed(q))
      BY <1>u, <2>2
    <3>4. CASE m \in Reclaimed(q)
      <4>1. PICK g \in Handles : g \in Lapsed(q) /\ inflight[q][g] = m
        BY <1>3, <1>v, <3>4
      <4>2. \A r \in Queues, h \in Handles : inflight'[r][h] # m
        BY <3>1, <3>2, <4>1 DEF PlacedOnce
      <4>3. \A r \in Queues : m \in pending'[r] <=> r = q
        BY <3>1, <3>3, <3>4, <4>1 DEF PlacedOnce, InPending, InFlight
      <4>4. InFlight(m)
        BY <4>1 DEF InFlight
      <4> QED BY <4>2, <4>3, <4>4 DEF PlacedOnce, InPending, InFlight
    <3>5. CASE m \notin Reclaimed(q)
      <4>1. \A r \in Queues, h \in Handles : inflight'[r][h] = m <=> inflight[r][h] = m
        BY <1>3, <1>v, <3>2, <3>5
      <4>2. \A r \in Queues : m \in pending'[r] <=> m \in pending[r]
        BY <3>3, <3>5
      <4> QED BY <3>1, <4>1, <4>2 DEF PlacedOnce, InPending, InFlight
    <3> QED BY <3>4, <3>5
  <2> QED BY <2>1, <2>2
<1>10. Conservation'
  BY <1>1, <1>9 DEF Delivered, Conservation, MessageInv
<1>11. HandleAgreement'
  <2> SUFFICES ASSUME NEW m \in Msgs, NEW h \in Handles
               PROVE  receiptHandle'[m] = h <=> \E r \in Queues : inflight'[r][h] = m
    BY DEF HandleAgreement
  <2>1. CASE m \in S
    BY <1>1, <1>7, <2>1 DEF Delivered
  <2>2. CASE m \notin S
    <3>1. receiptHandle'[m] = IF m \in Reclaimed(q) THEN NoHandle ELSE receiptHandle[m]
      BY <1>1, <2>2 DEF Delivered
    <3>2. m \in Reclaimed(q) <=> \E g \in Lapsed(q) : inflight[q][g] = m
      BY DEF Reclaimed
    <3>3. PlacedOnce(m)
      BY DEF MessageInv, Conservation
    <3> QED
      BY <1>3, <1>6, <2>2, <3>1, <3>2, <3>3, NamesAssumption
         DEF MessageInv, HandleAgreement, PlacedOnce
  <2> QED BY <2>1, <2>2
<1>12. IssuedKeys'
  <2> SUFFICES ASSUME NEW r \in Queues, NEW h \in Handles, inflight'[r][h] # NoMsg
               PROVE  h \in issued'
    BY DEF IssuedKeys
  <2> QED BY <1>1 DEF Delivered, MessageInv, IssuedKeys
<1>13. SentOnly'
  BY <1>1 DEF Delivered, MessageInv, SentOnly
<1> QED
  BY <1>10, <1>11, <1>12, <1>13

LEMMA NextMessageInv == MessageInv /\ [AnyCall]_vars => MessageInv'
<1> SUFFICES ASSUME MessageInv, [AnyCall]_vars PROVE MessageInv'
  OBVIOUS
<1> DEFINE Rest == Conservation /\ HandleAgreement /\ IssuedKeys /\ SentOnly
<1>1. TypeOK'
  BY NextType DEF MessageInv
<1>2. ASSUME UNCHANGED <<pending, inflight, receiptHandle, enqueued, issued, acked, dropped>>
      PROVE  Rest'
  BY <1>2 DEF MessageInv, Conservation, PlacedOnce, InPending, InFlight, HandleAgreement,
              IssuedKeys, SentOnly
<1>3. ASSUME NEW q \in Queues, NEW a, CreateQueue(q, a) \/ SetQueueAttributes(q, a)
      PROVE  Rest'
  BY <1>2, <1>3 DEF CreateQueue, SetQueueAttributes, msgVars
<1>4. ASSUME NEW q \in Queues, NEW T, TagQueue(q, T) \/ UntagQueue(q, T) PROVE Rest'
  BY <1>2, <1>4 DEF TagQueue, UntagQueue, msgVars
<1>5. ASSUME NEW q \in Queues, NEW h \in Handles, NEW v, ChangeVisibility(q, h, v) PROVE Rest'
  <2>1. CASE ReturnMessage(q, h)
    BY <2>1, ReturnMessageMoves
  <2>2. CASE ExtendLease(q, h, v)
    BY <1>2, <2>2 DEF ExtendLease
  <2> QED BY <1>5, <2>1, <2>2 DEF ChangeVisibility
<1>6. ASSUME NEW c \in Clients, NEW q, NEW n, NEW v, NEW w, StartReceive(c, q, n, v, w)
      PROVE  Rest'
  BY <1>2, <1>6 DEF StartReceive, msgVars
<1>7. ASSUME NEW c \in Clients, TryReceive(c) PROVE Rest'
  <2>1. CASE poll[c].queue \in live
    <3>1. Deliver(poll[c].queue, poll[c].max, poll[c].vis)
      BY <1>7, <2>1 DEF TryReceive
    <3>2. poll[c].queue \in Queues
      BY <2>1 DEF MessageInv, TypeOK
    <3> QED BY <3>1, <3>2, DeliverMoves
  <2>2. CASE poll[c].queue \notin live
    BY <1>2, <1>7, <2>2 DEF TryReceive, msgVars
  <2> QED BY <2>1, <2>2
<1>8. ASSUME NEW c \in Clients, CancelReceive(c) PROVE Rest'
  BY <1>2, <1>8 DEF CancelReceive, msgVars
<1>9. ASSUME Tick PROVE Rest'
  BY <1>2, <1>9 DEF Tick
<1>10. ASSUME UNCHANGED vars PROVE Rest'
  BY <1>2, <1>10 DEF vars, msgVars
<1>11. Rest'
  <2> HIDE DEF Rest
  <2>1. ASSUME NEW q \in Queues, DeleteQueue(q) PROVE Rest'
    BY <2>1, DeleteQueueMoves DEF Rest
  <2>2. ASSUME NEW q \in Queues, HeadQueue(q) PROVE Rest'
    BY <2>2, HeadQueueMoves DEF Rest
  <2>3. ASSUME NEW q \in Queues, NEW z, NEW d, SendMessage(q, z, d) PROVE Rest'
    BY <2>3, SendMessageMoves DEF Rest
  <2>4. ASSUME NEW q \in Queues, NEW h \in Handles, DeleteMessage(q, h) PROVE Rest'
    BY <2>4, DeleteMessageMoves DEF Rest
  <2> QED
    BY <1>3, <1>4, <1>5, <1>6, <1>7, <1>8, <1>9, <1>10, <2>1, <2>2, <2>3, <2>4 DEF AnyCall
<1> QED
  BY <1>1, <1>11 DEF MessageInv

LEMMA InitMessageInv == Init => MessageInv
<1> SUFFICES ASSUME Init PROVE MessageInv
  OBVIOUS
<1>1. TypeOK
  BY InitType
<1>2. \A q \in Queues : pending[q] = {}
  BY DEF Init
<1>3. \A q \in Queues, h \in Handles : inflight[q][h] = NoMsg
  BY DEF Init, NoInflight
<1>4. \A m \in Msgs : receiptHandle[m] = NoHandle /\ ~(m <= enqueued)
  BY BoundsAssumption DEF Init, Msgs
<1>5. Conservation /\ HandleAgreement /\ IssuedKeys
  BY <1>2, <1>3, <1>4, NamesAssumption
     DEF Conservation, PlacedOnce, InPending, InFlight, HandleAgreement, IssuedKeys
<1>6. SentOnly
  BY DEF Init, SentOnly
<1> QED
  BY <1>1, <1>5, <1>6 DEF MessageInv

\* The inductive invariant holds throughout: where every message is, which
\* handle names it, and that both only involve handles of newID and messages
\* that were sent.
THEOREM MessagesInvariant == Spec => []MessageInv
BY InitMessageInv, NextMessageInv, NextIsACall, PTL DEF Spec

\* No message is lost, duplicated or brought back, for any interleaving of
\* sends, receives, acknowledgements, changes of visibility, lapsing leases
\* and deletions of queues.
THEOREM MessagesConserved == Spec => []Conservation
<1>1. MessageInv => Conservation
  BY DEF MessageInv
<1> QED
  BY <1>1, MessagesInvariant, PTL

\* `inflight' and the messages' receipt handles never disagree.
THEOREM HandlesAgree == Spec => []HandleAgreement
<1>1. MessageInv => HandleAgreement
  BY DEF MessageInv
<1> QED
  BY <1>1, MessagesInvariant, PTL

-----------------------------------------------------------------------------
(* What a step may never do to a lease *)

\* The step part of LeaseExclusive for message m.
LeaseKept(m) ==
    receiptHandle[m] # NoHandle /\ visibleAt[m] > 0 =>
       \/ receiptHandle'[m] = receiptHandle[m]
       \/ /\ receiptHandle'[m] = NoHandle
          /\ m \in acked' \cup dropped' \/ InPending(m)'

\* A message in force is neither waiting nor among those taken back.
LEMMA LeasedNotReclaimed ==
    ASSUME MessageInv, NEW q \in Queues, NEW m \in Msgs,
           receiptHandle[m] # NoHandle, visibleAt[m] > 0
    PROVE  m \notin Reclaimed(q) /\ m \notin AfterReclaim(q)
<1>1. receiptHandle[m] \in Handles
  BY DEF MessageInv, TypeOK
<1>2. InFlight(m)
  BY <1>1 DEF MessageInv, HandleAgreement, InFlight
<1>3. \A r \in Queues : m \notin pending[r]
  BY <1>2 DEF MessageInv, Conservation, PlacedOnce, InPending
<1>4. m \notin Reclaimed(q)
  BY DEF Reclaimed, Lapsed
<1> QED
  BY <1>3, <1>4 DEF AfterReclaim

LEMMA NextLease ==
    ASSUME MessageInv, [AnyCall]_vars, NEW m \in Msgs
    PROVE  LeaseKept(m)
<1> SUFFICES ASSUME receiptHandle[m] # NoHandle, visibleAt[m] > 0 PROVE LeaseKept(m)
  BY DEF LeaseKept
<1>1. ASSUME UNCHANGED receiptHandle PROVE LeaseKept(m)
  BY <1>1 DEF LeaseKept
<1>2. ASSUME NEW q \in Queues, DeleteQueue(q) PROVE LeaseKept(m)
  BY <1>2 DEF DeleteQueue, LeaseKept
<1>3. ASSUME NEW q \in Queues, HeadQueue(q) PROVE LeaseKept(m)
  BY <1>3, LeasedNotReclaimed DEF HeadQueue, LeaseKept
<1>4. ASSUME NEW q \in Queues, NEW h \in Handles, DeleteMessage(q, h) PROVE LeaseKept(m)
  BY <1>4 DEF DeleteMessage, LeaseKept, MessageInv, TypeOK
<1>5. ASSUME NEW q \in Queues, NEW h \in Handles, ReturnMessage(q, h) PROVE LeaseKept(m)
  <2>1. CASE m = inflight[q][h]
    BY <1>5, <2>1 DEF ReturnMessage, LeaseKept, InPending, MessageInv, TypeOK
  <2>2. CASE m # inflight[q][h]
    BY <1>5, <2>2 DEF ReturnMessage, LeaseKept, MessageInv, TypeOK
  <2> QED BY <2>1, <2>2
<1>6. ASSUME NEW c \in Clients, TryReceive(c) PROVE LeaseKept(m)
  <2>1. CASE poll[c].queue \in live
    <3> DEFINE q == poll[c].queue
    <3>1. q \in Queues /\ Deliver(q, poll[c].max, poll[c].vis)
      BY <1>6, <2>1 DEF TryReceive, MessageInv, TypeOK
    <3> HIDE DEF q
    <3>2. PICK S \in SUBSET AfterReclaim(q) : \E f \in [S -> Handles \ issued] : Delivered(q, S, f)
      BY <3>1, DeliverEffect DEF MessageInv
    <3>3. receiptHandle'[m] = receiptHandle[m]
      BY <3>1, <3>2, LeasedNotReclaimed DEF Delivered
    <3> QED BY <3>3 DEF LeaseKept
  <2>2. CASE poll[c].queue \notin live
    BY <1>1, <1>6, <2>2 DEF TryReceive, msgVars
  <2> QED BY <2>1, <2>2
<1>7. ASSUME NEW q \in Queues, NEW h \in Handles, NEW v, ChangeVisibility(q, h, v)
      PROVE  LeaseKept(m)
  BY <1>1, <1>5, <1>7 DEF ChangeVisibility, ExtendLease
<1>8. ASSUME NEW q \in Queues, NEW a, CreateQueue(q, a) \/ SetQueueAttributes(q, a)
             \/ TagQueue(q, a) \/ UntagQueue(q, a)
      PROVE  LeaseKept(m)
  BY <1>1, <1>8 DEF CreateQueue, SetQueueAttributes, TagQueue, UntagQueue, msgVars
<1>9. ASSUME NEW q \in Queues, NEW z, NEW d, SendMessage(q, z, d) PROVE LeaseKept(m)
  BY <1>1, <1>9 DEF SendMessage
<1>10. ASSUME NEW c \in Clients, NEW q, NEW n, NEW v, NEW w,
              StartReceive(c, q, n, v, w) \/ CancelReceive(c)
       PROVE  LeaseKept(m)
  BY <1>1, <1>10 DEF StartReceive, CancelReceive, msgVars
<1>11. ASSUME Tick \/ UNCHANGED vars PROVE LeaseKept(m)
  BY <1>1, <1>11 DEF Tick, vars, msgVars
<1> QED
  BY <1>2, <1>3, <1>4, <1>6, <1>7, <1>8, <1>9, <1>10, <1>11 DEF AnyCall

\* A message whose lease is in force is given to nobody else.
THEOREM LeasesExclusive == Spec => LeaseExclusive
<1>1. MessageInv /\ [AnyCall]_vars => [\A m \in Msgs : LeaseKept(m)]_vars
  BY NextLease
<1>2. [\A m \in Msgs : LeaseKept(m)]_vars <=>
      [\A m \in Msgs :
          receiptHandle[m] # NoHandle /\ visibleAt[m] > 0 =>
             \/ receiptHandle'[m] = receiptHandle[m]
             \/ /\ receiptHandle'[m] = NoHandle
                /\ m \in acked' \cup dropped' \/ InPending(m)']_vars
  BY DEF LeaseKept
<1> QED
  BY <1>1, <1>2, MessagesInvariant, NextIsACall, PTL DEF Spec, LeaseExclusive

\* A handle that was given out keeps its delivery or loses it.
HandleKept(q, h) == inflight'[q][h] \in {inflight[q][h], NoMsg}

LEMMA NextHandle ==
    ASSUME MessageInv, [AnyCall]_vars, NEW p \in Queues, NEW g \in Handles, g \in issued
    PROVE  HandleKept(p, g)
<1>1. ASSUME UNCHANGED inflight PROVE HandleKept(p, g)
  BY <1>1 DEF HandleKept
<1>2. ASSUME NEW q \in Queues, DeleteQueue(q) PROVE HandleKept(p, g)
  BY <1>2 DEF DeleteQueue, HandleKept, NoInflight, MessageInv, TypeOK
<1>3. ASSUME NEW q \in Queues, HeadQueue(q) PROVE HandleKept(p, g)
  BY <1>3 DEF HeadQueue, HandleKept, MessageInv, TypeOK
<1>4. ASSUME NEW q \in Queues, NEW h \in Handles, DeleteMessage(q, h) PROVE HandleKept(p, g)
  BY <1>4 DEF DeleteMessage, HandleKept, MessageInv, TypeOK
<1>5. ASSUME NEW q \in Queues, NEW h \in Handles, ReturnMessage(q, h) PROVE HandleKept(p, g)
  BY <1>5 DEF ReturnMessage, HandleKept, MessageInv, TypeOK
<1>6. ASSUME NEW c \in Clients, TryReceive(c) PROVE HandleKept(p, g)
  <2>1. CASE poll[c].queue \in live
    <3> DEFINE q == poll[c].queue
    <3>1. q \in Queues /\ Deliver(q, poll[c].max, poll[c].vis)
      BY <1>6, <2>1 DEF TryReceive, MessageInv, TypeOK
    <3> HIDE DEF q
    <3>2. PICK S \in SUBSET AfterReclaim(q) : \E f \in [S -> Handles \ issued] : Delivered(q, S, f)
      BY <3>1, DeliverEffect DEF MessageInv
    <3>3. PICK f \in [S -> Handles \ issued] : Delivered(q, S, f)
      BY <3>2
    <3>4. \A m \in S : f[m] # g
      BY <3>3
    <3> QED BY <3>1, <3>3, <3>4 DEF Delivered, HandleKept
  <2>2. CASE poll[c].queue \notin live
    BY <1>1, <1>6, <2>2 DEF TryReceive, msgVars
  <2> QED BY <2>1, <2>2
<1>7. ASSUME NEW q \in Queues, NEW h \in Handles, NEW v, ChangeVisibility(q, h, v)
      PROVE  HandleKept(p, g)
  BY <1>1, <1>5, <1>7 DEF ChangeVisibility, ExtendLease
<1>8. ASSUME NEW q \in Queues, NEW a, CreateQueue(q, a) \/ SetQueueAttributes(q, a)
             \/ TagQueue(q, a) \/ UntagQueue(q, a)
      PROVE  HandleKept(p, g)
  BY <1>1, <1>8 DEF CreateQueue, SetQueueAttributes, TagQueue, UntagQueue, msgVars
<1>9. ASSUME NEW q \in Queues, NEW z, NEW d, SendMessage(q, z, d) PROVE HandleKept(p, g)
  BY <1>1, <1>9 DEF SendMessage
<1>10. ASSUME NEW c \in Clients, NEW q, NEW n, NEW v, NEW w,
              StartReceive(c, q, n, v, w) \/ CancelReceive(c)
       PROVE  HandleKept(p, g)
  BY <1>1, <1>10 DEF StartReceive, CancelReceive, msgVars
<1>11. ASSUME Tick \/ UNCHANGED vars PROVE HandleKept(p, g)
  BY <1>1, <1>11 DEF Tick, vars, msgVars
<1> QED
  BY <1>2, <1>3, <1>4, <1>6, <1>7, <1>8, <1>9, <1>10, <1>11 DEF AnyCall

\* No handle is forgotten.
LEMMA IssuedGrows ==
    ASSUME [AnyCall]_vars
    PROVE  issued \subseteq issued'
<1>1. ASSUME NEW c \in Clients, TryReceive(c) PROVE issued \subseteq issued'
  BY <1>1 DEF TryReceive, Deliver, msgVars
<1>2. CASE Tick \/ UNCHANGED vars
  BY <1>2 DEF Tick, vars, msgVars
<1>3. ASSUME NEW q \in Queues, NEW h, NEW v, DeleteMessage(q, h) \/ ChangeVisibility(q, h, v)
      PROVE  issued \subseteq issued'
  BY <1>3 DEF DeleteMessage, ChangeVisibility, ReturnMessage, ExtendLease
<1>4. ASSUME NEW q \in Queues, NEW a, NEW b, \/ DeleteQueue(q) \/ HeadQueue(q)
                                          \/ CreateQueue(q, a) \/ SetQueueAttributes(q, a)
                                          \/ TagQueue(q, a) \/ UntagQueue(q, a) \/ SendMessage(q, a, b)
      PROVE  issued \subseteq issued'
  BY <1>4 DEF DeleteQueue, HeadQueue, CreateQueue, SetQueueAttributes, TagQueue, UntagQueue, SendMessage, msgVars
<1>5. ASSUME NEW c \in Clients, NEW q, NEW n, NEW v, NEW w, StartReceive(c, q, n, v, w) \/ CancelReceive(c)
      PROVE  issued \subseteq issued'
  BY <1>5 DEF StartReceive, CancelReceive, msgVars
<1> QED
  BY <1>1, <1>2, <1>3, <1>4, <1>5 DEF AnyCall

\* A receipt handle names one delivery for ever.
THEOREM HandlesNameOneDelivery == Spec => HandleNamesOneDelivery
<1>1. MessageInv /\ [AnyCall]_vars => [\A h \in issued : \A q \in Queues :
                                       inflight'[q][h] \in {inflight[q][h], NoMsg}]_vars
  <2>1. MessageInv => issued \subseteq Handles
    BY DEF MessageInv, TypeOK
  <2> QED BY <2>1, NextHandle DEF HandleKept
<1> QED
  BY <1>1, MessagesInvariant, NextIsACall, PTL DEF Spec, HandleNamesOneDelivery

-----------------------------------------------------------------------------
(* The backend implements the service *)

Owed(q) == pending[q] \cup Leased(q)

LEMMA InitImplements == Init => Service!Init
<1> SUFFICES ASSUME Init PROVE Service!Init
  OBVIOUS
<1>1. 1..enqueued = {}
  BY DEF Init
<1>2. \A q \in Queues : pending[q] \cup Leased(q) = {}
  BY DEF Init, Leased, NoInflight
<1> QED
  BY <1>1, <1>2 DEF Init, Service!Init

\* The messages a queue owes, one by one.
LEMMA OwedMembers ==
    ASSUME NEW q \in Queues, NEW m \in Msgs
    PROVE  m \in Owed(q) <=> m \in pending[q] \/ \E h \in Handles : inflight[q][h] = m
BY NamesAssumption DEF Owed, Leased

LEMMA OwedNext ==
    ASSUME NEW q \in Queues, NEW m \in Msgs
    PROVE  m \in Owed(q)' <=> m \in pending'[q] \/ \E h \in Handles : inflight'[q][h] = m
BY NamesAssumption DEF Owed, Leased

LEMMA OwedType ==
    ASSUME TypeOK, NEW q \in Queues
    PROVE  Owed(q) \subseteq Msgs
BY PickedType DEF Owed, TypeOK

LEMMA OwedTypeNext ==
    ASSUME TypeOK', NEW q \in Queues
    PROVE  Owed(q)' \subseteq Msgs
BY DEF Owed, Leased, TypeOK

\* Reclaiming ends the leases of E; delivering hands S out.  The messages a
\* queue owes stay the same.
LEMMA DeliverImplements ==
    ASSUME MessageInv, MessageInv', NEW q \in live, NEW n, NEW v, Deliver(q, n, v)
    PROVE  Service!Next
<1>q. q \in Queues
  BY DEF MessageInv, TypeOK
<1>s. PICK S \in SUBSET AfterReclaim(q) : \E f \in [S -> Handles \ issued] :
         (\A m, k \in S : f[m] = f[k] => m = k) /\ Delivered(q, S, f)
  BY <1>q, DeliverEffect DEF MessageInv
<1>1. PICK f \in [S -> Handles \ issued] :
         (\A m, k \in S : f[m] = f[k] => m = k) /\ Delivered(q, S, f)
  BY <1>s
<1>2. PICK E : E = Reclaimed(q)
  OBVIOUS
<1>3. S \subseteq Msgs /\ E \subseteq Msgs /\ S \subseteq pending[q] \cup E
  BY <1>q, <1>2, PickedType DEF MessageInv, AfterReclaim
<1>4. E \subseteq Owed(q)
  BY <1>2, <1>3 DEF Reclaimed, Lapsed, Owed, Leased
<1>5. \A m \in S : m \in Owed(q) /\ (receiptHandle[m] = NoHandle \/ m \in E)
  <2> TAKE m \in S
  <2>1. CASE m \in E
    BY <1>4, <2>1
  <2>2. CASE m \in pending[q]
    <3>1. ~InFlight(m)
      BY <1>q, <1>3, <2>2 DEF MessageInv, Conservation, PlacedOnce, InPending
    <3>2. receiptHandle[m] \notin Handles
      BY <1>3, <3>1 DEF MessageInv, HandleAgreement, InFlight
    <3> QED BY <1>3, <2>2, <3>2 DEF MessageInv, TypeOK, Owed
  <2> QED BY <1>3, <2>1, <2>2
<1>6. \A r \in Queues : Owed(r)' = Owed(r)
  <2> SUFFICES ASSUME NEW r \in Queues, NEW m \in Msgs PROVE m \in Owed(r)' <=> m \in Owed(r)
    BY OwedType, OwedTypeNext DEF MessageInv
  <2>1. CASE r # q
    BY <1>1, <2>1, OwedMembers, OwedNext DEF Delivered
  <2>2. CASE r = q /\ m \in S
    <3>1. inflight'[q][f[m]] = m /\ f[m] \in Handles
      BY <1>1, <2>2 DEF Delivered
    <3> QED BY <1>q, <1>5, <2>2, <3>1, OwedNext
  <2>3. CASE r = q /\ m \notin S
    <3>1. m \in pending'[q] <=> m \in pending[q] \/ m \in E
      BY <1>1, <1>2, <1>q, <2>3 DEF Delivered, AfterReclaim
    <3>2. m \in E <=> \E h \in Handles : h \in Lapsed(q) /\ inflight[q][h] = m
      BY <1>2 DEF Reclaimed, Lapsed
    <3>3. \A h \in Handles : inflight'[q][h] = m <=> inflight[q][h] = m /\ h \notin Lapsed(q)
      <4> TAKE h \in Handles
      <4>1. CASE \E k \in S : f[k] = h
        <5>1. PICK k \in S : f[k] = h
          BY <4>1
        <5>2. h \notin issued /\ inflight'[q][h] = k
          BY <1>1, <5>1 DEF Delivered
        <5>3. inflight[q][h] = NoMsg
          BY <1>q, <5>2 DEF MessageInv, IssuedKeys
        <5> QED BY <2>3, <5>2, <5>3, NamesAssumption
      <4>2. CASE \A k \in S : f[k] # h
        BY <1>1, <4>2, NamesAssumption DEF Delivered
      <4> QED BY <4>1, <4>2
    <3> QED BY <1>q, <2>3, <3>1, <3>2, <3>3, OwedMembers, OwedNext
  <2> QED BY <2>1, <2>2, <2>3
<1>7. receiptHandle' = [m \in Msgs |-> IF m \in S THEN f[m]
                                      ELSE IF m \in E THEN NoHandle ELSE receiptHandle[m]]
  BY <1>1, <1>2 DEF Delivered, MessageInv, TypeOK
<1>8. Service!Deliver(q, E, S, f)
  <2>1. [r \in Queues |-> Owed(r)][q] = Owed(q)
    BY <1>q
  <2>2. /\ q \in live
        /\ E \subseteq [r \in Queues |-> Owed(r)][q]
        /\ S \subseteq {m \in [r \in Queues |-> Owed(r)][q] : receiptHandle[m] = NoHandle \/ m \in E}
        /\ f \in [S -> Handles \ issued]
        /\ \A m, k \in S : f[m] = f[k] => m = k
    BY <1>1, <1>4, <1>5, <2>1
  <2>3. issued' = issued \cup {f[m] : m \in S}
    BY <1>1 DEF Delivered
  <2>4. [r \in Queues |-> Owed(r)]' = [r \in Queues |-> Owed(r)]
    BY <1>6
  <2>5. live' = live /\ (1..enqueued)' = 1..enqueued
    BY <1>1 DEF Delivered
  <2> QED BY <1>7, <2>2, <2>3, <2>4, <2>5 DEF Service!Deliver, Owed
<1>9. f \in [S -> Handles]
  BY <1>1
<1> QED
  BY <1>q, <1>3, <1>8, <1>9 DEF Service!Next

\* The leases of the messages of E end, and nothing is handed out.
LEMMA ReleaseImplements ==
    ASSUME NEW q \in Queues, q \in live, NEW E \in SUBSET Msgs, E \subseteq Owed(q),
           receiptHandle' = [m \in Msgs |-> IF m \in E THEN NoHandle ELSE receiptHandle[m]],
           \A r \in Queues : Owed(r)' = Owed(r),
           UNCHANGED <<live, enqueued, issued>>
    PROVE  Service!Next
<1>1. PICK S \in SUBSET Msgs : S = {}
  OBVIOUS
<1>2. PICK f : f = [m \in S |-> m]
  OBVIOUS
<1>3. f \in [S -> Handles \ issued] /\ f \in [S -> Handles]
  BY <1>1, <1>2
<1>4. E \subseteq [r \in Queues |-> Owed(r)][q]
  OBVIOUS
<1>5. [r \in Queues |-> Owed(r)]' = [r \in Queues |-> Owed(r)]
  OBVIOUS
<1>6. issued' = issued \cup {f[m] : m \in S}
  BY <1>1
<1>7. receiptHandle' = [m \in Msgs |-> IF m \in S THEN f[m]
                                      ELSE IF m \in E THEN NoHandle ELSE receiptHandle[m]]
  BY <1>1
<1>8. (1..enqueued)' = 1..enqueued /\ live' = live
  OBVIOUS
<1>9. S \subseteq {m \in [r \in Queues |-> Owed(r)][q] : receiptHandle[m] = NoHandle \/ m \in E}
  BY <1>1
<1>10. \A m, k \in S : f[m] = f[k] => m = k
  BY <1>1
<1>11. Service!Deliver(q, E, S, f)
  BY <1>3, <1>4, <1>5, <1>6, <1>7, <1>8, <1>9, <1>10 DEF Service!Deliver, Owed
<1> QED
  BY <1>1, <1>3, <1>11 DEF Service!Next

LEMMA HeadQueueImplements ==
    ASSUME MessageInv, MessageInv', NEW q \in Queues, HeadQueue(q)
    PROVE  Service!Next
<1>1. PICK E : E = Reclaimed(q)
  OBVIOUS
<1>2. E \in SUBSET Msgs /\ E \subseteq Owed(q)
  BY <1>1, PickedType DEF MessageInv, Reclaimed, Lapsed, Owed, Leased
<1>3. \A r \in Queues : Owed(r)' = Owed(r)
  <2> SUFFICES ASSUME NEW r \in Queues, NEW m \in Msgs PROVE m \in Owed(r)' <=> m \in Owed(r)
    BY OwedType, OwedTypeNext DEF MessageInv
  <2>1. m \in pending'[r] <=> m \in pending[r] \/ (r = q /\ m \in E)
    BY <1>1 DEF HeadQueue, MessageInv, TypeOK, AfterReclaim
  <2>2. \A h \in Handles : inflight'[r][h] =
            IF r = q /\ h \in Lapsed(q) THEN NoMsg ELSE inflight[r][h]
    BY DEF HeadQueue, MessageInv, TypeOK
  <2>3. m \in E <=> \E h \in Handles : h \in Lapsed(q) /\ inflight[q][h] = m
    BY <1>1 DEF Reclaimed, Lapsed
  <2> QED BY <2>1, <2>2, <2>3, OwedMembers, OwedNext, NamesAssumption
<1> QED
  BY <1>1, <1>2, <1>3, ReleaseImplements DEF HeadQueue, queueVars

LEMMA ReturnMessageImplements ==
    ASSUME MessageInv, MessageInv', NEW q \in Queues, NEW g \in Handles, ReturnMessage(q, g)
    PROVE  Service!Next
<1>1. PICK k \in Msgs : k = inflight[q][g]
  BY DEF ReturnMessage, MessageInv, TypeOK
<1>2. k \in Owed(q)
  BY <1>1, OwedMembers
<1>3. \A r \in Queues : Owed(r)' = Owed(r)
  <2> SUFFICES ASSUME NEW r \in Queues, NEW m \in Msgs PROVE m \in Owed(r)' <=> m \in Owed(r)
    BY OwedType, OwedTypeNext DEF MessageInv
  <2>1. m \in pending'[r] <=> m \in pending[r] \/ (r = q /\ m = k)
    BY <1>1 DEF ReturnMessage, MessageInv, TypeOK
  <2>2. \A h \in Handles : inflight'[r][h] = IF r = q /\ h = g THEN NoMsg ELSE inflight[r][h]
    BY DEF ReturnMessage, MessageInv, TypeOK
  <2> QED BY <1>1, <2>1, <2>2, OwedMembers, OwedNext, NamesAssumption
<1>4. PICK E \in SUBSET Msgs : E = {k}
  OBVIOUS
<1>5. receiptHandle' = [m \in Msgs |-> IF m \in E THEN NoHandle ELSE receiptHandle[m]]
  BY <1>1, <1>4 DEF ReturnMessage, MessageInv, TypeOK
<1>6. E \subseteq Owed(q)
  BY <1>2, <1>4
<1>7. q \in live /\ UNCHANGED <<live, enqueued, issued>>
  BY DEF ReturnMessage, queueVars
<1> QED
  BY <1>3, <1>5, <1>6, <1>7, ReleaseImplements

LEMMA DeleteMessageImplements ==
    ASSUME MessageInv, MessageInv', NEW q \in Queues, NEW g \in Handles, DeleteMessage(q, g)
    PROVE  Service!Next
<1>1. PICK k \in Msgs : k = inflight[q][g]
  BY DEF DeleteMessage, MessageInv, TypeOK
<1>2. k \in Owed(q) /\ PlacedOnce(k)
  BY <1>1, OwedMembers DEF MessageInv, Conservation
<1>3. receiptHandle[k] = g /\ g # NoHandle
  BY <1>1, NamesAssumption DEF MessageInv, HandleAgreement
<1>4. \A r \in Queues, m \in Msgs : m \in Owed(r)' <=> m \in Owed(r) /\ m # k
  <2> TAKE r \in Queues, m \in Msgs
  <2>1. pending' = pending
    BY DEF DeleteMessage
  <2>2. \A h \in Handles : inflight'[r][h] = IF r = q /\ h = g THEN NoMsg ELSE inflight[r][h]
    BY DEF DeleteMessage, MessageInv, TypeOK
  <2>3. CASE m = k
    <3>1. /\ \A p \in Queues : k \notin pending[p]
          /\ \A p \in Queues, h \in Handles : inflight[p][h] = k => p = q /\ h = g
      BY <1>1, <1>2 DEF PlacedOnce, InPending, InFlight
    <3> QED BY <2>1, <2>2, <2>3, <3>1, OwedNext, NamesAssumption
  <2>4. CASE m # k
    BY <1>1, <2>1, <2>2, <2>4, OwedMembers, OwedNext, NamesAssumption
  <2> QED BY <2>3, <2>4
<1>5. \A r \in Queues \ {q} : k \notin Owed(r)
  BY <1>1, <1>2, OwedMembers DEF PlacedOnce, InPending, InFlight
<1>6. \A r \in Queues : Owed(r)' = IF r = q THEN Owed(r) \ {k} ELSE Owed(r)
  BY <1>4, <1>5, OwedType, OwedTypeNext DEF MessageInv
<1>7. [r \in Queues |-> Owed(r)]' = [[r \in Queues |-> Owed(r)] EXCEPT ![q] = @ \ {k}]
  BY <1>6
<1>8. receiptHandle' = [receiptHandle EXCEPT ![k] = NoHandle]
  BY <1>1 DEF DeleteMessage
<1>9. live' = live /\ (1..enqueued)' = 1..enqueued /\ issued' = issued
  BY DEF DeleteMessage, queueVars
<1>10. Service!Acknowledge(q, k)
  BY <1>2, <1>3, <1>7, <1>8, <1>9 DEF Service!Acknowledge, Owed
<1> QED
  BY <1>10 DEF Service!Next

LEMMA DeleteQueueImplements ==
    ASSUME MessageInv, NEW q \in Queues, DeleteQueue(q)
    PROVE  Service!Next
<1>1. \A r \in Queues : Owed(r)' = IF r = q THEN {} ELSE Owed(r)
  BY DEF DeleteQueue, MessageInv, TypeOK, NoInflight, Owed, Leased
<1>2. [r \in Queues |-> Owed(r)]' = [[r \in Queues |-> Owed(r)] EXCEPT ![q] = {}]
  BY <1>1
<1>3. receiptHandle' = [m \in Msgs |-> IF m \in [r \in Queues |-> Owed(r)][q] THEN NoHandle
                                      ELSE receiptHandle[m]]
  BY DEF DeleteQueue, Owed
<1>4. q \in live /\ live' = live \ {q} /\ (1..enqueued)' = 1..enqueued /\ issued' = issued
  BY DEF DeleteQueue
<1>5. Service!DeleteQueue(q)
  BY <1>2, <1>3, <1>4 DEF Service!DeleteQueue, Owed
<1> QED
  BY <1>5 DEF Service!Next

LEMMA SendMessageImplements ==
    ASSUME MessageInv, NEW q \in Queues, NEW z, NEW d, SendMessage(q, z, d)
    PROVE  Service!Next
<1>1. PICK k \in Msgs : k = enqueued + 1
  BY DEF SendMessage
<1>2. k \notin 1..enqueued /\ (1..enqueued)' = 1..enqueued \cup {k}
  BY <1>1 DEF SendMessage, MessageInv, TypeOK
<1>3. \A r \in Queues : Owed(r)' = IF r = q THEN Owed(r) \cup {k} ELSE Owed(r)
  BY <1>1 DEF SendMessage, MessageInv, TypeOK, Owed, Leased
<1>4. [r \in Queues |-> Owed(r)]' = [[r \in Queues |-> Owed(r)] EXCEPT ![q] = @ \cup {k}]
  BY <1>3
<1>5. q \in live /\ UNCHANGED <<live, receiptHandle, issued>>
  BY DEF SendMessage, queueVars
<1>6. Service!SendMessage(q, k)
  BY <1>2, <1>4, <1>5 DEF Service!SendMessage, Owed
<1> QED
  BY <1>6 DEF Service!Next

\* Every step of the backend is a step of the service or leaves it alone.
LEMMA StepImplements ==
    ASSUME MessageInv, MessageInv', [AnyCall]_vars
    PROVE  [Service!Next]_(Service!vars)
<1> DEFINE Goal == [Service!Next]_(Service!vars)
<1>1. ASSUME UNCHANGED <<live, pending, inflight, receiptHandle, enqueued, issued>> PROVE Goal
  BY <1>1 DEF Service!vars, Leased
<1>2. ASSUME NEW q \in Queues, NEW a, CreateQueue(q, a) PROVE Goal
  <2>1. Service!CreateQueue(q)
    BY <1>2 DEF CreateQueue, msgVars, Service!CreateQueue, Leased
  <2> QED BY <2>1 DEF Service!Next
<1>3. ASSUME NEW q \in Queues, NEW h \in Handles, NEW v, ChangeVisibility(q, h, v) PROVE Goal
  <2>1. CASE ReturnMessage(q, h)
    BY <2>1, ReturnMessageImplements
  <2>2. CASE ExtendLease(q, h, v)
    BY <1>1, <2>2 DEF ExtendLease, queueVars
  <2> QED BY <1>3, <2>1, <2>2 DEF ChangeVisibility
<1>4. ASSUME NEW c \in Clients, TryReceive(c) PROVE Goal
  <2>1. CASE poll[c].queue \in live
    <3>1. Deliver(poll[c].queue, poll[c].max, poll[c].vis)
      BY <1>4, <2>1 DEF TryReceive
    <3> QED BY <2>1, <3>1, DeliverImplements
  <2>2. CASE poll[c].queue \notin live
    BY <1>1, <1>4, <2>2 DEF TryReceive, queueVars, msgVars
  <2> QED BY <2>1, <2>2
<1>5. ASSUME NEW q \in Queues, NEW a, SetQueueAttributes(q, a) \/ TagQueue(q, a) \/ UntagQueue(q, a)
      PROVE  Goal
  BY <1>1, <1>5 DEF SetQueueAttributes, TagQueue, UntagQueue, msgVars
<1>6. ASSUME NEW c \in Clients, NEW q, NEW n, NEW v, NEW w,
             StartReceive(c, q, n, v, w) \/ CancelReceive(c)
      PROVE  Goal
  BY <1>1, <1>6 DEF StartReceive, CancelReceive, queueVars, msgVars
<1>7. ASSUME Tick \/ UNCHANGED vars PROVE Goal
  BY <1>1, <1>7 DEF Tick, vars, queueVars, msgVars
<1>8. ASSUME NEW q \in Queues, DeleteQueue(q) \/ HeadQueue(q) PROVE Goal
  BY <1>8, DeleteQueueImplements, HeadQueueImplements
<1>9. ASSUME NEW q \in Queues, NEW z, NEW d, SendMessage(q, z, d) PROVE Goal
  BY <1>9, SendMessageImplements
<1>10. ASSUME NEW q \in Queues, NEW h \in Handles, DeleteMessage(q, h) PROVE Goal
  BY <1>10, DeleteMessageImplements
<1> HIDE DEF Goal
<1>11. Goal
  BY <1>2, <1>3, <1>4, <1>5, <1>6, <1>7, <1>8, <1>9, <1>10 DEF AnyCall
<1> QED
  BY <1>11 DEF Goal

\* The in-process backend does with messages what the queue interface
\* promises: owed until acknowledged or deleted with the queue, leased to one
\* handle at a time, each handle new.
THEOREM BackendImplementsService == Spec => ImplementsService
<1>1. MessageInv /\ MessageInv' /\ [AnyCall]_vars => [Service!Next]_(Service!vars)
  BY StepImplements
<1> QED
  BY <1>1, InitImplements, MessagesInvariant, NextIsACall, PTL DEF Spec, ImplementsService, Service!Spec

-----------------------------------------------------------------------------
(***************************************************************************)
(* The frontends.  Each of their steps is a call that the backend allows,  *)
(* or leaves it alone (FrontendsCall), so that all of the above holds under *)
(* them too; for renewLock, ShimInv says that a handle whose lock had run  *)
(* out is known to the backend and leases nothing any more.                *)
(***************************************************************************)

SqsTags == [op : {"sqsTag"}, queue : Queues, tags : SUBSET TagKeys]
SqsRollbacks == [op : {"sqsRollback"}, queue : Queues]
Subscribes == [op : {"subscribed"}, queue : Queues, ackDeadline : Nat]
Publishes == [op : {"publish"}, queue : Queues, todo : Seq({"ok", "huge", "garbled"})]
Acknowledges == [op : {"acknowledge"}, queue : Queues, todo : Seq(Handles)]
ModifyAcks == [op : {"modifyAck"}, queue : Queues, todo : Seq(Handles), vis : Nat]
Renews == [op : {"renew"}, queue : Queues, handle : Handles, extend : Nat, lapsed : BOOLEAN]
Requests == {NoReq} \cup SqsTags \cup SqsRollbacks \cup Subscribes \cup Publishes
                    \cup Acknowledges \cup ModifyAcks \cup Renews

LapsedStays(r) ==
    r.op = "renew" /\ r.lapsed => r.handle \in issued /\ inflight[r.queue][r.handle] = NoMsg
RequestsOK == req \in [Clients -> Requests] /\ \A c \in Clients : LapsedStays(req[c])
ShimInv == MessageInv /\ RequestsOK

\* Which request is which.
LEMMA RequestKinds ==
    ASSUME NEW r \in Requests
    PROVE  /\ r.op = "sqsTag" => r \in SqsTags
           /\ r.op = "sqsRollback" => r \in SqsRollbacks
           /\ r.op = "publish" => r \in Publishes
           /\ r.op = "acknowledge" => r \in Acknowledges
           /\ r.op = "modifyAck" => r \in ModifyAcks
           /\ r.op = "renew" => r \in Renews
BY DEF Requests, NoReq, SqsTags, SqsRollbacks, Subscribes, Publishes, Acknowledges, ModifyAcks, Renews

\* The frontends call the backend with inputs that it knows.
LEMMA AwsCalls == ASSUME ShimInv, AwsNext PROVE AnyCall
<1>1. issued \subseteq Handles
  BY DEF ShimInv, MessageInv, TypeOK
<1>2. PICK q \in Queues :
        \/ SqsAdmin(q) \/ SqsSendMessage(q)
        \/ \E h \in issued : SqsDeleteMessage(q, h) \/ SqsChangeMessageVisibility(q, h)
        \/ \E c \in Clients : \/ \E a \in Attrs, T \in TagSets : SqsCreateQueue(c, q, a, T)
                              \/ SqsReceiveMessage(c, q)
  BY DEF AwsNext
<1>3. CASE SqsAdmin(q)
  BY <1>3, InputsAssumption DEF SqsAdmin, AnyCall
<1>4. CASE SqsSendMessage(q)
  BY <1>4, InputsAssumption DEF SqsSendMessage, AnyCall
<1>5. CASE \E h \in issued : SqsDeleteMessage(q, h) \/ SqsChangeMessageVisibility(q, h)
  BY <1>1, <1>5, InputsAssumption DEF SqsDeleteMessage, SqsChangeMessageVisibility, AnyCall
<1>6. CASE \E c \in Clients : \/ \E a \in Attrs, T \in TagSets : SqsCreateQueue(c, q, a, T)
                              \/ SqsReceiveMessage(c, q)
  BY <1>6, InputsAssumption DEF SqsCreateQueue, SqsReceiveMessage, AnyCall
<1> QED
  BY <1>2, <1>3, <1>4, <1>5, <1>6

LEMMA NoAttributesType == NoAttributes \in Attributes
BY DEF NoAttributes, Attributes

LEMMA GcpCalls == ASSUME ShimInv, GcpNext PROVE AnyCall \/ UNCHANGED vars
<1>1. PICK q \in Queues :
        \/ CreateTopic(q) \/ ProbeQueue(q) \/ DeleteTopic(q)
        \/ \E c \in Clients :
             \/ \E a \in Attrs : CreateSubscription(c, q, a)
             \/ \E b \in Bodies : Publish(c, q, b)
             \/ Pull(c, q)
             \/ \E ids \in AckIds : Acknowledge(c, q, ids)
             \/ \E ids \in AckIds, v \in Visibilities : ModifyAckDeadline(c, q, ids, v)
  BY DEF GcpNext
<1>2. CASE CreateTopic(q) \/ ProbeQueue(q) \/ DeleteTopic(q)
  BY <1>2, NoAttributesType DEF CreateTopic, ProbeQueue, DeleteTopic, AnyCall
<1>3. ASSUME NEW c \in Clients, NEW a \in Attrs, CreateSubscription(c, q, a)
      PROVE  AnyCall \/ UNCHANGED vars
  <2>1. a \in Attributes
    BY InputsAssumption
  <2>2. [NoAttributes EXCEPT !.vis = a.vis, !.ret = a.ret]
        = [vis |-> a.vis, ret |-> a.ret, max |-> 0, delay |-> 0]
    <3>1. [NoAttributes EXCEPT !.vis = a.vis, !.ret = a.ret] = [[NoAttributes EXCEPT !.vis = a.vis] EXCEPT !.ret = a.ret]
      OBVIOUS
    <3>2. PICK b : b = [NoAttributes EXCEPT !.vis = a.vis]
      OBVIOUS
    <3>3. b = [vis |-> a.vis, ret |-> 0, max |-> 0, delay |-> 0]
      BY <3>2 DEF NoAttributes
    <3>4. [b EXCEPT !.ret = a.ret] = [vis |-> a.vis, ret |-> a.ret, max |-> 0, delay |-> 0]
      BY <3>3
    <3> QED BY <3>1, <3>2, <3>4
  <2>3. [vis |-> a.vis, ret |-> a.ret, max |-> 0, delay |-> 0] \in Attributes
    BY <2>1 DEF Attributes
  <2> QED BY <1>3, <2>2, <2>3 DEF CreateSubscription, AnyCall
<1>4. ASSUME NEW c \in Clients, Pull(c, q) PROVE AnyCall
  BY <1>4, InputsAssumption, FrontendInputs DEF Pull, AnyCall
<1>5. CASE \E c \in Clients : \/ \E b \in Bodies : Publish(c, q, b)
                              \/ \E ids \in AckIds : Acknowledge(c, q, ids)
                              \/ \E ids \in AckIds, v \in Visibilities : ModifyAckDeadline(c, q, ids, v)
  BY <1>5 DEF Publish, Acknowledge, ModifyAckDeadline
<1> QED
  BY <1>1, <1>2, <1>3, <1>4, <1>5

LEMMA AzureCalls == ASSUME ShimInv, AzureNext PROVE AnyCall
<1>1. issued \subseteq Handles
  BY DEF ShimInv, MessageInv, TypeOK
<1>2. PICK q \in Queues :
        \/ EntityPut(q) \/ EntityDelete(q) \/ EntityGet(q) \/ ServiceBusSend(q)
        \/ \E h \in issued : CompleteMessage(q, h)
        \/ \E c \in Clients : PeekLock(c, q) \/ \E h \in issued : RenewLock(c, q, h)
  BY DEF AzureNext
<1>3. CASE EntityPut(q) \/ EntityDelete(q) \/ EntityGet(q) \/ ServiceBusSend(q)
  BY <1>3, NoAttributesType, InputsAssumption DEF EntityPut, EntityDelete, EntityGet, ServiceBusSend, AnyCall
<1>4. CASE \E h \in issued : CompleteMessage(q, h)
  BY <1>1, <1>4 DEF CompleteMessage, AnyCall
<1>5. ASSUME NEW c \in Clients, PeekLock(c, q) \/ \E h \in issued : RenewLock(c, q, h) PROVE AnyCall
  BY <1>5, InputsAssumption DEF PeekLock, RenewLock, AnyCall
<1> QED
  BY <1>2, <1>3, <1>4, <1>5

LEMMA HandlersCall ==
    ASSUME ShimInv, NEW c \in Clients, HandlerStep(c)
    PROVE  AnyCall \/ UNCHANGED vars
<1>1. PICK r \in Requests : r = req[c]
  BY DEF ShimInv, RequestsOK
<1>2. CASE SqsCreateTag(c)
  BY <1>1, <1>2, RequestKinds DEF SqsCreateTag, SqsTags, AnyCall
<1>3. CASE SqsCreateRollback(c)
  BY <1>1, <1>3, RequestKinds DEF SqsCreateRollback, SqsRollbacks, AnyCall
<1>4. CASE PublishNext(c)
  BY <1>1, <1>4, RequestKinds, FrontendInputs DEF PublishNext, Publishes, AnyCall
<1>5. CASE AcknowledgeNext(c)
  BY <1>1, <1>5, RequestKinds DEF AcknowledgeNext, Acknowledges, AnyCall
<1>6. CASE ModifyAckDeadlineNext(c)
  BY <1>1, <1>6, RequestKinds DEF ModifyAckDeadlineNext, ModifyAcks, AnyCall
<1>7. CASE RenewLockChange(c)
  BY <1>1, <1>7, RequestKinds DEF RenewLockChange, Renews, AnyCall
<1>8. CASE ReplySubscription(c) \/ TryReceive(c)
  BY <1>8 DEF ReplySubscription, AnyCall
<1> QED
  BY <1>2, <1>3, <1>4, <1>5, <1>6, <1>7, <1>8 DEF HandlerStep

LEMMA FrontendsCall == ShimInv /\ [ShimNext]_shimVars => [AnyCall]_vars
<1> SUFFICES ASSUME ShimInv, [ShimNext]_shimVars PROVE [AnyCall]_vars
  OBVIOUS
<1>1. CASE UNCHANGED shimVars
  BY <1>1 DEF shimVars
<1>2. CASE Tick \/ \E c \in Clients : CancelReceive(c)
  BY <1>2 DEF AnyCall
<1> QED
  BY <1>1, <1>2, AwsCalls, GcpCalls, AzureCalls, HandlersCall DEF ShimNext

\* What a lapsed lock leaves stays so, as handles are used once.
LEMMA LapsedStaysSo ==
    ASSUME MessageInv, [AnyCall]_vars, NEW r \in Requests, LapsedStays(r)
    PROVE  LapsedStays(r)'
<1> SUFFICES ASSUME r.op = "renew", r.lapsed
             PROVE  r.handle \in issued' /\ inflight'[r.queue][r.handle] = NoMsg
  BY DEF LapsedStays
<1>1. r.queue \in Queues /\ r.handle \in Handles
  BY RequestKinds DEF Renews
<1>2. r.handle \in issued /\ inflight[r.queue][r.handle] = NoMsg
  BY DEF LapsedStays
<1>3. HandleKept(r.queue, r.handle)
  BY <1>1, <1>2, NextHandle
<1>4. issued \subseteq issued'
  BY IssuedGrows
<1> QED
  BY <1>2, <1>3, <1>4 DEF HandleKept

\* One request changes, and the others stay as they are.
LEMMA OneRequest ==
    ASSUME ShimInv, [AnyCall]_vars, NEW c \in Clients, NEW r \in Requests, Continue(c, r), LapsedStays(r)'
    PROVE  RequestsOK'
<1>1. req' = [req EXCEPT ![c] = r] /\ req \in [Clients -> Requests]
  BY DEF Continue, ShimInv, RequestsOK
<1>2. \A d \in Clients : LapsedStays(req[d])
  BY DEF ShimInv, RequestsOK
<1>3. ASSUME NEW d \in Clients PROVE LapsedStays(req[d])'
  <2>1. CASE d = c
    <3>1. req'[d] = r
      BY <1>1, <2>1
    <3> QED BY <3>1 DEF LapsedStays
  <2>2. CASE d # c
    <3>1. PICK s \in Requests : s = req[d]
      BY <1>1
    <3>2. req'[d] = s
      BY <1>1, <2>2, <3>1
    <3>3. LapsedStays(s)'
      BY <1>2, <3>1, LapsedStaysSo DEF ShimInv
    <3> QED BY <3>2, <3>3 DEF LapsedStays
  <2> QED BY <2>1, <2>2
<1> QED
  BY <1>1, <1>3 DEF RequestsOK

LEMMA NoRequest ==
    ASSUME ShimInv, [AnyCall]_vars, UNCHANGED req
    PROVE  RequestsOK'
<1>1. req \in [Clients -> Requests] /\ \A d \in Clients : LapsedStays(req[d])
  BY DEF ShimInv, RequestsOK
<1>2. ASSUME NEW d \in Clients PROVE LapsedStays(req[d])'
  <2>1. PICK s \in Requests : s = req[d]
    BY <1>1
  <2>2. LapsedStays(s)'
    BY <1>1, <2>1, LapsedStaysSo DEF ShimInv
  <2> QED BY <2>1, <2>2 DEF LapsedStays
<1> QED
  BY <1>1, <1>2 DEF RequestsOK

LEMMA RequestEnds ==
    ASSUME ShimInv, [AnyCall]_vars, NEW c \in Clients, Finish(c)
    PROVE  RequestsOK'
<1>1. PICK r \in Requests : r = NoReq
  BY DEF Requests
<1>2. Continue(c, r) /\ LapsedStays(r)'
  BY <1>1 DEF Finish, Continue, LapsedStays, NoReq
<1> QED
  BY <1>2, OneRequest

\* Any request but a renewLock.
LEMMA RequestGoesOn ==
    ASSUME ShimInv, [AnyCall]_vars, NEW c \in Clients, NEW r \in Requests, r.op # "renew", Continue(c, r)
    PROVE  RequestsOK'
<1>1. LapsedStays(r)'
  BY DEF LapsedStays
<1> QED
  BY <1>1, OneRequest

LEMMA BeginsOK ==
    ASSUME ShimInv, [AnyCall]_vars, AwsNext \/ GcpNext \/ AzureNext
    PROVE  RequestsOK'
<1>1. ASSUME NEW c \in Clients, NEW q \in Queues, NEW a, NEW T \in TagSets, SqsCreateQueue(c, q, a, T)
      PROVE  RequestsOK'
  <2>1. PICK r : r = [op |-> "sqsTag", queue |-> q, tags |-> T]
    OBVIOUS
  <2>2. r \in Requests /\ r.op # "renew"
    BY <2>1, FrontendInputs DEF Requests, SqsTags
  <2>3. UNCHANGED req \/ Continue(c, r)
    BY <1>1, <2>1 DEF SqsCreateQueue
  <2> QED BY <2>2, <2>3, NoRequest, RequestGoesOn
<1>2. ASSUME NEW c \in Clients, NEW q \in Queues, NEW a \in Attrs, CreateSubscription(c, q, a)
      PROVE  RequestsOK'
  <2>1. OrDefault(a.vis, GcpAckDefault) \in Nat
    BY InputsAssumption, FrontendInputs DEF Attributes, OrDefault
  <2>2. PICK r : r = [op |-> "subscribed", queue |-> q, ackDeadline |-> OrDefault(a.vis, GcpAckDefault)]
    OBVIOUS
  <2>3. r \in Requests /\ r.op # "renew"
    BY <2>1, <2>2 DEF Requests, Subscribes
  <2>4. Continue(c, r)
    BY <1>2, <2>2 DEF CreateSubscription
  <2> QED BY <2>3, <2>4, RequestGoesOn
<1>3. ASSUME NEW c \in Clients, NEW q \in Queues, NEW b \in Bodies, Publish(c, q, b)
      PROVE  RequestsOK'
  <2>1. PICK r : r = [op |-> "publish", queue |-> q, todo |-> b]
    OBVIOUS
  <2>2. r \in Requests /\ r.op # "renew"
    BY <2>1, FrontendInputs DEF Requests, Publishes
  <2>3. Continue(c, r)
    BY <1>3, <2>1 DEF Publish
  <2> QED BY <2>2, <2>3, RequestGoesOn
<1>4. AckIds \subseteq Seq(Handles)
  <2>1. issued \subseteq Handles
    BY DEF ShimInv, MessageInv, TypeOK
  <2> QED BY <2>1, FrontendInputs DEF AckIds
<1>5. ASSUME NEW c \in Clients, NEW q \in Queues, NEW ids \in AckIds, Acknowledge(c, q, ids)
      PROVE  RequestsOK'
  <2>1. PICK r : r = [op |-> "acknowledge", queue |-> q, todo |-> ids]
    OBVIOUS
  <2>2. r \in Requests /\ r.op # "renew"
    BY <1>4, <2>1 DEF Requests, Acknowledges
  <2>3. Continue(c, r)
    BY <1>5, <2>1 DEF Acknowledge
  <2> QED BY <2>2, <2>3, RequestGoesOn
<1>6. ASSUME NEW c \in Clients, NEW q \in Queues, NEW ids \in AckIds, NEW v \in Visibilities,
             ModifyAckDeadline(c, q, ids, v)
      PROVE  RequestsOK'
  <2>1. PICK r : r = [op |-> "modifyAck", queue |-> q, todo |-> ids, vis |-> v]
    OBVIOUS
  <2>2. r \in Requests /\ r.op # "renew"
    BY <1>4, <2>1, InputsAssumption DEF Requests, ModifyAcks
  <2>3. Continue(c, r)
    BY <1>6, <2>1 DEF ModifyAckDeadline
  <2> QED BY <2>2, <2>3, RequestGoesOn
<1>7. ASSUME NEW c \in Clients, NEW q \in Queues, NEW h \in issued, RenewLock(c, q, h)
      PROVE  RequestsOK'
  <2>1. h \in Handles /\ attributes[q].vis \in Nat /\ DefaultAttrs.vis \in Nat
    BY InputsAssumption DEF ShimInv, MessageInv, TypeOK, Attributes
  <2>2. PICK r : r = [op |-> "renew", queue |-> q, handle |-> h,
                      extend |-> OrDefault(attributes[q].vis, DefaultAttrs.vis), lapsed |-> h \in Lapsed(q)]
    OBVIOUS
  <2>3. r \in Renews
    BY <2>1, <2>2 DEF Renews, OrDefault
  <2>4. Continue(c, r) /\ HeadQueue(q)
    BY <1>7, <2>2 DEF RenewLock
  <2>5. issued' = issued /\ (h \in Lapsed(q) => inflight'[q][h] = NoMsg)
    BY <2>1, <2>4 DEF HeadQueue, ShimInv, MessageInv, TypeOK
  <2>6. LapsedStays(r)'
    BY <2>2, <2>5 DEF LapsedStays
  <2> QED BY <2>3, <2>4, <2>6, OneRequest DEF Requests
<1>8. CASE AwsNext
  BY <1>1, <1>8, NoRequest DEF AwsNext
<1>9. CASE GcpNext
  BY <1>2, <1>3, <1>5, <1>6, <1>9, NoRequest DEF GcpNext
<1>10. CASE AzureNext
  BY <1>7, <1>10, NoRequest DEF AzureNext
<1> QED
  BY <1>8, <1>9, <1>10

LEMMA HandlersOK ==
    ASSUME ShimInv, [AnyCall]_vars, NEW c \in Clients, HandlerStep(c)
    PROVE  RequestsOK'
<1>1. PICK r \in Requests : r = req[c]
  BY DEF ShimInv, RequestsOK
<1>2. CASE SqsCreateTag(c)
  <2>1. r \in SqsTags
    BY <1>1, <1>2, RequestKinds DEF SqsCreateTag
  <2>2. PICK s : s = [op |-> "sqsRollback", queue |-> r.queue]
    OBVIOUS
  <2>3. s \in Requests /\ s.op # "renew"
    BY <2>1, <2>2 DEF SqsTags, Requests, SqsRollbacks
  <2>4. Finish(c) \/ Continue(c, s)
    BY <1>1, <1>2, <2>2 DEF SqsCreateTag
  <2> QED BY <2>3, <2>4, RequestEnds, RequestGoesOn
<1>3. CASE PublishNext(c)
  <2>1. r \in Publishes
    BY <1>1, <1>3, RequestKinds DEF PublishNext
  <2>2. Finish(c) \/ (r.todo # <<>> /\ Continue(c, [r EXCEPT !.todo = Tail(r.todo)]))
    BY <1>1, <1>3 DEF PublishNext
  <2>3. CASE r.todo # <<>> /\ Continue(c, [r EXCEPT !.todo = Tail(r.todo)])
    <3>1. Tail(r.todo) \in Seq({"ok", "huge", "garbled"})
      BY <2>1, <2>3 DEF Publishes
    <3>2. PICK s : s = [r EXCEPT !.todo = Tail(r.todo)]
      OBVIOUS
    <3>3. s \in Publishes
      BY <2>1, <3>1, <3>2 DEF Publishes
    <3>4. s \in Requests /\ s.op # "renew" /\ Continue(c, s)
      BY <2>3, <3>2, <3>3 DEF Requests, Publishes
    <3> QED BY <3>4, RequestGoesOn
  <2> QED BY <2>2, <2>3, RequestEnds
<1>4. CASE AcknowledgeNext(c)
  <2>1. r \in Acknowledges
    BY <1>1, <1>4, RequestKinds DEF AcknowledgeNext
  <2>2. Finish(c) \/ (r.todo # <<>> /\ Continue(c, [r EXCEPT !.todo = Tail(r.todo)]))
    BY <1>1, <1>4 DEF AcknowledgeNext
  <2>3. CASE r.todo # <<>> /\ Continue(c, [r EXCEPT !.todo = Tail(r.todo)])
    <3>1. Tail(r.todo) \in Seq(Handles)
      BY <2>1, <2>3 DEF Acknowledges
    <3>2. PICK s : s = [r EXCEPT !.todo = Tail(r.todo)]
      OBVIOUS
    <3>3. s \in Acknowledges
      BY <2>1, <3>1, <3>2 DEF Acknowledges
    <3>4. s \in Requests /\ s.op # "renew" /\ Continue(c, s)
      BY <2>3, <3>2, <3>3 DEF Requests, Acknowledges
    <3> QED BY <3>4, RequestGoesOn
  <2> QED BY <2>2, <2>3, RequestEnds
<1>5. CASE ModifyAckDeadlineNext(c)
  <2>1. r \in ModifyAcks
    BY <1>1, <1>5, RequestKinds DEF ModifyAckDeadlineNext
  <2>2. Finish(c) \/ (r.todo # <<>> /\ Continue(c, [r EXCEPT !.todo = Tail(r.todo)]))
    BY <1>1, <1>5 DEF ModifyAckDeadlineNext
  <2>3. CASE r.todo # <<>> /\ Continue(c, [r EXCEPT !.todo = Tail(r.todo)])
    <3>1. Tail(r.todo) \in Seq(Handles)
      BY <2>1, <2>3 DEF ModifyAcks
    <3>2. PICK s : s = [r EXCEPT !.todo = Tail(r.todo)]
      OBVIOUS
    <3>3. s \in ModifyAcks
      BY <2>1, <3>1, <3>2 DEF ModifyAcks
    <3>4. s \in Requests /\ s.op # "renew" /\ Continue(c, s)
      BY <2>3, <3>2, <3>3 DEF Requests, ModifyAcks
    <3> QED BY <3>4, RequestGoesOn
  <2> QED BY <2>2, <2>3, RequestEnds
<1>6. CASE SqsCreateRollback(c) \/ ReplySubscription(c) \/ RenewLockChange(c)
  BY <1>6, RequestEnds DEF SqsCreateRollback, ReplySubscription, RenewLockChange
<1> QED
  BY <1>2, <1>3, <1>4, <1>5, <1>6, NoRequest DEF HandlerStep

LEMMA ShimInvInit == ShimInit => ShimInv
<1> SUFFICES ASSUME ShimInit PROVE ShimInv
  OBVIOUS
<1>1. MessageInv
  BY InitMessageInv DEF ShimInit
<1>2. RequestsOK
  BY DEF ShimInit, RequestsOK, Requests, LapsedStays, NoReq
<1> QED
  BY <1>1, <1>2 DEF ShimInv

LEMMA ShimInvStep == ShimInv /\ [ShimNext]_shimVars => ShimInv'
<1> SUFFICES ASSUME ShimInv, [ShimNext]_shimVars PROVE ShimInv'
  OBVIOUS
<1>1. [AnyCall]_vars
  BY FrontendsCall
<1>2. MessageInv'
  BY <1>1, NextMessageInv DEF ShimInv
<1>3. RequestsOK'
  <2>1. CASE AwsNext \/ GcpNext \/ AzureNext
    BY <1>1, <2>1, BeginsOK
  <2>2. CASE \E c \in Clients : HandlerStep(c)
    BY <1>1, <2>2, HandlersOK
  <2>3. CASE UNCHANGED req
    BY <1>1, <2>3, NoRequest
  <2> QED BY <2>1, <2>2, <2>3 DEF ShimNext, shimVars
<1> QED
  BY <1>2, <1>3 DEF ShimInv

\* Under every frontend and whatever the handlers' calls are interleaved with,
\* the backend's messages, leases and handles stay in order, and the handle of
\* a lock that had run out when renewLock looked leases nothing any more.
THEOREM FrontendsInvariant == ShimSpec => []ShimInv
BY ShimInvInit, ShimInvStep, PTL DEF ShimSpec

\* Conservation, of the whole shim: no frontend loses, duplicates or brings
\* back a message, although its handlers make several calls (publish,
\* acknowledge, the roll-back of CreateQueue) between which others come in.
THEOREM FrontendsConserveMessages == ShimSpec => []Conservation
<1>1. ShimInv => Conservation
  BY DEF ShimInv, MessageInv
<1> QED
  BY <1>1, FrontendsInvariant, PTL

\* Each frontend over the in-process backend does with messages what the queue
\* interface promises (QueueService).
THEOREM FrontendsImplementService == ShimSpec => ImplementsService
<1>1. ShimInv /\ ShimInv' /\ [ShimNext]_shimVars => [Service!Next]_(Service!vars)
  BY FrontendsCall, StepImplements DEF ShimInv
<1>2. ShimInit => Service!Init
  BY InitImplements DEF ShimInit
<1> QED
  BY <1>1, <1>2, FrontendsInvariant, PTL DEF ShimSpec, ImplementsService, Service!Spec

\* LeaseExclusive, of the whole shim: a message that one consumer has leased,
\* received, pulled or peek-locked is given to no other while the lease lasts.
THEOREM FrontendsLeasesExclusive == ShimSpec => LeaseExclusive
<1>1. ShimInv /\ [ShimNext]_shimVars => [\A m \in Msgs : LeaseKept(m)]_vars
  BY FrontendsCall, NextLease DEF ShimInv
<1>2. [\A m \in Msgs : LeaseKept(m)]_vars <=>
      [\A m \in Msgs :
          receiptHandle[m] # NoHandle /\ visibleAt[m] > 0 =>
             \/ receiptHandle'[m] = receiptHandle[m]
             \/ /\ receiptHandle'[m] = NoHandle
                /\ m \in acked' \cup dropped' \/ InPending(m)']_vars
  BY DEF LeaseKept
<1> QED
  BY <1>1, <1>2, FrontendsInvariant, PTL DEF ShimSpec, LeaseExclusive

\* Of a step, what LapsedLockNotRenewed says of client c.
NotRenewed(c) ==
    req[c].op = "renew" /\ req'[c] # req[c] /\ req[c].lapsed => UNCHANGED visibleAt

\* A renewLock goes on by its second call only, and only by its own.
LEMMA OwnStepsOnly ==
    ASSUME ShimInv, ShimNext, NEW c \in Clients, req[c].op = "renew", req'[c] # req[c]
    PROVE  RenewLockChange(c)
<1>1. ASSUME NEW d \in Clients, NEW r, Continue(d, r) PROVE d = c
  BY <1>1 DEF Continue, ShimInv, RequestsOK
<1>2. ASSUME NEW d \in Clients, Finish(d) PROVE d = c
  BY <1>2 DEF Finish, ShimInv, RequestsOK
<1>3. ~Free(c)
  BY DEF Free
<1>4. ~AwsNext
  BY <1>1, <1>3 DEF AwsNext, SqsCreateQueue
<1>5. ~GcpNext
  BY <1>1, <1>3 DEF GcpNext, CreateSubscription, Publish, Acknowledge, ModifyAckDeadline
<1>6. ~AzureNext
  BY <1>1, <1>3 DEF AzureNext, RenewLock
<1>7. PICK d \in Clients : HandlerStep(d)
  BY <1>4, <1>5, <1>6 DEF ShimNext
<1>8. d = c
  BY <1>1, <1>2, <1>7 DEF HandlerStep, SqsCreateTag, SqsCreateRollback, ReplySubscription, PublishNext,
                          AcknowledgeNext, ModifyAckDeadlineNext, RenewLockChange
<1> QED
  BY <1>7, <1>8 DEF HandlerStep, SqsCreateTag, SqsCreateRollback, ReplySubscription, PublishNext,
                    AcknowledgeNext, ModifyAckDeadlineNext

\* LapsedLockNotRenewed: renewLock of azure_servicebus never renews a lock that
\* had run out when it asked for the lock duration, whatever other requests do
\* between its two calls.
THEOREM LapsedLocksNotRenewed == ShimSpec => LapsedLockNotRenewed
<1>1. ASSUME ShimInv, [ShimNext]_shimVars, NEW c \in Clients PROVE NotRenewed(c)
  <2> SUFFICES ASSUME req[c].op = "renew", req'[c] # req[c], req[c].lapsed PROVE UNCHANGED visibleAt
    BY DEF NotRenewed
  <2>1. RenewLockChange(c)
    BY <1>1, OwnStepsOnly DEF shimVars
  <2>2. inflight[req[c].queue][req[c].handle] = NoMsg
    BY <1>1 DEF ShimInv, RequestsOK, LapsedStays
  <2>3. ~ChangeVisibility(req[c].queue, req[c].handle, req[c].extend)
    BY <2>2 DEF ChangeVisibility, ReturnMessage, ExtendLease
  <2> QED BY <2>1, <2>3 DEF RenewLockChange, vars, msgVars
<1>2. ShimInv /\ [ShimNext]_shimVars => [\A c \in Clients : NotRenewed(c)]_shimVars
  BY <1>1
<1>3. [\A c \in Clients : NotRenewed(c)]_shimVars <=>
      [\A c \in Clients : req[c].op = "renew" /\ req'[c] # req[c] /\ req[c].lapsed
                             => UNCHANGED visibleAt]_shimVars
  BY DEF NotRenewed
<1> QED
  BY <1>2, <1>3, FrontendsInvariant, PTL DEF ShimSpec, LapsedLockNotRenewed
=============================================================================
