-------------------------- MODULE PubsubStreamProofs --------------------------
(***************************************************************************)
(* Theorems about topics and subscriptions, about event streams, about the *)
(* key cache of the bearer tokens and about the deployments of API         *)
(* gateways, each for every number of clients.                             *)
(***************************************************************************)
EXTENDS Pubsub, EventStream, Bearer, ApiGateway, SequenceTheorems, WellFoundedInduction, TLAPS

-----------------------------------------------------------------------------
(***************************************************************************)
(* DueIsKept for every set of topics, subscriptions and messages, on every *)
(* backend.                                                                *)
(*                                                                         *)
(* What is owed is in the box of a subscription (DueThere).  A step could  *)
(* lose it by taking the box away: that of a subscription of the same name *)
(* elsewhere (OneLink), one whose subscription nobody has (Boxed), or the  *)
(* one a deletion in progress names, of which nothing is promised any more *)
(* (Withdrawn). On aws a subscription is promised something only when its  *)
(* queue was made first (QueueMade).                                       *)
(***************************************************************************)

Handle == Msgs \X Nat
PsTopicReqs == [op : {"createTopic"}, at : {"first"}, topic : Topics, idem : BOOLEAN]
PsDropReqs == [op : {"deleteTopic"}, at : {"first"}, topic : Topics]
PsSubReqs == [op : {"createSub"}, at : {"first", "subscribe"}, topic : Topics, sub : Subs, idem : BOOLEAN]
PsNamedReqs == [op : {"deleteSub", "receive"}, at : {"first", "found", "unsubscribe", "queue"},
                topic : Topics \cup {None}, sub : Subs]
PsPublishReqs == [op : {"publish"}, at : {"first"}, topic : Topics, left : Nat]
PsAckReqs == [op : {"ack"}, at : {"first"}, at_box : Boxes, left : SUBSET Handle]
PsVisibilityReqs == [op : {"visibility"}, at : {"first", "head"}, at_box : Boxes,
                     left : SUBSET Handle, zero : BOOLEAN]
PsReq == PsTopicReqs \cup PsDropReqs \cup PsSubReqs \cup PsNamedReqs \cup PsPublishReqs
         \cup PsAckReqs \cup PsVisibilityReqs

PubsubTypes ==
    /\ links \subseteq (Topics \cup {None}) \X Subs
    /\ box \in [Boxes -> BoxStates \cup {None}]
    /\ due \in [Pairs -> (SUBSET Msgs) \cup {None}]
    /\ published \in Nat
PubsubReqs ==
    /\ req \in [Clients -> {Idle} \cup PsReq]
    /\ alone # None => alone \in Clients /\ \A d \in Clients : d # alone => req[d] = Idle

\* On inmem and gcp a name is that of one subscription.
OneLink == backend \in {"inmem", "gcp"} => \A l \in links, k \in links : l[2] = k[2] => l = k
\* A subscription has its box; on aws the queue may go first.
Boxed == backend # "aws" => \A l \in links : box[Box(l[1], l[2])] # None
\* What is promised is there.
DueThere == \A p \in Pairs : due[p] # None =>
    /\ p \in links
    /\ box[Box(p[1], p[2])] # None
    /\ due[p] \subseteq box[Box(p[1], p[2])].mail \cup box[Box(p[1], p[2])].out
\* Nothing is promised of what is being deleted.
Withdrawn == \A c \in Clients :
    /\ req[c].op = "deleteSub" => \A t \in Topics : due[<<t, req[c].sub>>] = None
    /\ req[c].op = "deleteTopic" => \A s \in Subs : due[<<req[c].topic, s>>] = None
\* Who subscribes a queue, undisturbed, has made it.
QueueMade == \A c \in Clients :
    alone = c /\ req[c].op = "createSub" /\ req[c].at = "subscribe" =>
        box[Box(req[c].topic, req[c].sub)] # None
PubsubInv == PubsubTypes /\ PubsubReqs /\ OneLink /\ Boxed /\ DueThere /\ Withdrawn /\ QueueMade

PsState == PubsubTypes /\ OneLink /\ Boxed /\ DueThere
PsAsked == PubsubReqs /\ Withdrawn /\ QueueMade

-----------------------------------------------------------------------------
(* Requests *)

LEMMA PsReqKinds ==
    ASSUME PubsubReqs, NEW c \in Clients, req[c] # Idle
    PROVE  /\ req[c] \in PsReq
           /\ req[c].op = "createTopic" => req[c] \in PsTopicReqs
           /\ req[c].op = "deleteTopic" => req[c] \in PsDropReqs
           /\ req[c].op = "createSub" => req[c] \in PsSubReqs
           /\ req[c].op \in {"deleteSub", "receive"} => req[c] \in PsNamedReqs
           /\ req[c].op = "publish" => req[c] \in PsPublishReqs
           /\ req[c].op = "ack" => req[c] \in PsAckReqs
           /\ req[c].op = "visibility" => req[c] \in PsVisibilityReqs
<1>1. req[c] \in PsReq
  BY DEF PubsubReqs
<1> QED BY <1>1 DEF PsReq, PsTopicReqs, PsDropReqs, PsSubReqs, PsNamedReqs, PsPublishReqs, PsAckReqs,
       PsVisibilityReqs

LEMMA PsReqNotIdle == \A r \in PsReq : r # Idle
BY DEF PsReq, PsTopicReqs, PsDropReqs, PsSubReqs, PsNamedReqs, PsPublishReqs, PsAckReqs,
   PsVisibilityReqs, Idle

LEMMA PsEnds ==
    ASSUME PsAsked, NEW c \in Clients, req[c] # Idle, NEW says, Ends(c, says),
           (\A p \in Pairs : due[p] = None => due'[p] = None) \/ alone = c
    PROVE  PsAsked' /\ backend' = backend
<1>1. req' = [req EXCEPT ![c] = Idle] /\ alone' = None /\ backend' = backend
  BY DEF Ends
<1>2. req'[c] = Idle /\ \A d \in Clients : d # c => req'[d] = req[d]
  BY <1>1 DEF PsAsked, PubsubReqs
<1>3. PubsubReqs'
  BY <1>1 DEF PsAsked, PubsubReqs
<1>4. QueueMade'
  BY <1>1, NoneIsNoClient DEF QueueMade
<1>5. Withdrawn'
  <2> SUFFICES ASSUME NEW d \in Clients
               PROVE /\ req'[d].op = "deleteSub" => \A t \in Topics : due'[<<t, req'[d].sub>>] = None
                     /\ req'[d].op = "deleteTopic" => \A s \in Subs : due'[<<req'[d].topic, s>>] = None
    BY DEF Withdrawn
  <2>1. CASE req'[d] = Idle
    BY <2>1 DEF Idle
  <2>2. CASE req'[d] # Idle
    <3>1. req'[d] = req[d] /\ d # c /\ req[d] # Idle
      BY <1>2, <2>2
    <3>2. \A p \in Pairs : due[p] = None => due'[p] = None
      BY <3>1, NoneIsNoClient DEF PsAsked, PubsubReqs
    <3>3. /\ req[d].op = "deleteSub" => req[d].sub \in Subs
          /\ req[d].op = "deleteTopic" => req[d].topic \in Topics
      BY <3>1, PsReqKinds DEF PsAsked, PsNamedReqs, PsDropReqs
    <3> QED BY <3>1, <3>2, <3>3 DEF PsAsked, Withdrawn, Pairs
  <2> QED BY <2>1, <2>2
<1> QED BY <1>1, <1>3, <1>4, <1>5 DEF PsAsked

LEMMA PsGoes ==
    ASSUME PsAsked, NEW c \in Clients, req[c] # Idle, NEW r \in PsReq, Goes(c, r), r.op = req[c].op,
           r.op = "deleteSub" => r.sub = req[c].sub,
           r.op = "deleteTopic" => r.topic = req[c].topic,
           \A p \in Pairs : due[p] = None => due'[p] = None,
           r.op = "createSub" /\ r.at = "subscribe" => box'[Box(r.topic, r.sub)] # None
    PROVE  PsAsked' /\ backend' = backend
<1>1. req' = [req EXCEPT ![c] = r] /\ alone' = alone /\ backend' = backend
  BY DEF Goes
<1>2. req'[c] = r /\ \A d \in Clients : d # c => req'[d] = req[d]
  BY <1>1 DEF PsAsked, PubsubReqs
<1>3. PubsubReqs'
  BY <1>1, <1>2 DEF PsAsked, PubsubReqs
<1>4. QueueMade'
  <2> SUFFICES ASSUME NEW d \in Clients, alone = d, req'[d].op = "createSub", req'[d].at = "subscribe"
               PROVE  box'[Box(req'[d].topic, req'[d].sub)] # None
    BY <1>1 DEF QueueMade, Box, PerTopic
  <2>1. d = c
    BY NoneIsNoClient DEF PsAsked, PubsubReqs
  <2> QED BY <1>2, <2>1
<1>5. Withdrawn'
  <2> SUFFICES ASSUME NEW d \in Clients
               PROVE /\ req'[d].op = "deleteSub" => \A t \in Topics : due'[<<t, req'[d].sub>>] = None
                     /\ req'[d].op = "deleteTopic" => \A s \in Subs : due'[<<req'[d].topic, s>>] = None
    BY DEF Withdrawn
  <2>1. CASE req[d] = Idle
    BY <1>2, <2>1 DEF Idle
  <2>2. CASE req[d] # Idle
    <3>1. /\ req'[d].op = req[d].op
          /\ req'[d].op = "deleteSub" => req'[d].sub = req[d].sub
          /\ req'[d].op = "deleteTopic" => req'[d].topic = req[d].topic
      BY <1>2
    <3>3. /\ req[d].op = "deleteSub" => req[d].sub \in Subs
          /\ req[d].op = "deleteTopic" => req[d].topic \in Topics
      BY <2>2, PsReqKinds DEF PsAsked, PsNamedReqs, PsDropReqs
    <3> QED BY <3>1, <3>3 DEF PsAsked, Withdrawn, Pairs
  <2> QED BY <2>1, <2>2
<1> QED BY <1>1, <1>3, <1>4, <1>5 DEF PsAsked

LEMMA PsBegins ==
    ASSUME PsAsked, NEW c \in Clients, NEW r \in PsReq, Begin(c, r), r.at # "subscribe",
           \A p \in Pairs : due[p] = None => due'[p] = None,
           r.op = "deleteSub" => \A t \in Topics : due'[<<t, r.sub>>] = None,
           r.op = "deleteTopic" => \A s \in Subs : due'[<<r.topic, s>>] = None
    PROVE  PsAsked' /\ backend' = backend
<1>1. /\ req' = [req EXCEPT ![c] = r] /\ backend' = backend /\ req[c] = Idle
      /\ alone' = IF Running(c) = {} THEN c ELSE None
  BY DEF Begin
<1>2. req'[c] = r /\ \A d \in Clients : d # c => req'[d] = req[d]
  BY <1>1 DEF PsAsked, PubsubReqs
<1>3. PubsubReqs'
  <2>1. req' \in [Clients -> {Idle} \cup PsReq]
    BY <1>1 DEF PsAsked, PubsubReqs
  <2>2. alone' # None => alone' = c /\ \A d \in Clients : d # c => req[d] = Idle
    BY <1>1 DEF Running
  <2> QED BY <1>2, <2>1, <2>2 DEF PubsubReqs
<1>4. QueueMade'
  BY <1>1, <1>2, NoneIsNoClient DEF QueueMade
<1>5. Withdrawn'
  <2> SUFFICES ASSUME NEW d \in Clients
               PROVE /\ req'[d].op = "deleteSub" => \A t \in Topics : due'[<<t, req'[d].sub>>] = None
                     /\ req'[d].op = "deleteTopic" => \A s \in Subs : due'[<<req'[d].topic, s>>] = None
    BY DEF Withdrawn
  <2>1. CASE d = c
    BY <1>2, <2>1
  <2>2. CASE d # c /\ req[d] = Idle
    BY <1>2, <2>2 DEF Idle
  <2>3. CASE d # c /\ req[d] # Idle
    <3>3. /\ req[d].op = "deleteSub" => req[d].sub \in Subs
          /\ req[d].op = "deleteTopic" => req[d].topic \in Topics
      BY <2>3, PsReqKinds DEF PsAsked, PsNamedReqs, PsDropReqs
    <3> QED BY <1>2, <2>3, <3>3 DEF PsAsked, Withdrawn, Pairs
  <2> QED BY <2>1, <2>2, <2>3
<1> QED BY <1>1, <1>3, <1>4, <1>5 DEF PsAsked

-----------------------------------------------------------------------------
(* Boxes *)

LEMMA BoxIsOne ==
    ASSUME NEW t \in Topics \cup {None}, NEW s \in Subs
    PROVE  Box(t, s) \in Boxes
BY DEF Box, Boxes

LEMMA BoxStays ==
    ASSUME backend' = backend
    PROVE  \A t, s : Box(t, s)' = Box(t, s)
BY DEF Box, PerTopic

LEMMA BoxOfLink ==
    ASSUME PubsubTypes, NEW l \in links
    PROVE  l[1] \in Topics \cup {None} /\ l[2] \in Subs /\ Box(l[1], l[2]) \in Boxes /\ l = <<l[1], l[2]>>
<1>1. l \in (Topics \cup {None}) \X Subs
  BY DEF PubsubTypes
<1>2. l[1] \in Topics \cup {None} /\ l[2] \in Subs /\ l = <<l[1], l[2]>>
  BY <1>1
<1> QED BY <1>2, BoxIsOne

LEMMA BoxOfPair ==
    ASSUME NEW p \in Pairs
    PROVE  p[1] \in Topics /\ p[2] \in Subs /\ Box(p[1], p[2]) \in Boxes /\ p = <<p[1], p[2]>>
<1>1. p[1] \in Topics /\ p[2] \in Subs /\ p = <<p[1], p[2]>>
  BY DEF Pairs
<1> QED BY <1>1, BoxIsOne

LEMMA PsStays ==
    ASSUME PsState, UNCHANGED <<links, box, due, published, backend>>
    PROVE  PsState'
<1>1. \A t, s : Box(t, s)' = Box(t, s)
  BY BoxStays
<1> QED BY <1>1 DEF PsState, PubsubTypes, OneLink, Boxed, DueThere

(* Fewer subscriptions are promised. *)
LEMMA PsLessDue ==
    ASSUME PsState, NEW P, due' = Unpromised(P), UNCHANGED <<links, box, published, backend>>
    PROVE  PsState'
<1>1. \A t, s : Box(t, s)' = Box(t, s)
  BY BoxStays
<1>2. due' \in [Pairs -> (SUBSET Msgs) \cup {None}] /\ \A p \in Pairs : due'[p] # None => due'[p] = due[p]
  BY DEF PsState, PubsubTypes, Unpromised
<1>3. PubsubTypes' /\ OneLink'
  BY <1>2 DEF PsState, PubsubTypes, OneLink
<1>4. Boxed' /\ DueThere'
  BY <1>1, <1>2 DEF PsState, Boxed, DueThere
<1> QED BY <1>3, <1>4 DEF PsState

(* A box loses no message. *)
LEMMA PsBoxChanges ==
    ASSUME PsState, NEW b \in Boxes, NEW x \in BoxStates, box[b] # None,
           box' = [box EXCEPT ![b] = x], box[b].mail \cup box[b].out \subseteq x.mail \cup x.out,
           UNCHANGED <<links, due, published, backend>>
    PROVE  PsState'
<1>1. \A t, s : Box(t, s)' = Box(t, s)
  BY BoxStays
<1>2. /\ box' \in [Boxes -> BoxStates \cup {None}]
      /\ \A a \in Boxes : /\ box[a] # None => box'[a] # None
                          /\ box[a].mail \cup box[a].out \subseteq box'[a].mail \cup box'[a].out
  BY NoneIsNoBox DEF PsState, PubsubTypes
<1>3. PubsubTypes' /\ OneLink'
  BY <1>2 DEF PsState, PubsubTypes, OneLink
<1>4. Boxed'
  <2> SUFFICES ASSUME backend # "aws", NEW l \in links PROVE box'[Box(l[1], l[2])] # None
    BY <1>1 DEF Boxed
  <2> QED BY <1>2, BoxOfLink DEF PsState, Boxed
<1>5. DueThere'
  <2> SUFFICES ASSUME NEW p \in Pairs, due[p] # None
               PROVE  /\ p \in links /\ box'[Box(p[1], p[2])] # None
                      /\ due[p] \subseteq box'[Box(p[1], p[2])].mail \cup box'[Box(p[1], p[2])].out
    BY <1>1 DEF DueThere
  <2>1. /\ p \in links /\ box[Box(p[1], p[2])] # None
        /\ due[p] \subseteq box[Box(p[1], p[2])].mail \cup box[Box(p[1], p[2])].out
    BY DEF PsState, DueThere
  <2>2. Box(p[1], p[2]) \in Boxes
    BY BoxOfPair
  <2> QED BY <1>2, <2>1, <2>2
<1> QED BY <1>3, <1>4, <1>5 DEF PsState

(* Leases come and go. *)
LEMMA PsLeases ==
    ASSUME PsState, NEW b \in Boxes, box[b] # None, NEW late \in SUBSET box[b].out,
           NEW got \in SUBSET (box[b].mail \cup late),
           box' = [box EXCEPT ![b] = Leased(@, late, got)], UNCHANGED <<links, due, published, backend>>
    PROVE  PsState'
<1> DEFINE x == Leased(box[b], late, got)
<1>1. box[b] \in BoxStates
  BY DEF PsState, PubsubTypes
<1>2. x \in BoxStates /\ x.mail = (box[b].mail \cup late) \ got /\ x.out = (box[b].out \ late) \cup got
  BY <1>1 DEF Leased, BoxStates
<1>3. box' = [box EXCEPT ![b] = x]
  BY DEF PsState, PubsubTypes
<1> HIDE DEF x
<1>4. box[b].mail \cup box[b].out \subseteq x.mail \cup x.out
  BY <1>2
<1> QED BY <1>2, <1>3, <1>4, PsBoxChanges

(* Subscriptions or boxes come and go, but no promised one. *)
LEMMA PsOthersChange ==
    ASSUME PsState, UNCHANGED <<due, published, backend>>,
           links' \subseteq (Topics \cup {None}) \X Subs, box' \in [Boxes -> BoxStates \cup {None}],
           backend \in {"inmem", "gcp"} => \A l \in links', k \in links' : l[2] = k[2] => l = k,
           backend # "aws" => \A l \in links' : box'[Box(l[1], l[2])] # None,
           \A p \in Pairs : due[p] # None => p \in links' /\ box'[Box(p[1], p[2])] = box[Box(p[1], p[2])]
    PROVE  PsState'
<1>1. \A t, s : Box(t, s)' = Box(t, s)
  BY BoxStays
<1>2. PubsubTypes' /\ OneLink'
  BY DEF PsState, PubsubTypes, OneLink
<1>3. Boxed' /\ DueThere'
  BY <1>1 DEF PsState, Boxed, DueThere
<1> QED BY <1>2, <1>3 DEF PsState

(* A subscription is deleted, with its box, that nobody counts on. *)
LEMMA PsSubGone ==
    ASSUME PsState, NEW l \in links, \A t \in Topics : due[<<t, l[2]>>] = None,
           links' = links \ {l}, box' = [box EXCEPT ![Box(l[1], l[2])] = None],
           UNCHANGED <<due, published, backend>>, backend \in {"inmem", "gcp", "nats", "azure"}
    PROVE  PsState'
<1> DEFINE b == Box(l[1], l[2])
<1>1. b \in Boxes /\ l[2] \in Subs /\ l[1] \in Topics \cup {None} /\ l = <<l[1], l[2]>>
  BY BoxOfLink DEF PsState
<1>2. /\ links' \subseteq (Topics \cup {None}) \X Subs /\ box' \in [Boxes -> BoxStates \cup {None}]
      /\ \A a \in Boxes : a # b => box'[a] = box[a]
      /\ backend \in {"inmem", "gcp"} => \A k \in links', m \in links' : m[2] = k[2] => m = k
  BY DEF PsState, PubsubTypes, OneLink
<1>3. ASSUME NEW k \in links' PROVE box'[Box(k[1], k[2])] # None
  <2>1. k \in links /\ k # l
    OBVIOUS
  <2>2. Box(k[1], k[2]) \in Boxes /\ k = <<k[1], k[2]>>
    BY <2>1, BoxOfLink DEF PsState
  <2>3. Box(k[1], k[2]) # b
    <3>1. CASE PerTopic
      BY <1>1, <2>1, <2>2, <3>1 DEF Box
    <3>2. CASE ~PerTopic
      <4>1. k[2] # l[2]
        BY <2>1, <3>2 DEF PsState, OneLink, PerTopic
      <4> QED BY <4>1 DEF Box
    <3> QED BY <3>1, <3>2
  <2>4. box[Box(k[1], k[2])] # None
    BY <2>1 DEF PsState, Boxed
  <2> QED BY <1>2, <2>2, <2>3, <2>4
<1>4. ASSUME NEW p \in Pairs, due[p] # None PROVE p \in links' /\ box'[Box(p[1], p[2])] = box[Box(p[1], p[2])]
  <2>1. p[1] \in Topics /\ Box(p[1], p[2]) \in Boxes /\ p = <<p[1], p[2]>>
    BY BoxOfPair
  <2>2. p[2] # l[2]
    BY <1>4, <2>1
  <2>3. p \in links /\ p # l
    BY <1>4, <2>2 DEF PsState, DueThere
  <2>4. Box(p[1], p[2]) # b
    BY <2>2 DEF Box
  <2> QED BY <1>2, <2>1, <2>3, <2>4
<1> HIDE DEF b
<1> QED BY <1>2, <1>3, <1>4, PsOthersChange

(* A topic is deleted, and its subscriptions, that nobody counts on. *)
LEMMA PsTopicGone ==
    ASSUME PsState, NEW t \in Topics, \A s \in Subs : due[<<t, s>>] = None,
           links' = links \ OfTopic(t),
           box' = [b \in Boxes |-> IF \E l \in OfTopic(t) : b = Box(l[1], l[2]) THEN None ELSE box[b]],
           UNCHANGED <<due, published, backend>>, backend \in {"inmem", "nats", "azure"}
    PROVE  PsState'
<1>1. /\ links' \subseteq (Topics \cup {None}) \X Subs /\ box' \in [Boxes -> BoxStates \cup {None}]
      /\ backend \in {"inmem", "gcp"} => \A k \in links', m \in links' : m[2] = k[2] => m = k
      /\ \A k \in links' : k \in links /\ k[1] # t
  BY DEF PsState, PubsubTypes, OneLink, OfTopic
<1>2. ASSUME NEW k \in links, k[1] # t
      PROVE  box'[Box(k[1], k[2])] = box[Box(k[1], k[2])]
  <2>1. Box(k[1], k[2]) \in Boxes
    BY BoxOfLink DEF PsState
  <2>2. ASSUME NEW l \in OfTopic(t), Box(k[1], k[2]) = Box(l[1], l[2]) PROVE FALSE
    <3>1. l \in links /\ l[1] = t
      BY DEF OfTopic
    <3>2. k[2] = l[2] /\ (PerTopic => k[1] = l[1])
      BY <2>2 DEF Box
    <3>3. ~PerTopic => k = l
      BY <3>1, <3>2 DEF PsState, OneLink, PerTopic
    <3> QED BY <1>2, <3>1, <3>2, <3>3
  <2> QED BY <2>1, <2>2
<1>3. ASSUME NEW k \in links' PROVE box'[Box(k[1], k[2])] # None
  <2>1. k \in links /\ k[1] # t
    BY <1>1
  <2> QED BY <1>2, <2>1 DEF PsState, Boxed
<1>4. ASSUME NEW p \in Pairs, due[p] # None PROVE p \in links' /\ box'[Box(p[1], p[2])] = box[Box(p[1], p[2])]
  <2>1. p[2] \in Subs /\ p = <<p[1], p[2]>>
    BY BoxOfPair
  <2>2. p \in links /\ p[1] # t
    BY <1>4, <2>1 DEF PsState, DueThere
  <2>3. p \in links'
    BY <2>2 DEF OfTopic
  <2> QED BY <1>2, <2>2, <2>3
<1> QED BY <1>1, <1>3, <1>4, PsOthersChange

(* gcp: the subscriptions of the topic stay without one. *)
LEMMA PsTopicLost ==
    ASSUME PsState, NEW t \in Topics, \A s \in Subs : due[<<t, s>>] = None,
           links' = (links \ OfTopic(t)) \cup {<<None, l[2]>> : l \in OfTopic(t)},
           UNCHANGED <<box, due, published, backend>>, backend = "gcp"
    PROVE  PsState'
<1>1. ASSUME NEW k \in links'
      PROVE  /\ k \in (Topics \cup {None}) \X Subs
             /\ \E l \in links : l[2] = k[2] /\ ((k = l /\ l[1] # t) \/ (k[1] = None /\ l[1] = t /\ k = <<None, l[2]>>))
  <2>1. CASE k \in links \ OfTopic(t)
    BY <2>1 DEF PsState, PubsubTypes, OfTopic
  <2>2. CASE k \in {<<None, l[2]>> : l \in OfTopic(t)}
    <3>1. PICK l \in OfTopic(t) : k = <<None, l[2]>>
      BY <2>2
    <3>2. l \in links /\ l[1] = t
      BY <3>1 DEF OfTopic
    <3>3. l[2] \in Subs
      BY <3>2, BoxOfLink DEF PsState
    <3> QED BY <3>1, <3>2, <3>3
  <2> QED BY <2>1, <2>2
<1>2. links' \subseteq (Topics \cup {None}) \X Subs /\ box' \in [Boxes -> BoxStates \cup {None}]
  BY <1>1 DEF PsState, PubsubTypes
<1>3. ASSUME NEW k \in links', NEW m \in links', m[2] = k[2] PROVE m = k
  <2>1. PICK l \in links : l[2] = k[2] /\ ((k = l /\ l[1] # t) \/ (k[1] = None /\ l[1] = t /\ k = <<None, l[2]>>))
    BY <1>1
  <2>2. PICK j \in links : j[2] = m[2] /\ ((m = j /\ j[1] # t) \/ (m[1] = None /\ j[1] = t /\ m = <<None, j[2]>>))
    BY <1>1
  <2>3. j = l
    BY <1>3, <2>1, <2>2 DEF PsState, OneLink
  <2> QED BY <1>3, <2>1, <2>2, <2>3
<1>4. ASSUME NEW k \in links' PROVE box'[Box(k[1], k[2])] # None
  <2>1. PICK l \in links : l[2] = k[2]
    BY <1>1
  <2>2. Box(k[1], k[2]) = Box(l[1], l[2])
    BY <2>1 DEF Box, PerTopic
  <2> QED BY <2>2 DEF PsState, Boxed
<1>5. ASSUME NEW p \in Pairs, due[p] # None PROVE p \in links'
  <2>1. p[2] \in Subs /\ p = <<p[1], p[2]>>
    BY BoxOfPair
  <2>2. p \in links /\ p[1] # t
    BY <1>5, <2>1 DEF PsState, DueThere
  <2> QED BY <2>2 DEF OfTopic
<1> QED BY <1>2, <1>3, <1>4, <1>5, PsOthersChange

(* aws: links or a queue that nobody counts on go, or a queue is made. *)
LEMMA PsLinksGo ==
    ASSUME PsState, backend = "aws", links' \subseteq links, UNCHANGED <<box, due, published, backend>>,
           \A p \in Pairs : due[p] # None => p \in links'
    PROVE  PsState'
<1>1. links' \subseteq (Topics \cup {None}) \X Subs /\ box' \in [Boxes -> BoxStates \cup {None}]
  BY DEF PsState, PubsubTypes
<1> QED BY <1>1, PsOthersChange

LEMMA PsQueueChanges ==
    ASSUME PsState, backend = "aws", NEW s \in Subs, NEW x \in BoxStates \cup {None},
           box' = [box EXCEPT ![Box(None, s)] = x], UNCHANGED <<links, due, published, backend>>,
           box[Box(None, s)] = None \/ \A t \in Topics : due[<<t, s>>] = None
    PROVE  PsState'
<1>0. Box(None, s) \in Boxes
  BY BoxIsOne
<1>1. links' \subseteq (Topics \cup {None}) \X Subs /\ box' \in [Boxes -> BoxStates \cup {None}]
  BY DEF PsState, PubsubTypes
<1>2. ASSUME NEW p \in Pairs, due[p] # None PROVE p \in links' /\ box'[Box(p[1], p[2])] = box[Box(p[1], p[2])]
  <2>1. p[1] \in Topics /\ Box(p[1], p[2]) \in Boxes /\ p = <<p[1], p[2]>>
    BY BoxOfPair
  <2>2. p \in links /\ box[Box(p[1], p[2])] # None
    BY <1>2 DEF PsState, DueThere
  <2>3. Box(p[1], p[2]) # Box(None, s)
    <3>1. CASE p[2] = s
      BY <1>2, <2>1, <2>2, <3>1
    <3>2. CASE p[2] # s
      BY <3>2 DEF Box
    <3> QED BY <3>1, <3>2
  <2> QED BY <1>0, <2>1, <2>2, <2>3 DEF PsState, PubsubTypes
<1> QED BY <1>1, <1>2, PsOthersChange

(* A subscription is made, or made once more, with a box that nobody else uses. *)
LEMMA PsSubMade ==
    ASSUME PsState, NEW t \in Topics, NEW s \in Subs,
           links' = links \cup {<<t, s>>}, box' \in [Boxes -> BoxStates \cup {None}],
           backend \in {"inmem", "gcp"} => ~Taken(s),
           \A a \in Boxes : a # Box(t, s) => box'[a] = box[a],
           box' = box \/ \A q \in Pairs : due[q] # None => Box(q[1], q[2]) # Box(t, s),
           due' = due \/ (due' = [due EXCEPT ![<<t, s>>] = {}] /\ box'[Box(t, s)] # None /\ due[<<t, s>>] = None),
           backend # "aws" => box'[Box(t, s)] # None, UNCHANGED <<published, backend>>
    PROVE  PsState'
<1> DEFINE p == <<t, s>>
<1>0. p \in Pairs /\ Box(t, s) \in Boxes /\ p[1] = t /\ p[2] = s
  BY BoxIsOne DEF Pairs
<1>1. \A x, y : Box(x, y)' = Box(x, y)
  BY BoxStays
<1>2. PubsubTypes'
  <2>1. links' \subseteq (Topics \cup {None}) \X Subs
    BY DEF PsState, PubsubTypes
  <2>2. due' \in [Pairs -> (SUBSET Msgs) \cup {None}]
    BY <1>0 DEF PsState, PubsubTypes
  <2> QED BY <2>1, <2>2 DEF PsState, PubsubTypes
<1>3. OneLink'
  <2> SUFFICES ASSUME backend \in {"inmem", "gcp"}, NEW l \in links', NEW k \in links', l[2] = k[2]
               PROVE  l = k
    BY DEF OneLink
  <2>1. \A j \in links : j[2] # s
    <3> SUFFICES ASSUME NEW j \in links, j[2] = s PROVE FALSE
      OBVIOUS
    <3>1. j[1] \in Topics \cup {None} /\ j = <<j[1], j[2]>>
      BY BoxOfLink DEF PsState
    <3> QED BY <3>1 DEF Taken
  <2> QED BY <1>0, <2>1 DEF PsState, OneLink
<1>4. Boxed'
  <2> SUFFICES ASSUME backend # "aws", NEW l \in links' PROVE box'[Box(l[1], l[2])] # None
    BY <1>1 DEF Boxed
  <2>1. CASE l = p
    BY <1>0, <2>1
  <2>2. CASE l \in links
    <3>1. Box(l[1], l[2]) \in Boxes /\ box[Box(l[1], l[2])] # None
      BY <2>2, BoxOfLink DEF PsState, Boxed
    <3> QED BY <3>1
  <2> QED BY <2>1, <2>2
<1>5. DueThere'
  <2> SUFFICES ASSUME NEW q \in Pairs, due'[q] # None
               PROVE  /\ q \in links' /\ box'[Box(q[1], q[2])] # None
                      /\ due'[q] \subseteq box'[Box(q[1], q[2])].mail \cup box'[Box(q[1], q[2])].out
    BY <1>1 DEF DueThere
  <2>1. CASE due'[q] = due[q] /\ due[q] # None
    <3>1. /\ q \in links /\ box[Box(q[1], q[2])] # None
          /\ due[q] \subseteq box[Box(q[1], q[2])].mail \cup box[Box(q[1], q[2])].out
      BY <2>1 DEF PsState, DueThere
    <3>2. box'[Box(q[1], q[2])] = box[Box(q[1], q[2])]
      BY <2>1, BoxOfPair
    <3> QED BY <2>1, <3>1, <3>2
  <2>2. CASE due'[q] # due[q] \/ due[q] = None
    <3>1. q = p /\ due'[q] = {} /\ box'[Box(t, s)] # None
      BY <1>0, <2>2 DEF PsState, PubsubTypes
    <3> QED BY <1>0, <3>1
  <2> QED BY <2>1, <2>2
<1> QED BY <1>2, <1>3, <1>4, <1>5 DEF PsState

(* A message is published to the subscriptions of the topic. *)
LEMMA PsPublished ==
    ASSUME PsState, NEW t \in Topics, NEW m \in Msgs, NEW B, box' = PublishedTo(t, m, B),
           due' = [p \in Pairs |-> IF p[1] = t /\ due[p] # None /\ Box(p[1], p[2]) \in B
                                  THEN due[p] \cup {m} ELSE due[p]],
           published' \in Nat, UNCHANGED <<links, backend>>
    PROVE  PsState'
<1>1. \A x, y : Box(x, y)' = Box(x, y)
  BY BoxStays
<1>2. ASSUME NEW a \in Boxes
      PROVE  /\ box'[a] \in BoxStates \cup {None} /\ (box[a] # None => box'[a] # None)
             /\ box[a] # None => box[a].mail \cup box[a].out \subseteq box'[a].mail \cup box'[a].out
             /\ box[a] # None /\ a \in B /\ (\E l \in OfTopic(t) : Box(l[1], l[2]) = a) => m \in box'[a].mail
  <2>1. box'[a] = IF box[a] # None /\ a \in B /\ \E l \in OfTopic(t) : Box(l[1], l[2]) = a
                  THEN [box[a] EXCEPT !.mail = @ \cup {m}] ELSE box[a]
    BY DEF PublishedTo
  <2>2. box[a] # None => box[a] \in BoxStates
    BY DEF PsState, PubsubTypes
  <2>3. CASE box[a] # None /\ a \in B /\ \E l \in OfTopic(t) : Box(l[1], l[2]) = a
    <3> DEFINE x == [box[a] EXCEPT !.mail = @ \cup {m}]
    <3>1. x \in BoxStates /\ x.mail = box[a].mail \cup {m} /\ x.out = box[a].out
      BY <2>2, <2>3 DEF BoxStates
    <3>2. box'[a] = x
      BY <2>1, <2>3
    <3> HIDE DEF x
    <3> QED BY <3>1, <3>2, NoneIsNoBox
  <2>4. CASE ~(box[a] # None /\ a \in B /\ \E l \in OfTopic(t) : Box(l[1], l[2]) = a)
    <3>1. box'[a] = box[a]
      BY <2>1, <2>4
    <3> QED BY <2>2, <2>4, <3>1
  <2> QED BY <2>3, <2>4
<1>3. box' \in [Boxes -> BoxStates \cup {None}]
  BY <1>2 DEF PublishedTo
<1>4. due' \in [Pairs -> (SUBSET Msgs) \cup {None}]
  <2> SUFFICES ASSUME NEW p \in Pairs
               PROVE (IF p[1] = t /\ due[p] # None /\ Box(p[1], p[2]) \in B THEN due[p] \cup {m} ELSE due[p])
                       \in (SUBSET Msgs) \cup {None}
    OBVIOUS
  <2>1. due[p] \in (SUBSET Msgs) \cup {None}
    BY DEF PsState, PubsubTypes
  <2> QED BY <2>1
<1>5. PubsubTypes' /\ OneLink'
  BY <1>3, <1>4 DEF PsState, PubsubTypes, OneLink
<1>6. Boxed'
  <2> SUFFICES ASSUME backend # "aws", NEW l \in links PROVE box'[Box(l[1], l[2])] # None
    BY <1>1 DEF Boxed
  <2> QED BY <1>2, BoxOfLink DEF PsState, Boxed
<1>7. DueThere'
  <2> SUFFICES ASSUME NEW q \in Pairs, due'[q] # None
               PROVE  /\ q \in links /\ box'[Box(q[1], q[2])] # None
                      /\ due'[q] \subseteq box'[Box(q[1], q[2])].mail \cup box'[Box(q[1], q[2])].out
    BY <1>1 DEF DueThere
  <2>1. due[q] # None /\ due'[q] = (IF q[1] = t /\ Box(q[1], q[2]) \in B THEN due[q] \cup {m} ELSE due[q])
    OBVIOUS
  <2> DEFINE a == Box(q[1], q[2])
  <2>2. /\ q \in links /\ box[a] # None /\ due[q] \subseteq box[a].mail \cup box[a].out
    BY <2>1 DEF PsState, DueThere
  <2>3. a \in Boxes
    BY BoxOfPair
  <2>4. q[1] = t => \E l \in OfTopic(t) : Box(l[1], l[2]) = a
    BY <2>2 DEF OfTopic
  <2> HIDE DEF a
  <2>5. /\ box'[a] # None /\ due[q] \subseteq box'[a].mail \cup box'[a].out
        /\ q[1] = t /\ a \in B => m \in box'[a].mail
    BY <1>2, <2>2, <2>3, <2>4
  <2> QED BY <2>1, <2>2, <2>5 DEF a
<1> QED BY <1>5, <1>6, <1>7 DEF PsState

(* A message leaves a box that owes it no longer. *)
LEMMA PsMessageGoes ==
    ASSUME PsState, NEW b \in Boxes, NEW m, box[b] # None, box' = BoxWithout(b, m), due' = Owing(b, m),
           UNCHANGED <<links, published, backend>>
    PROVE  PsState' /\ (\A a \in Boxes : box[a] # None => box'[a] # None)
           /\ \A p \in Pairs : due[p] = None => due'[p] = None
<1>1. \A x, y : Box(x, y)' = Box(x, y)
  BY BoxStays
<1>2. box[b] # None /\ box[b] \in BoxStates
  BY DEF PsState, PubsubTypes
<1>3. due' = [p \in Pairs |-> IF due[p] # None /\ Box(p[1], p[2]) = b THEN due[p] \ {m} ELSE due[p]]
  BY DEF Owing
<1> DEFINE x == [box[b] EXCEPT !.mail = @ \ {m}, !.out = @ \ {m}]
<1>4. x \in BoxStates /\ x.mail = box[b].mail \ {m} /\ x.out = box[b].out \ {m}
  BY <1>2 DEF BoxStates
<1>5. box' = [box EXCEPT ![b] = x]
  BY <1>2 DEF BoxWithout, PsState, PubsubTypes
<1> HIDE DEF x
<1>6. /\ box' \in [Boxes -> BoxStates \cup {None}] /\ box'[b] = x /\ x # None
      /\ \A a \in Boxes : a # b => box'[a] = box[a]
  BY <1>4, <1>5, NoneIsNoBox DEF PsState, PubsubTypes
<1>7. due' \in [Pairs -> (SUBSET Msgs) \cup {None}]
  <2> SUFFICES ASSUME NEW p \in Pairs
               PROVE (IF due[p] # None /\ Box(p[1], p[2]) = b THEN due[p] \ {m} ELSE due[p])
                       \in (SUBSET Msgs) \cup {None}
    BY <1>3
  <2>1. due[p] \in (SUBSET Msgs) \cup {None}
    BY DEF PsState, PubsubTypes
  <2> QED BY <2>1
<1>8. PubsubTypes' /\ OneLink'
  BY <1>6, <1>7 DEF PsState, PubsubTypes, OneLink
<1>9. Boxed'
  <2> SUFFICES ASSUME backend # "aws", NEW l \in links PROVE box'[Box(l[1], l[2])] # None
    BY <1>1 DEF Boxed
  <2>1. Box(l[1], l[2]) \in Boxes /\ box[Box(l[1], l[2])] # None
    BY BoxOfLink DEF PsState, Boxed
  <2> QED BY <1>6, <2>1
<1>10. DueThere'
  <2> SUFFICES ASSUME NEW q \in Pairs, due'[q] # None
               PROVE  /\ q \in links /\ box'[Box(q[1], q[2])] # None
                      /\ due'[q] \subseteq box'[Box(q[1], q[2])].mail \cup box'[Box(q[1], q[2])].out
    BY <1>1 DEF DueThere
  <2> DEFINE a == Box(q[1], q[2])
  <2>1. due[q] # None /\ due'[q] = (IF a = b THEN due[q] \ {m} ELSE due[q])
    BY <1>3
  <2>2. /\ q \in links /\ box[a] # None /\ due[q] \subseteq box[a].mail \cup box[a].out
    BY <2>1 DEF PsState, DueThere
  <2>3. a \in Boxes
    BY BoxOfPair
  <2> HIDE DEF a
  <2>4. box'[a] # None /\ due'[q] \subseteq box'[a].mail \cup box'[a].out
    BY <1>4, <1>6, <2>1, <2>2, <2>3
  <2> QED BY <2>2, <2>4 DEF a
<1> QED BY <1>3, <1>6, <1>8, <1>9, <1>10 DEF PsState

-----------------------------------------------------------------------------
(* Steps *)

LEMMA PsEndsSame ==
    ASSUME PsState, PsAsked, NEW c \in Clients, req[c] # Idle, NEW says, Ends(c, says),
           UNCHANGED <<links, box, due, published>>
    PROVE  PsState' /\ PsAsked'
<1>1. PsAsked' /\ backend' = backend
  BY PsEnds
<1> QED BY <1>1, PsStays

LEMMA PsFails ==
    ASSUME PsState, PsAsked, NEW c \in Clients, req[c] # Idle, PubsubFails(c)
    PROVE  PsState' /\ PsAsked'
BY PsEndsSame DEF PubsubFails, Fails, PubsubSame, pubsubVars

LEMMA PsSaysSame ==
    ASSUME PsState, PsAsked, NEW c \in Clients, req[c] # Idle, Ends(c, "ok"), PubsubSame
    PROVE  PsState' /\ PsAsked'
BY PsEndsSame DEF PubsubSame, pubsubVars

LEMMA PsGoesSame ==
    ASSUME PsState, PsAsked, NEW c \in Clients, req[c] # Idle, NEW r \in PsReq, Goes(c, r), PubsubSame,
           r.op = req[c].op, r.op # "createSub",
           r.op = "deleteSub" => r.sub = req[c].sub, r.op = "deleteTopic" => r.topic = req[c].topic
    PROVE  PsState' /\ PsAsked'
<1>1. UNCHANGED <<links, box, due, published>>
  BY DEF PubsubSame, pubsubVars
<1>2. PsAsked' /\ backend' = backend
  BY <1>1, PsGoes
<1> QED BY <1>1, <1>2, PsStays

LEMMA PsAsksPlain ==
    ASSUME PsState, PsAsked, NEW c \in Clients, NEW r \in PsReq, AsksPlain(c, r),
           r.at # "subscribe", r.op \notin {"deleteSub", "deleteTopic"}
    PROVE  PsState' /\ PsAsked'
<1>1. Begin(c, r) /\ UNCHANGED <<links, box, published, due>>
  BY DEF AsksPlain, Asked
<1>2. PsAsked' /\ backend' = backend
  BY <1>1, PsBegins
<1> QED BY <1>1, <1>2, PsStays

LEMMA PsDeletesTopic ==
    ASSUME PsState, PsAsked, NEW c \in Clients, NEW t \in Topics, DeletesTopic(c, t)
    PROVE  PsState' /\ PsAsked'
<1> DEFINE r == DeleteTopicReq(t)
           P == {t} \X Subs
<1>1. Begin(c, r) /\ UNCHANGED <<links, box, published>> /\ due' = Unpromised(P)
  BY DEF DeletesTopic, Asked
<1>2. r \in PsReq /\ r.at # "subscribe" /\ r.op = "deleteTopic" /\ r.topic = t
  BY DEF DeleteTopicReq, PsReq, PsDropReqs
<1>3. \A p \in Pairs : due[p] = None => due'[p] = None
  BY <1>1 DEF Unpromised
<1>4. \A s \in Subs : due'[<<t, s>>] = None
  BY <1>1 DEF Unpromised, Pairs
<1> HIDE DEF r, P
<1>5. PsAsked' /\ backend' = backend
  BY <1>1, <1>2, <1>3, <1>4, PsBegins
<1> QED BY <1>1, <1>5, PsLessDue

LEMMA PsDeletesSub ==
    ASSUME PsState, PsAsked, NEW c \in Clients, NEW s \in Subs, DeletesSub(c, s)
    PROVE  PsState' /\ PsAsked'
<1> DEFINE r == DeleteSubReq(s)
           P == Topics \X {s}
<1>1. Begin(c, r) /\ UNCHANGED <<links, box, published>> /\ due' = Unpromised(P)
  BY DEF DeletesSub, Asked
<1>2. r \in PsReq /\ r.at # "subscribe" /\ r.op = "deleteSub" /\ r.sub = s
  BY DEF DeleteSubReq, PsReq, PsNamedReqs
<1>3. \A p \in Pairs : due[p] = None => due'[p] = None
  BY <1>1 DEF Unpromised
<1>4. \A t \in Topics : due'[<<t, s>>] = None
  BY <1>1 DEF Unpromised, Pairs
<1> HIDE DEF r, P
<1>5. PsAsked' /\ backend' = backend
  BY <1>1, <1>2, <1>3, <1>4, PsBegins
<1> QED BY <1>1, <1>5, PsLessDue

LEMMA PsSubscribes ==
    ASSUME PsState, PsAsked, NEW c \in Clients, NEW t \in Topics, NEW s \in Subs, NEW idem \in BOOLEAN,
           Subscribes(c, t, s, idem)
    PROVE  PsState' /\ PsAsked'
<1> DEFINE r == CreateSubReq(t, s, idem)
<1>1. Begin(c, r) /\ UNCHANGED <<links, box, published, due>>
  BY DEF Subscribes, Asked
<1>2. r \in PsReq /\ r.at # "subscribe" /\ r.op = "createSub"
  BY DEF CreateSubReq, PsReq, PsSubReqs
<1> HIDE DEF r
<1>3. PsAsked' /\ backend' = backend
  BY <1>1, <1>2, PsBegins
<1> QED BY <1>1, <1>3, PsStays

LEMMA PsHandles ==
    ASSUME PsState, NEW b \in Boxes PROVE Handles(b) \subseteq Handle
<1>1. CASE box[b] = None
  BY <1>1 DEF Handles
<1>2. CASE box[b] # None
  <2>1. box[b] \in BoxStates
    BY <1>2 DEF PsState, PubsubTypes
  <2>2. \A m \in Msgs : box[b].cnt[m] \in Nat
    BY <2>1 DEF BoxStates
  <2>3. Handles(b) = UNION {{m} \X (1..box[b].cnt[m]) : m \in Msgs}
    BY <1>2 DEF Handles, Deliveries
  <2> QED BY <2>2, <2>3 DEF Handle
<1> QED BY <1>1, <1>2

LEMMA PsRequestsKeep ==
    ASSUME PsState, PsAsked, NEW c \in Clients, PubsubRequests(c)
    PROVE  PsState' /\ PsAsked'
<1>1. CASE SnsCreateTopic(c) \/ GcpCreateTopicFront(c)
  <2>1. PICK t \in Topics, idem \in BOOLEAN : AsksPlain(c, CreateTopicReq(t, idem))
    BY <1>1 DEF SnsCreateTopic, GcpCreateTopicFront
  <2>2. CreateTopicReq(t, idem) \in PsReq
    BY DEF CreateTopicReq, PsReq, PsTopicReqs
  <2> QED BY <2>1, <2>2, PsAsksPlain DEF CreateTopicReq
<1>2. CASE SnsDeleteTopic(c) \/ SnsUnsubscribe(c)
  BY <1>2, PsDeletesTopic, PsDeletesSub DEF SnsDeleteTopic, SnsUnsubscribe
<1>3. CASE SnsSubscribe(c) \/ GcpCreateSubFront(c)
  BY <1>3, PsSubscribes DEF SnsSubscribe, GcpCreateSubFront
<1>4. CASE SnsPublish(c) \/ GcpPublishFront(c)
  <2>1. PICK t \in Topics, n \in Nat : AsksPlain(c, PublishReq(t, n))
    <3>1. CASE SnsPublish(c)
      BY <3>1 DEF SnsPublish
    <3>2. CASE GcpPublishFront(c)
      BY <3>2 DEF GcpPublishFront
    <3> QED BY <1>4, <3>1, <3>2
  <2>2. PublishReq(t, n) \in PsReq
    BY DEF PublishReq, PsReq, PsPublishReqs
  <2> QED BY <2>1, <2>2, PsAsksPlain DEF PublishReq
<1>5. CASE SqsReceiveMessage(c)
  <2>1. PICK s \in Subs : AsksPlain(c, ReceiveReq(s))
    BY <1>5 DEF SqsReceiveMessage
  <2>2. ReceiveReq(s) \in PsReq
    BY DEF ReceiveReq, PsReq, PsNamedReqs
  <2> QED BY <2>1, <2>2, PsAsksPlain DEF ReceiveReq
<1>6. CASE SqsDeleteMessage(c) \/ GcpAcknowledge(c)
  <2>1. PICK b \in Boxes, hs \in SUBSET Handle : AsksPlain(c, AckReq(b, hs))
    <3>1. CASE SqsDeleteMessage(c)
      <4>1. PICK b \in Boxes : \E h \in Handles(b) : AsksPlain(c, AckReq(b, {h}))
        BY <3>1 DEF SqsDeleteMessage
      <4>2. PICK h \in Handles(b) : AsksPlain(c, AckReq(b, {h}))
        BY <4>1
      <4>3. {h} \in SUBSET Handle
        BY <4>2, PsHandles
      <4> QED BY <4>2, <4>3
    <3>2. CASE GcpAcknowledge(c)
      <4>1. PICK b \in Boxes : \E hs \in SUBSET Handles(b) : hs # {} /\ AsksPlain(c, AckReq(b, hs))
        BY <3>2 DEF GcpAcknowledge
      <4> QED BY <4>1, PsHandles
    <3> QED BY <1>6, <3>1, <3>2
  <2>2. AckReq(b, hs) \in PsReq
    BY DEF AckReq, PsReq, PsAckReqs
  <2> QED BY <2>1, <2>2, PsAsksPlain DEF AckReq
<1>7. CASE SqsChangeVisibility(c) \/ AzureRenewLock(c)
  <2>1. PICK b \in Boxes : \E h \in Handles(b), zero \in BOOLEAN, at \in {"first", "head"} :
           AsksPlain(c, VisibilityReq(at, b, h, zero))
    BY <1>7 DEF SqsChangeVisibility, AzureRenewLock
  <2>2. PICK h \in Handles(b), zero \in BOOLEAN, at \in {"first", "head"} :
           AsksPlain(c, VisibilityReq(at, b, h, zero))
    BY <2>1
  <2>3. VisibilityReq(at, b, h, zero) \in PsReq
    <3>1. {h} \in SUBSET Handle
      BY <2>2, PsHandles
    <3> QED BY <3>1 DEF VisibilityReq, PsReq, PsVisibilityReqs
  <2> QED BY <2>2, <2>3, PsAsksPlain DEF VisibilityReq
<1> QED BY <1>1, <1>2, <1>3, <1>4, <1>5, <1>6, <1>7 DEF PubsubRequests

(* Topics *)
LEMMA PsTopicsKeep ==
    ASSUME PsState, PsAsked, NEW c \in Clients, req[c] # Idle,
           \/ InmemCreateTopic(c) \/ NatsCreateTopic(c) \/ AwsCreateTopic(c) \/ GcpCreateTopic(c)
           \/ AzureCreateTopic(c)
           \/ InmemDeleteTopic(c) \/ NatsDeleteTopic(c) \/ AzureDeleteTopic(c) \/ GcpDeleteTopic(c)
           \/ AwsDeleteTopic(c)
    PROVE  PsState' /\ PsAsked'
<1>1. CASE \/ InmemCreateTopic(c) \/ NatsCreateTopic(c) \/ AwsCreateTopic(c) \/ GcpCreateTopic(c)
           \/ AzureCreateTopic(c)
  <2>1. PubsubFails(c) \/ (Ends(c, "ok") /\ UNCHANGED <<links, box, due, published>>)
    BY <1>1 DEF InmemCreateTopic, NatsCreateTopic, AwsCreateTopic, GcpCreateTopic, AzureCreateTopic,
       TopicMade, TopicExists, Says, PubsubSame, pubsubVars
  <2> QED BY <2>1, PsFails, PsEndsSame
<1>2. CASE \/ InmemDeleteTopic(c) \/ NatsDeleteTopic(c) \/ AzureDeleteTopic(c) \/ GcpDeleteTopic(c)
           \/ AwsDeleteTopic(c)
  <2> DEFINE t == req[c].topic
  <2>1. req[c].op = "deleteTopic"
    BY <1>2 DEF InmemDeleteTopic, NatsDeleteTopic, AzureDeleteTopic, GcpDeleteTopic, AwsDeleteTopic, Is
  <2>2. t \in Topics
    BY <2>1, PsReqKinds DEF PsAsked, PsDropReqs
  <2>3. \A s \in Subs : due[<<t, s>>] = None
    BY <2>1 DEF PsAsked, Withdrawn
  <2>4. \A p \in Pairs : due[p] # None => p \in links /\ p[1] # t
    <3> SUFFICES ASSUME NEW p \in Pairs, due[p] # None PROVE p \in links /\ p[1] # t
      OBVIOUS
    <3>1. p[2] \in Subs /\ p = <<p[1], p[2]>>
      BY BoxOfPair
    <3> QED BY <2>3, <3>1 DEF PsState, DueThere
  <2>5. CASE PubsubFails(c)
    BY <2>5, PsFails
  <2>6. CASE ~PubsubFails(c)
    <3>1. Ends(c, "ok") /\ due' = due /\ published' = published
      BY <1>2, <2>6 DEF InmemDeleteTopic, NatsDeleteTopic, AzureDeleteTopic, GcpDeleteTopic, AwsDeleteTopic,
         TopicGone, Says
    <3>2. PsAsked' /\ backend' = backend
      BY <3>1, PsEnds
    <3>3. CASE InmemDeleteTopic(c) \/ NatsDeleteTopic(c) \/ AzureDeleteTopic(c)
      <4>1. /\ links' = links \ OfTopic(t) /\ backend \in {"inmem", "nats", "azure"}
            /\ box' = [b \in Boxes |-> IF \E l \in OfTopic(t) : b = Box(l[1], l[2]) THEN None ELSE box[b]]
        BY <2>6, <3>3 DEF InmemDeleteTopic, NatsDeleteTopic, AzureDeleteTopic, TopicGone, Is
      <4> HIDE DEF t
      <4> QED BY <2>2, <2>3, <3>1, <3>2, <4>1, PsTopicGone
    <3>4. CASE GcpDeleteTopic(c)
      <4>1. /\ links' = (links \ OfTopic(t)) \cup {<<None, l[2]>> : l \in OfTopic(t)}
            /\ backend = "gcp" /\ box' = box
        BY <2>6, <3>4 DEF GcpDeleteTopic, Is
      <4> HIDE DEF t
      <4> QED BY <2>2, <2>3, <3>1, <3>2, <4>1, PsTopicLost
    <3>5. CASE AwsDeleteTopic(c)
      <4>1. links' = links \ OfTopic(t) /\ backend = "aws" /\ box' = box
        BY <3>5 DEF AwsDeleteTopic, Is
      <4>2. links' \subseteq links /\ \A p \in Pairs : due[p] # None => p \in links'
        BY <2>4, <4>1 DEF OfTopic
      <4> HIDE DEF t
      <4> QED BY <3>1, <3>2, <4>1, <4>2, PsLinksGo
    <3> QED BY <1>2, <3>3, <3>4, <3>5
  <2> QED BY <2>5, <2>6
<1> QED BY <1>1, <1>2

(* CreateSubscription *)
LEMMA PsSubMadeKeeps ==
    ASSUME PsState, PsAsked, NEW c \in Clients, req[c] # Idle, req[c].op = "createSub", NEW b, SubMade(c, b),
           b \in [Boxes -> BoxStates \cup {None}],
           backend \in {"inmem", "gcp"} => ~Taken(req[c].sub),
           \A a \in Boxes : a # Box(req[c].topic, req[c].sub) => b[a] = box[a],
           b = box \/ \A q \in Pairs : due[q] # None => Box(q[1], q[2]) # Box(req[c].topic, req[c].sub),
           backend # "aws" \/ alone = c => b[Box(req[c].topic, req[c].sub)] # None
    PROVE  PsState' /\ PsAsked'
<1> DEFINE t == req[c].topic
           s == req[c].sub
<1>1. t \in Topics /\ s \in Subs
  BY PsReqKinds DEF PsAsked, PsSubReqs
<1>2. /\ links' = links \cup {<<t, s>>} /\ box' = b /\ Ends(c, "ok") /\ published' = published
      /\ due' = Promised(c, <<t, s>>)
  BY DEF SubMade, Says
<1>3. due' = due \/ (due' = [due EXCEPT ![<<t, s>>] = {}] /\ alone = c /\ due[<<t, s>>] = None)
  BY <1>2 DEF Promised
<1>4. PsAsked' /\ backend' = backend
  BY <1>2, <1>3, PsEnds
<1> HIDE DEF t, s
<1>5. due' = due \/ (due' = [due EXCEPT ![<<t, s>>] = {}] /\ box'[Box(t, s)] # None /\ due[<<t, s>>] = None)
  BY <1>2, <1>3 DEF t, s
<1>6. /\ backend \in {"inmem", "gcp"} => ~Taken(s)
      /\ \A a \in Boxes : a # Box(t, s) => box'[a] = box[a]
      /\ box' = box \/ \A q \in Pairs : due[q] # None => Box(q[1], q[2]) # Box(t, s)
      /\ backend # "aws" => box'[Box(t, s)] # None
      /\ box' \in [Boxes -> BoxStates \cup {None}]
  BY <1>2 DEF t, s
<1>7. PsState'
  BY <1>1, <1>2, <1>4, <1>5, <1>6, PsSubMade
<1> QED BY <1>4, <1>7

LEMMA PsSubsMade ==
    ASSUME PsState, PsAsked, NEW c \in Clients, req[c] # Idle,
           \/ InmemCreateSub(c) \/ GcpCreateSub(c) \/ NatsCreateSub(c) \/ AzureCreateSub(c)
           \/ AwsCreateSubQueue(c) \/ AwsCreateSubSubscribe(c)
    PROVE  PsState' /\ PsAsked'
<1> DEFINE t == req[c].topic
           s == req[c].sub
           n == WithBox(t, s)
<1>1. req[c].op = "createSub" /\ req[c] \in PsSubReqs
  <2>1. req[c].op = "createSub"
    BY DEF InmemCreateSub, GcpCreateSub, NatsCreateSub, AzureCreateSub, AwsCreateSubQueue,
       AwsCreateSubSubscribe, Is
  <2> QED BY <2>1, PsReqKinds DEF PsAsked
<1>2. t \in Topics /\ s \in Subs /\ <<t, s>> \in Pairs
  BY <1>1 DEF PsSubReqs, Pairs
<1>3. Box(t, s) \in Boxes /\ NewBox \in BoxStates /\ NewBox # None
  BY <1>2, BoxIsOne, NoneIsNoBox DEF NewBox, BoxStates
<1>4. /\ n \in [Boxes -> BoxStates \cup {None}] /\ n[Box(t, s)] = NewBox
      /\ \A a \in Boxes : a # Box(t, s) => n[a] = box[a]
  BY <1>3 DEF WithBox, PsState, PubsubTypes
<1>5. CASE PubsubFails(c)
  BY <1>5, PsFails
<1>6. CASE Ends(c, "ok") /\ PubsubSame
  BY <1>6, PsSaysSame
<1>7. CASE (InmemCreateSub(c) \/ GcpCreateSub(c)) /\ ~PubsubFails(c) /\ ~(Ends(c, "ok") /\ PubsubSame)
  <2>1. ~Taken(s) /\ SubMade(c, n) /\ backend \in {"inmem", "gcp"}
    BY <1>7 DEF InmemCreateSub, GcpCreateSub, SubExists, Is
  <2>2. ASSUME NEW q \in Pairs, due[q] # None PROVE Box(q[1], q[2]) # Box(t, s)
    <3>1. q \in links /\ q = <<q[1], q[2]>> /\ q[1] \in Topics
      BY <2>2, BoxOfPair DEF PsState, DueThere
    <3>2. q[2] # s
      BY <2>1, <3>1 DEF Taken
    <3> QED BY <3>2 DEF Box
  <2> HIDE DEF n
  <2> QED BY <1>1, <1>3, <1>4, <2>1, <2>2, PsSubMadeKeeps
<1>8. CASE (NatsCreateSub(c) \/ AzureCreateSub(c)) /\ ~PubsubFails(c) /\ ~(Ends(c, "ok") /\ PubsubSame)
  <2>1. /\ backend \in {"nats", "azure"}
        /\ \/ <<t, s>> \in links /\ SubMade(c, box)
           \/ <<t, s>> \notin links /\ SubMade(c, n)
    BY <1>8 DEF NatsCreateSub, AzureCreateSub, SubExists, Is
  <2>2. CASE <<t, s>> \in links /\ SubMade(c, box)
    <3>1. box[Box(t, s)] # None /\ box \in [Boxes -> BoxStates \cup {None}]
      BY <2>1, <2>2 DEF PsState, Boxed, PubsubTypes
    <3> QED BY <1>1, <2>1, <2>2, <3>1, PsSubMadeKeeps
  <2>3. CASE <<t, s>> \notin links /\ SubMade(c, n)
    <3>1. ASSUME NEW q \in Pairs, due[q] # None PROVE Box(q[1], q[2]) # Box(t, s)
      <4>1. q \in links /\ q = <<q[1], q[2]>>
        BY <3>1, BoxOfPair DEF PsState, DueThere
      <4> QED BY <2>1, <2>3, <4>1 DEF Box, PerTopic
    <3> HIDE DEF n
    <3> QED BY <1>1, <1>3, <1>4, <2>1, <2>3, <3>1, PsSubMadeKeeps
  <2> QED BY <2>1, <2>2, <2>3
<1>9. CASE AwsCreateSubQueue(c)
  <2> DEFINE r == [req[c] EXCEPT !.at = "subscribe"]
  <2>1. /\ backend = "aws" /\ UNCHANGED <<links, published, due>> /\ Goes(c, r)
        /\ box' = IF box[Box(t, s)] = None THEN [box EXCEPT ![Box(t, s)] = NewBox] ELSE box
    BY <1>9 DEF AwsCreateSubQueue, Is
  <2>2. r \in PsReq /\ r.op = "createSub" /\ r.topic = t /\ r.sub = s
    BY <1>1 DEF PsSubReqs, PsReq
  <2>3. box'[Box(t, s)] # None
    BY <1>3, <2>1 DEF PsState, PubsubTypes
  <2> HIDE DEF r
  <2>4. PsAsked' /\ backend' = backend
    BY <1>1, <2>1, <2>2, <2>3, PsGoes
  <2>5. Box(t, s) = Box(None, s)
    BY <2>1 DEF Box, PerTopic
  <2> HIDE DEF t, s
  <2>6. CASE box[Box(t, s)] = None
    BY <1>2, <1>3, <2>1, <2>4, <2>5, <2>6, PsQueueChanges
  <2>7. CASE box[Box(t, s)] # None
    BY <2>1, <2>4, <2>7, PsStays
  <2> QED BY <2>4, <2>6, <2>7
<1>10. CASE AwsCreateSubSubscribe(c) /\ ~PubsubFails(c)
  <2>1. backend = "aws" /\ SubMade(c, box) /\ req[c].at = "subscribe"
    BY <1>10 DEF AwsCreateSubSubscribe, SubscribeFails, Is
  <2>2. alone = c => box[Box(t, s)] # None
    BY <1>1, <2>1 DEF PsAsked, QueueMade
  <2>3. box \in [Boxes -> BoxStates \cup {None}]
    BY DEF PsState, PubsubTypes
  <2> QED BY <1>1, <2>1, <2>2, <2>3, PsSubMadeKeeps
<1> QED BY <1>5, <1>6, <1>7, <1>8, <1>9, <1>10

(* DeleteSubscription, and the look for a topic that goes before a call *)
LEMMA PsFinds ==
    ASSUME PsState, PsAsked, NEW c \in Clients, req[c] \in PsNamedReqs,
           NEW at \in {"first", "found", "unsubscribe", "queue"},
           \/ FindTopicForSubscription(c, at)
           \/ PubsubGoes(c, at)
           \/ \E l \in links : Goes(c, [req[c] EXCEPT !.at = at, !.topic = l[1]]) /\ PubsubSame
           \/ PubsubFails(c)
    PROVE  PsState' /\ PsAsked'
<1>0. req[c] # Idle
  BY PsReqNotIdle DEF PsReq
<1>1. CASE PubsubFails(c)
  BY <1>0, <1>1, PsFails
<1>2. CASE PubsubGoes(c, at)
  <2> DEFINE r == [req[c] EXCEPT !.at = at]
  <2>1. r \in PsReq /\ r.op = req[c].op /\ r.sub = req[c].sub /\ r.topic = req[c].topic /\ r.op # "createSub"
    BY DEF PsNamedReqs, PsReq
  <2>2. Goes(c, r) /\ PubsubSame
    BY <1>2 DEF PubsubGoes
  <2> HIDE DEF r
  <2> QED BY <1>0, <2>1, <2>2, PsGoesSame
<1>3. CASE \E l \in links : Goes(c, [req[c] EXCEPT !.at = at, !.topic = l[1]]) /\ PubsubSame
  <2>0. PICK l \in links : Goes(c, [req[c] EXCEPT !.at = at, !.topic = l[1]]) /\ PubsubSame
    BY <1>3
  <2> DEFINE r == [req[c] EXCEPT !.at = at, !.topic = l[1]]
  <2>1. l[1] \in Topics \cup {None}
    BY <2>0, BoxOfLink DEF PsState
  <2>2. r \in PsReq /\ r.op = req[c].op /\ r.sub = req[c].sub /\ r.op \notin {"createSub", "deleteTopic"}
    BY <2>1 DEF PsNamedReqs, PsReq
  <2> HIDE DEF r
  <2> QED BY <1>0, <2>0, <2>2, PsGoesSame DEF r
<1>4. CASE \E t \in Topics : Goes(c, [req[c] EXCEPT !.at = at, !.topic = t]) /\ PubsubSame
  <2>0. PICK t \in Topics : Goes(c, [req[c] EXCEPT !.at = at, !.topic = t]) /\ PubsubSame
    BY <1>4
  <2> DEFINE r == [req[c] EXCEPT !.at = at, !.topic = t]
  <2>1. r \in PsReq /\ r.op = req[c].op /\ r.sub = req[c].sub /\ r.op \notin {"createSub", "deleteTopic"}
    BY <2>0 DEF PsNamedReqs, PsReq
  <2> HIDE DEF r
  <2> QED BY <1>0, <2>0, <2>1, PsGoesSame DEF r
<1> QED BY <1>1, <1>2, <1>3, <1>4 DEF FindTopicForSubscription

LEMMA PsSubGoneKeeps ==
    ASSUME PsState, PsAsked, NEW c \in Clients, req[c] # Idle, req[c].op = "deleteSub",
           NEW l \in links, l[2] = req[c].sub, SubGone(c, l), backend \in {"inmem", "gcp", "nats", "azure"}
    PROVE  PsState' /\ PsAsked'
<1>1. /\ links' = links \ {l} /\ box' = [box EXCEPT ![Box(l[1], l[2])] = None]
      /\ Ends(c, "ok") /\ UNCHANGED <<due, published>>
  BY DEF SubGone, Says
<1>2. PsAsked' /\ backend' = backend
  BY <1>1, PsEnds
<1>3. \A t \in Topics : due[<<t, l[2]>>] = None
  BY DEF PsAsked, Withdrawn
<1> QED BY <1>1, <1>2, <1>3, PsSubGone

LEMMA PsSubsGone ==
    ASSUME PsState, PsAsked, NEW c \in Clients, req[c] # Idle,
           \/ InmemDeleteSub(c) \/ GcpDeleteSub(c) \/ NatsDeleteSub(c)
           \/ AzureDeleteSubFind(c) \/ AzureDeleteSub(c)
           \/ AwsDeleteSubList(c) \/ AwsDeleteSubUnsubscribe(c) \/ AwsDeleteSubQueue(c)
    PROVE  PsState' /\ PsAsked'
<1>1. req[c].op = "deleteSub"
  BY DEF InmemDeleteSub, GcpDeleteSub, NatsDeleteSub, AzureDeleteSubFind, AzureDeleteSub,
     AwsDeleteSubList, AwsDeleteSubUnsubscribe, AwsDeleteSubQueue, Is
<1>2. req[c] \in PsNamedReqs
  BY <1>1, PsReqKinds DEF PsAsked
<1>3. \A t \in Topics : due[<<t, req[c].sub>>] = None
  BY <1>1 DEF PsAsked, Withdrawn
<1>4. CASE PubsubFails(c)
  BY <1>4, PsFails
<1>5. CASE (InmemDeleteSub(c) \/ GcpDeleteSub(c) \/ NatsDeleteSub(c) \/ AzureDeleteSub(c)) /\ ~PubsubFails(c)
  <2>1. backend \in {"inmem", "gcp", "nats", "azure"} /\ \E l \in links : l[2] = req[c].sub /\ SubGone(c, l)
    BY <1>5 DEF InmemDeleteSub, GcpDeleteSub, NatsDeleteSub, AzureDeleteSub, Is
  <2> QED BY <1>1, <2>1, PsSubGoneKeeps
<1>6. CASE AzureDeleteSubFind(c)
  BY <1>2, <1>6, PsFinds DEF AzureDeleteSubFind
<1>7. CASE AwsDeleteSubList(c)
  BY <1>2, <1>7, PsFinds DEF AwsDeleteSubList
<1>8. CASE AwsDeleteSubUnsubscribe(c)
  <2> DEFINE r == [req[c] EXCEPT !.at = "queue"]
  <2>1. /\ backend = "aws" /\ links' = links \ {<<req[c].topic, req[c].sub>>} /\ Goes(c, r)
        /\ UNCHANGED <<box, published, due>>
    BY <1>8 DEF AwsDeleteSubUnsubscribe, Is
  <2>2. r \in PsReq /\ r.op = "deleteSub" /\ r.sub = req[c].sub
    BY <1>1, <1>2 DEF PsNamedReqs, PsReq
  <2> HIDE DEF r
  <2>3. PsAsked' /\ backend' = backend
    BY <1>1, <2>1, <2>2, PsGoes
  <2>4. \A p \in Pairs : due[p] # None => p \in links'
    <3> SUFFICES ASSUME NEW p \in Pairs, due[p] # None PROVE p \in links'
      OBVIOUS
    <3>1. p[1] \in Topics /\ p = <<p[1], p[2]>> /\ p \in links
      BY BoxOfPair DEF PsState, DueThere
    <3> QED BY <1>3, <2>1, <3>1
  <2> QED BY <2>1, <2>3, <2>4, PsLinksGo
<1>9. CASE AwsDeleteSubQueue(c) /\ ~PubsubFails(c)
  <2>1. /\ backend = "aws" /\ box' = [box EXCEPT ![Box(None, req[c].sub)] = None]
        /\ UNCHANGED <<links, due, published>> /\ Ends(c, "ok")
    BY <1>9 DEF AwsDeleteSubQueue, Is, Says
  <2>2. PsAsked' /\ backend' = backend
    BY <2>1, PsEnds
  <2>3. req[c].sub \in Subs
    BY <1>2 DEF PsNamedReqs
  <2> QED BY <1>3, <2>1, <2>2, <2>3, PsQueueChanges
<1> QED BY <1>4, <1>5, <1>6, <1>7, <1>8, <1>9

(* Publish *)
LEMMA PsPublishes ==
    ASSUME PsState, PsAsked, NEW c \in Clients, req[c] # Idle, req[c].op = "publish",
           NEW B, PublishesNext(c, B)
    PROVE  PsState' /\ PsAsked'
<1> DEFINE t == req[c].topic
           m == published + 1
           r == [req[c] EXCEPT !.left = @ - 1]
<1>1. req[c] \in PsPublishReqs /\ t \in Topics
  BY PsReqKinds DEF PsAsked, PsPublishReqs
<1>2. CASE PubsubFails(c)
  BY <1>2, PsFails
<1>3. CASE ~PubsubFails(c)
  <2>1. /\ m <= MaxMsgs /\ published' = m /\ box' = PublishedTo(t, m, B) /\ links' = links
        /\ due' = [p \in Pairs |-> IF p[1] = t /\ due[p] # None /\ Box(p[1], p[2]) \in B
                                  THEN due[p] \cup {m} ELSE due[p]]
        /\ (req[c].left > 1 /\ Goes(c, r)) \/ Ends(c, "ok")
    BY <1>3 DEF PublishesNext
  <2>2. m \in Msgs /\ m \in Nat
    BY <2>1 DEF Msgs, PsState, PubsubTypes
  <2>3. \A p \in Pairs : due[p] = None => due'[p] = None
    BY <2>1
  <2>4. PsAsked' /\ backend' = backend
    <3>1. CASE Ends(c, "ok")
      BY <2>3, <3>1, PsEnds
    <3>2. CASE req[c].left > 1 /\ Goes(c, r)
      <4>1. r \in PsReq /\ r.op = "publish"
        BY <1>1, <3>2 DEF PsPublishReqs, PsReq
      <4> HIDE DEF r
      <4> QED BY <2>3, <3>2, <4>1, PsGoes
    <3> QED BY <2>1, <3>1, <3>2
  <2> HIDE DEF t, m
  <2> QED BY <1>1, <2>1, <2>2, <2>4, PsPublished
<1> QED BY <1>2, <1>3

(* Receive *)
LEMMA PsReceives ==
    ASSUME PsState, PsAsked, NEW c \in Clients, req[c] # Idle,
           \/ InmemReceive(c) \/ GcpReceive(c) \/ AwsReceive(c) \/ NatsReceiveFind(c) \/ NatsReceive(c)
           \/ AzureReceiveFind(c) \/ AzureReceive(c)
    PROVE  PsState' /\ PsAsked'
<1>1. req[c].op = "receive"
  BY DEF InmemReceive, GcpReceive, AwsReceive, NatsReceiveFind, NatsReceive, AzureReceiveFind,
     AzureReceive, Is
<1>2. req[c] \in PsNamedReqs /\ req[c].sub \in Subs /\ req[c].topic \in Topics \cup {None}
  BY <1>1, PsReqKinds DEF PsAsked, PsNamedReqs
<1>3. CASE NatsReceiveFind(c) \/ AzureReceiveFind(c)
  BY <1>2, <1>3, PsFinds DEF NatsReceiveFind, AzureReceiveFind
<1>4. CASE PubsubFails(c)
  BY <1>4, PsFails
<1>5. ASSUME NEW b \in Boxes, box[b] # None, NEW late \in SUBSET box[b].out,
             NEW got \in Deliverable(box[b], late), box' = [box EXCEPT ![b] = Leased(@, late, got)],
             UNCHANGED <<topics, links, due>>, Says(c)
      PROVE  PsState' /\ PsAsked'
  <2>1. PsAsked' /\ backend' = backend /\ published' = published
    BY <1>5, PsEnds DEF Says
  <2>2. got \in SUBSET (box[b].mail \cup late)
    BY DEF Deliverable
  <2> QED BY <1>5, <2>1, <2>2, PsLeases
<1>6. ASSUME NEW b \in Boxes, Receives(c, b) PROVE PsState' /\ PsAsked'
  <2>1. CASE box[b] = None
    BY <1>6, <2>1, PsFails DEF Receives
  <2>2. CASE box[b] # None
    BY <1>5, <1>6, <2>2 DEF Receives
  <2> QED BY <2>1, <2>2
<1>7. CASE InmemReceive(c)
  <2> DEFINE b == Box(None, req[c].sub)
  <2>1. b \in Boxes
    BY <1>2, BoxIsOne
  <2>2. IF box[b] = None THEN PubsubFails(c)
        ELSE \E late \in SUBSET box[b].out : \E got \in Deliverable(box[b], late) :
               /\ box' = [box EXCEPT ![b] = Leased(@, late, got)]
               /\ UNCHANGED <<topics, links, due>>
               /\ Says(c)
    BY <1>7 DEF InmemReceive
  <2> HIDE DEF b
  <2> QED BY <1>5, <2>1, <2>2, PsFails
<1>8. CASE GcpReceive(c) \/ AwsReceive(c)
  <2>1. Box(None, req[c].sub) \in Boxes
    BY <1>2, BoxIsOne
  <2> QED BY <1>6, <1>8, <2>1 DEF GcpReceive, AwsReceive
<1>9. CASE NatsReceive(c) \/ AzureReceive(c)
  <2>1. <<req[c].topic, req[c].sub>> \in Boxes
    BY <1>2 DEF Boxes
  <2> QED BY <1>6, <1>9, <2>1 DEF NatsReceive, AzureReceive
<1> QED BY <1>3, <1>7, <1>8, <1>9

(* A step of the service alone takes no box away and promises nothing. *)
LEMMA PsServiceSteps ==
    ASSUME PsState, PsAsked, UNCHANGED <<links, published, backend, req, alone>>,
           \A a \in Boxes : box[a] # None => box'[a] # None,
           \A p \in Pairs : due[p] = None => due'[p] = None
    PROVE  PsAsked'
<1>1. PubsubReqs'
  BY DEF PsAsked, PubsubReqs
<1>2. Withdrawn'
  <2> SUFFICES ASSUME NEW c \in Clients
               PROVE  /\ req[c].op = "deleteSub" => \A t \in Topics : due'[<<t, req[c].sub>>] = None
                      /\ req[c].op = "deleteTopic" => \A s \in Subs : due'[<<req[c].topic, s>>] = None
    BY DEF Withdrawn
  <2>1. req[c].op \in {"deleteSub", "deleteTopic"} => req[c] # Idle
    BY DEF Idle
  <2>2. CASE req[c].op = "deleteSub"
    <3>1. req[c].sub \in Subs
      BY <2>1, <2>2, PsReqKinds DEF PsAsked, PsNamedReqs
    <3> QED BY <2>2, <3>1 DEF PsAsked, Withdrawn, Pairs
  <2>3. CASE req[c].op = "deleteTopic"
    <3>1. req[c].topic \in Topics
      BY <2>1, <2>3, PsReqKinds DEF PsAsked, PsDropReqs
    <3> QED BY <2>3, <3>1 DEF PsAsked, Withdrawn, Pairs
  <2> QED BY <2>2, <2>3
<1>3. QueueMade'
  <2> SUFFICES ASSUME NEW c \in Clients, alone = c, req[c].op = "createSub", req[c].at = "subscribe"
               PROVE  box'[Box(req[c].topic, req[c].sub)] # None
    BY DEF QueueMade, Box, PerTopic
  <2>1. box[Box(req[c].topic, req[c].sub)] # None
    BY DEF PsAsked, QueueMade
  <2>2. req[c] # Idle
    BY DEF Idle
  <2>3. Box(req[c].topic, req[c].sub) \in Boxes
    BY <2>2, PsReqKinds, BoxIsOne DEF PsAsked, PsSubReqs
  <2> QED BY <2>1, <2>3
<1> QED BY <1>1, <1>2, <1>3 DEF PsAsked

LEMMA PsLeaseRunsOut ==
    ASSUME PsState, PsAsked, LeaseRunsOut
    PROVE  PsState' /\ PsAsked'
<1>1. UNCHANGED <<links, published, due, backend, req, alone>>
  BY DEF LeaseRunsOut, shimVars
<1>2. PICK b \in Boxes : box[b] # None /\ \E m \in box[b].out : box' = [box EXCEPT ![b] = Leased(@, {m}, {})]
  BY DEF LeaseRunsOut
<1>3. PICK m \in box[b].out : box' = [box EXCEPT ![b] = Leased(@, {m}, {})]
  BY <1>2
<1> DEFINE late == {m}
           got == {}
<1>4. late \in SUBSET box[b].out /\ got \in SUBSET (box[b].mail \cup late)
  BY <1>3
<1>5. box' = [box EXCEPT ![b] = Leased(@, late, got)]
  BY <1>3
<1>6. \A a \in Boxes : box[a] # None => box'[a] # None
  <2>1. box[b] \in BoxStates
    BY <1>2 DEF PsState, PubsubTypes
  <2>2. Leased(box[b], late, got) \in BoxStates
    BY <1>4, <2>1 DEF Leased, BoxStates
  <2> QED BY <1>5, <2>2, NoneIsNoBox DEF PsState, PubsubTypes
<1> HIDE DEF late, got
<1>7. PsState'
  BY <1>1, <1>2, <1>4, <1>5, PsLeases
<1> QED BY <1>1, <1>6, <1>7, PsServiceSteps

LEMMA PsMessageExpires ==
    ASSUME PsState, PsAsked, MessageExpires
    PROVE  PsState' /\ PsAsked'
<1>1. UNCHANGED <<links, published, backend, req, alone>>
  BY DEF MessageExpires, shimVars
<1>2. PICK b \in Boxes : /\ box[b] # None
                        /\ \E m \in box[b].mail \cup box[b].out : box' = BoxWithout(b, m) /\ due' = Owing(b, m)
  BY DEF MessageExpires
<1>3. PICK m : box' = BoxWithout(b, m) /\ due' = Owing(b, m)
  BY <1>2
<1>4. /\ PsState' /\ (\A a \in Boxes : box[a] # None => box'[a] # None)
      /\ \A p \in Pairs : due[p] = None => due'[p] = None
  BY <1>1, <1>2, <1>3, PsMessageGoes
<1> QED BY <1>1, <1>4, PsServiceSteps

(* Ack and ChangeVisibility *)
LEMMA PsNextHandle ==
    ASSUME PsAsked, NEW c \in Clients, req[c] \in PsAckReqs, NEW h, NextHandle(c, h),
           \A p \in Pairs : due[p] = None => due'[p] = None
    PROVE  PsAsked' /\ backend' = backend
<1>0. req[c] # Idle
  BY PsReqNotIdle DEF PsReq
<1>1. CASE req[c].left = {h}
  BY <1>0, <1>1, PsEnds DEF NextHandle
<1>2. CASE req[c].left # {h}
  <2> DEFINE r == [req[c] EXCEPT !.left = @ \ {h}]
  <2>1. r \in PsReq /\ r.op = "ack" /\ req[c].op = "ack"
    BY DEF PsAckReqs, PsReq
  <2>2. Goes(c, r)
    BY <1>2 DEF NextHandle
  <2> HIDE DEF r
  <2> QED BY <1>0, <2>1, <2>2, PsGoes
<1> QED BY <1>1, <1>2

LEMMA PsAcks ==
    ASSUME PsState, PsAsked, NEW c \in Clients, req[c] # Idle,
           InmemAck(c) \/ NatsAck(c) \/ GcpAck(c) \/ AwsAck(c) \/ AzureAck(c)
    PROVE  PsState' /\ PsAsked'
<1>1. req[c].op = "ack"
  BY DEF InmemAck, NatsAck, GcpAck, AwsAck, AzureAck, Is
<1> DEFINE b == req[c].at_box
<1>2. req[c] \in PsAckReqs /\ b \in Boxes
  BY <1>1, PsReqKinds DEF PsAsked, PsAckReqs
<1>3. PICK h \in req[c].left :
        \/ PubsubFails(c) \/ AcksNothing(c, h)
        \/ (InFlight(b, h) \/ (OldHandlesCount /\ box[b] # None)) /\ AcksOne(c, h)
  BY DEF Is, OldHandlesCount, InmemAck, NatsAck, GcpAck, AwsAck, AzureAck
<1>4. CASE PubsubFails(c)
  BY <1>4, PsFails
<1>5. CASE AcksNothing(c, h)
  <2>1. UNCHANGED <<links, box, due, published>> /\ NextHandle(c, h)
    BY <1>5 DEF AcksNothing, PubsubSame, pubsubVars
  <2>2. PsAsked' /\ backend' = backend
    BY <1>2, <2>1, PsNextHandle
  <2> QED BY <2>1, <2>2, PsStays
<1>6. CASE (InFlight(b, h) \/ (OldHandlesCount /\ box[b] # None)) /\ AcksOne(c, h)
  <2>1. /\ box' = BoxWithout(b, h[1]) /\ due' = Owing(b, h[1]) /\ UNCHANGED <<links, published>>
        /\ NextHandle(c, h) /\ box[b] # None
    BY <1>6 DEF AcksOne, Settled, SettlesDue, InFlight
  <2> HIDE DEF b
  <2>2. \A p \in Pairs : due[p] = None => due'[p] = None
    BY <2>1 DEF Owing
  <2>3. PsAsked' /\ backend' = backend
    BY <1>2, <2>1, <2>2, PsNextHandle
  <2> QED BY <1>2, <2>1, <2>3, PsMessageGoes
<1> QED BY <1>3, <1>4, <1>5, <1>6

LEMMA PsVisibility ==
    ASSUME PsState, PsAsked, NEW c \in Clients, req[c] # Idle,
           \/ HeadsSubscription(c) \/ InmemChangeVisibility(c) \/ GcpChangeVisibility(c)
           \/ AwsChangeVisibility(c) \/ NatsChangeVisibility(c) \/ AzureChangeVisibility(c)
    PROVE  PsState' /\ PsAsked'
<1>1. req[c].op = "visibility"
  BY DEF HeadsSubscription, InmemChangeVisibility, GcpChangeVisibility, AwsChangeVisibility,
     NatsChangeVisibility, AzureChangeVisibility, Is
<1> DEFINE b == req[c].at_box
<1>2. req[c] \in PsVisibilityReqs /\ b \in Boxes
  BY <1>1, PsReqKinds DEF PsAsked, PsVisibilityReqs
<1>3. CASE PubsubFails(c)
  BY <1>3, PsFails
<1>4. CASE Renews(c)
  BY <1>4, PsSaysSame DEF Renews
<1>5. CASE HeadsSubscription(c) /\ ~PubsubFails(c)
  <2> DEFINE r == [req[c] EXCEPT !.at = "first"]
  <2>1. Goes(c, r) /\ PubsubSame
    BY <1>5 DEF HeadsSubscription, PubsubGoes
  <2>2. r \in PsReq /\ r.op = "visibility"
    BY <1>2 DEF PsVisibilityReqs, PsReq
  <2> HIDE DEF r
  <2> QED BY <1>1, <2>1, <2>2, PsGoesSame
<1>6. ASSUME NEW h, InFlight(b, h), GivesBack(c, h) PROVE PsState' /\ PsAsked'
  <2> DEFINE late == {h[1]}
             got == {}
  <2>1. /\ box' = [box EXCEPT ![b] = Leased(@, late, got)] /\ UNCHANGED <<links, due, published>>
        /\ Ends(c, "ok")
    BY <1>6 DEF GivesBack, Says
  <2>2. box[b] # None /\ late \in SUBSET box[b].out /\ got \in SUBSET (box[b].mail \cup late)
    BY <1>6 DEF InFlight
  <2>3. PsAsked' /\ backend' = backend
    BY <2>1, PsEnds
  <2> HIDE DEF late, got, b
  <2> QED BY <1>2, <2>1, <2>2, <2>3, PsLeases
<1>7. CASE ~HeadsSubscription(c) /\ ~PubsubFails(c) /\ ~Renews(c)
  <2>1. \E h \in req[c].left : InFlight(b, h) /\ GivesBack(c, h)
    BY <1>7 DEF InmemChangeVisibility, GcpChangeVisibility, AwsChangeVisibility, NatsChangeVisibility,
       AzureChangeVisibility
  <2> QED BY <1>6, <2>1
<1> QED BY <1>3, <1>4, <1>5, <1>7

-----------------------------------------------------------------------------
(* Every step keeps the invariant. *)
LEMMA PubsubStepKeeps == PubsubInv /\ [PubsubNext]_<<shimVars, pubsubVars>> => PubsubInv'
<1> SUFFICES ASSUME PubsubInv, [PubsubNext]_<<shimVars, pubsubVars>> PROVE PubsubInv'
  OBVIOUS
<1>0. PsState /\ PsAsked
  BY DEF PubsubInv, PsState, PsAsked
<1> SUFFICES PsState' /\ PsAsked'
  BY DEF PubsubInv, PsState, PsAsked
<1>1. CASE UNCHANGED <<shimVars, pubsubVars>>
  <2>1. UNCHANGED <<links, box, due, published, backend, req, alone>>
    BY <1>1 DEF shimVars, pubsubVars
  <2>2. PsState'
    BY <1>0, <2>1, PsStays
  <2>3. PsAsked'
    BY <1>0, <2>1 DEF PsAsked, PubsubReqs, Withdrawn, QueueMade, Box, PerTopic
  <2> QED BY <2>2, <2>3
<1>2. ASSUME NEW c \in Clients, PubsubStep(c) PROVE PsState' /\ PsAsked'
  <2>1. req[c] # Idle
    BY <1>2 DEF PubsubStep
  <2>2. CASE PublishStops(c)
    BY <1>0, <2>1, <2>2, PsFails DEF PublishStops
  <2>3. CASE InmemPublish(c) \/ NatsPublish(c) \/ GcpPublish(c) \/ AzurePublish(c) \/ AwsPublish(c)
    BY <1>0, <2>1, <2>3, PsPublishes DEF InmemPublish, NatsPublish, GcpPublish, AzurePublish, AwsPublish, Is
  <2> QED BY <1>0, <1>2, <2>1, <2>2, <2>3, PsTopicsKeep, PsSubsMade, PsSubsGone, PsReceives, PsAcks,
         PsVisibility DEF PubsubStep
<1>3. ASSUME NEW c \in Clients, Dies(c), PubsubSame PROVE PsState' /\ PsAsked'
  BY <1>0, <1>3, PsFails DEF Dies, PubsubFails
<1> QED BY <1>0, <1>1, <1>2, <1>3, PsRequestsKeep, PsLeaseRunsOut, PsMessageExpires DEF PubsubNext

LEMMA PubsubInvInit == ShimInit /\ PubsubInit => PubsubInv
<1> SUFFICES ASSUME ShimInit, PubsubInit PROVE PubsubInv
  OBVIOUS
<1>1. PubsubTypes /\ OneLink /\ Boxed /\ DueThere
  BY DEF PubsubInit, PubsubTypes, OneLink, Boxed, DueThere
<1>2. PubsubReqs
  BY DEF ShimInit, PubsubReqs
<1>3. Withdrawn /\ QueueMade
  BY NoneIsNoClient DEF ShimInit, Withdrawn, QueueMade, Idle
<1> QED BY <1>1, <1>2, <1>3 DEF PubsubInv

(* The invariant holds of every shim for topics and subscriptions. *)
THEOREM PubsubInvariant == PubsubSpec => []PubsubInv
BY PubsubInvInit, PubsubStepKeeps, PTL DEF PubsubSpec

(* DueIsKept: a message a subscription owes its reader is pending or leased *)
(* (Publish, Receive, Ack and ChangeVisibility of every backend), whatever  *)
(* other requests create, delete or leave half done.                        *)
THEOREM DueIsAlwaysKept == PubsubSpec => []DueIsKept
<1>1. PubsubInv => DueIsKept
  BY DEF PubsubInv, DueThere, DueIsKept
<1> QED BY <1>1, PubsubInvariant, PTL

-----------------------------------------------------------------------------
(***************************************************************************)
(* CommittedWithinLog and FetchContinues for every set of clusters and     *)
(* topics, every retention and any number of records.                      *)
(*                                                                         *)
(* A log is the end of what was acknowledged, each value at its offset     *)
(* (LogsTell): records are appended at the next offset, and retention      *)
(* takes away the first ones only. What a fetch returns is then            *)
(* contiguous, and one batch of the Kafka server, whatever its first       *)
(* record.                                                                 *)
(***************************************************************************)

TopicReqs == [op : {"deleteCluster", "createTopic", "deleteTopic", "produce", "fetch"},
              at : {"first", "describe", "bounds"} \cup StreamTopics, cluster : StreamClusters,
              left : SUBSET StreamTopics, msk : BOOLEAN, idem : BOOLEAN]
CommitReqs == [op : {"commit"}, at : {"first"}, cluster : StreamClusters, left : SUBSET StreamTopics,
               off : Nat]
ClusterReqs == [op : {"createCluster"}, at : {"first"}, cluster : StreamClusters, idem : BOOLEAN]
Describe == [op |-> "describeCluster"]
StreamReq == TopicReqs \cup CommitReqs \cup ClusterReqs \cup {Describe}

StreamTypes ==
    /\ log \in [Keys -> Logs \cup {None}]
    /\ committed \in [Keys -> Nat \cup {None}]
    /\ written \in [Keys -> Seq(Nat)]
    /\ produced \in Nat
StreamReqs == req \in [Clients -> {Idle} \cup StreamReq]

\* A log holds the last of what was acknowledged, each value at its offset.
Tells(l, w) ==
    /\ Len(w) = l.next /\ Len(l.recs) <= l.next
    /\ \A i \in 1..Len(l.recs) : /\ l.recs[i].off = l.next - Len(l.recs) + i - 1
                                 /\ l.recs[i].val = w[l.recs[i].off + 1]
LogsTell == \A k \in Keys : log[k] # None => Tells(log[k], written[k])
OffsetsOf == backend # "inmem" => \A k \in Keys : committed[k] = None
StreamInv == StreamTypes /\ StreamReqs /\ LogsTell /\ OffsetsOf /\ CommittedWithinLog

-----------------------------------------------------------------------------
(* Sequences *)

LEMMA LeastOf ==
    ASSUME NEW I, I \subseteq Nat, I # {} PROVE \E i \in I : \A j \in I : i <= j
<1>1. PICK x \in I : \A y \in I : ~ (<<y, x>> \in OpToRel(<, Nat))
  BY WFMin, NatLessThanWellFounded
<1>2. \A y \in I : ~(y < x)
  BY <1>1 DEF OpToRel
<1> QED BY <1>2

\* f is s without its first m elements, where m + 1 is the first of I.
Suffix(f, R, s, I) ==
    \E m \in 0..Len(s) :
        /\ f \in Seq(R) /\ Len(f) = Len(s) - m
        /\ \A i \in 1..(Len(s) - m) : f[i] = s[m + i]
        /\ I = {} => m = Len(s)
        /\ I # {} => m + 1 \in I /\ \A j \in I : m < j

(* What From returns. *)
LEMMA FromIs ==
    ASSUME NEW R, NEW s \in Seq(R), NEW I \in SUBSET (1..Len(s))
    PROVE  Suffix(From(s, I), R, s, I)
<1>1. ASSUME NEW n \in 1..(Len(s) + 1)
      PROVE  /\ SubSeq(s, n, Len(s)) \in Seq(R) /\ Len(SubSeq(s, n, Len(s))) = Len(s) - (n - 1)
             /\ \A i \in 1..(Len(s) - (n - 1)) : SubSeq(s, n, Len(s))[i] = s[(n - 1) + i]
  <2>1. Len(s) \in Nat /\ n \in Nat
    OBVIOUS
  <2>2. Len(SubSeq(s, n, Len(s))) = Len(s) - (n - 1)
    BY <2>1
  <2>3. \A i \in 1..(Len(s) - (n - 1)) : SubSeq(s, n, Len(s))[i] = s[(n - 1) + i]
    BY <2>1
  <2>4. SubSeq(s, n, Len(s)) \in Seq(R)
    BY <2>1
  <2> QED BY <2>2, <2>3, <2>4
<1>2. CASE I = {}
  <2>1. From(s, I) = SubSeq(s, Len(s) + 1, Len(s))
    BY <1>2 DEF From
  <2> DEFINE m == Len(s)
  <2>2. m \in 0..Len(s) /\ (m + 1) - 1 = m /\ m + 1 \in 1..(Len(s) + 1)
    OBVIOUS
  <2>3. /\ From(s, I) \in Seq(R) /\ Len(From(s, I)) = Len(s) - m
        /\ \A i \in 1..(Len(s) - m) : From(s, I)[i] = s[m + i]
    BY <1>1, <2>1, <2>2
  <2> QED BY <1>2, <2>2, <2>3 DEF Suffix
<1>3. CASE I # {}
  <2> DEFINE n == CHOOSE i \in I : \A j \in I : i <= j
  <2>0. I \subseteq Nat
    OBVIOUS
  <2>1. n \in I /\ \A j \in I : n <= j
    <3>1. \E i \in I : \A j \in I : i <= j
      BY <1>3, <2>0, LeastOf
    <3> QED BY <3>1
  <2>2. From(s, I) = SubSeq(s, n, Len(s))
    BY <1>3 DEF From
  <2> HIDE DEF n
  <2>3. n \in 1..(Len(s) + 1) /\ n - 1 \in 0..Len(s)
    BY <2>1
  <2>4. /\ From(s, I) \in Seq(R) /\ Len(From(s, I)) = Len(s) - (n - 1)
        /\ \A i \in 1..(Len(s) - (n - 1)) : From(s, I)[i] = s[(n - 1) + i]
    BY <1>1, <2>2, <2>3
  <2>5. (n - 1) + 1 \in I /\ \A j \in I : n - 1 < j
    <3>1. (n - 1) + 1 = n
      BY <2>3
    <3>2. \A j \in I : j \in Nat /\ n - 1 < j
      BY <2>1, <2>3
    <3> QED BY <2>1, <3>1, <3>2
  <2> QED BY <1>3, <2>3, <2>4, <2>5 DEF Suffix
<1> QED BY <1>2, <1>3

(* Offsets of a log of k records that goes on with n. *)
LEMMA LastPosition == \A n, k \in Nat : (n + 1) - k + k - 1 = n
  OBVIOUS
LEMMA PositionsWritten == \A n, k, i \in Nat : i \in 1..k /\ k <= n => (n - k + i - 1) + 1 \in 1..n
  OBVIOUS
LEMMA PositionsKept == \A n, k, i \in Nat : n - k + i - 1 = (n + 1) - (k + 1) + i - 1
  OBVIOUS

(* What retention leaves of a log still tells what was written. *)
LEMMA PrunedTells ==
    ASSUME NEW l \in Logs, NEW w \in Seq(Nat), Tells(l, w)
    PROVE  Pruned(l) \in Logs /\ Tells(Pruned(l), w) /\ Pruned(l).next = l.next
<1> DEFINE I == {i \in 1..Len(l.recs) : ~l.recs[i].old}
           p == From(l.recs, I)
<1>1. l.recs \in Seq(Records) /\ l.next \in Nat /\ Len(l.recs) \in Nat
  BY DEF Logs
<1>2. Pruned(l) = [l EXCEPT !.recs = p]
  BY DEF Pruned
<1>0. I \in SUBSET (1..Len(l.recs))
  OBVIOUS
<1> HIDE DEF I
<1>00. Suffix(p, Records, l.recs, I)
  BY <1>0, <1>1, FromIs
<1>3. PICK m \in 0..Len(l.recs) :
             /\ p \in Seq(Records) /\ Len(p) = Len(l.recs) - m
             /\ \A i \in 1..(Len(l.recs) - m) : p[i] = l.recs[m + i]
  BY <1>00 DEF Suffix
<1> HIDE DEF p
<1>4. Pruned(l) \in Logs /\ Pruned(l).next = l.next /\ Pruned(l).recs = p
  BY <1>2, <1>3 DEF Logs
<1>5. ASSUME NEW i \in 1..Len(p)
      PROVE  p[i].off = l.next - Len(p) + i - 1 /\ p[i].val = w[p[i].off + 1]
  <2>1. p[i] = l.recs[m + i] /\ m + i \in 1..Len(l.recs)
    BY <1>1, <1>3
  <2>2. p[i].off = l.next - Len(l.recs) + (m + i) - 1 /\ p[i].val = w[p[i].off + 1]
    BY <2>1 DEF Tells
  <2>3. Len(l.recs) = Len(p) + m /\ m \in Nat /\ i \in Nat /\ Len(p) \in Nat
    BY <1>1, <1>3
  <2>4. l.next - Len(l.recs) + (m + i) - 1 = l.next - Len(p) + i - 1
    BY <1>1, <2>3
  <2> QED BY <2>2, <2>4
<1>6. Len(w) = l.next /\ Len(p) <= l.next
  BY <1>1, <1>3 DEF Tells
<1> QED BY <1>4, <1>5, <1>6 DEF Tells

LEMMA AppendedTells ==
    ASSUME NEW l \in Logs, NEW w \in Seq(Nat), Tells(l, w), NEW v \in Nat, NEW old \in BOOLEAN
    PROVE  Appended(l, v, old) \in Logs /\ Tells(Appended(l, v, old), Append(w, v))
           /\ Appended(l, v, old).next = l.next + 1
<1> DEFINE r == [off |-> l.next, val |-> v, old |-> old]
           q == Append(l.recs, r)
           x == Append(w, v)
<1>1. l.recs \in Seq(Records) /\ l.next \in Nat /\ r \in Records /\ Len(l.recs) \in Nat
  BY DEF Logs, Records
<1>2. /\ Appended(l, v, old) \in Logs /\ Appended(l, v, old).recs = q
      /\ Appended(l, v, old).next = l.next + 1
  BY <1>1 DEF Appended, Logs
<1>3. r.off = l.next /\ r.val = v
  OBVIOUS
<1> HIDE DEF r
<1>4. /\ Len(q) = Len(l.recs) + 1 /\ q[Len(q)] = r
      /\ \A i \in 1..Len(l.recs) : q[i] = l.recs[i]
  BY <1>1
<1>5. /\ Len(x) = Len(w) + 1 /\ x[Len(w) + 1] = v
      /\ \A i \in 1..Len(w) : x[i] = w[i]
  OBVIOUS
<1> HIDE DEF q, x
<1>6. Len(w) = l.next /\ Len(l.recs) <= l.next
  BY DEF Tells
<1>7. ASSUME NEW i \in 1..Len(q)
      PROVE  q[i].off = (l.next + 1) - Len(q) + i - 1 /\ q[i].val = x[q[i].off + 1]
  <2>0. i \in Nat /\ Len(q) \in Nat /\ Len(w) \in Nat
    BY <1>1, <1>4
  <2>1. CASE i = Len(q)
    <3>1. q[i].off = l.next /\ q[i].val = v
      BY <1>3, <1>4, <2>1
    <3>2. (l.next + 1) - Len(q) + i - 1 = l.next
      BY <1>1, <2>0, <2>1, LastPosition
    <3>3. x[q[i].off + 1] = v
      BY <1>5, <1>6, <3>1
    <3> QED BY <3>1, <3>2, <3>3
  <2>2. CASE i # Len(q)
    <3>1. i \in 1..Len(l.recs) /\ q[i] = l.recs[i]
      BY <1>1, <1>4, <2>2
    <3>2. q[i].off = l.next - Len(l.recs) + i - 1 /\ q[i].val = w[q[i].off + 1]
      BY <3>1 DEF Tells
    <3>3. q[i].off + 1 \in 1..Len(w)
      <4>1. (l.next - Len(l.recs) + i - 1) + 1 \in 1..l.next
        BY <1>1, <1>6, <2>0, <3>1, PositionsWritten
      <4> QED BY <4>1, <1>6, <3>2
    <3>4. x[q[i].off + 1] = w[q[i].off + 1]
      BY <1>5, <3>3
    <3>5. l.next - Len(l.recs) + i - 1 = (l.next + 1) - Len(q) + i - 1
      <4>1. l.next - Len(l.recs) + i - 1 = (l.next + 1) - (Len(l.recs) + 1) + i - 1
        BY <1>1, <2>0, PositionsKept
      <4> QED BY <4>1, <1>4
    <3> QED BY <3>2, <3>4, <3>5
  <2> QED BY <2>1, <2>2
<1>8. Len(x) = l.next + 1 /\ Len(q) <= l.next + 1
  BY <1>1, <1>4, <1>5, <1>6
<1>9. Tells(Appended(l, v, old), x)
  BY <1>2, <1>7, <1>8 DEF Tells
<1> QED BY <1>2, <1>9 DEF x

(* What a fetch of a log that tells what was written decodes to. *)
LEMMA FetchTells ==
    ASSUME NEW l \in Logs, NEW w \in Seq(Nat), Tells(l, w), NEW o \in 0..l.next, NEW max \in Nat,
           Fetched(l, o, max) # OutOfRange
    PROVE  LET rs == Fetched(l, o, max)  got == Decoded(rs) IN
           /\ \A i \in 1..Len(rs) : got[i] = [off |-> o + i - 1, val |-> w[o + i]]
           /\ rs = <<>> => o = l.next \/ EarliestOffset(l) = l.next
<1> DEFINE n == Len(l.recs)
           I == {i \in 1..n : l.recs[i].off >= o}
           rest == From(l.recs, I)
           rs == Fetched(l, o, max)
<1>1. l.recs \in Seq(Records) /\ l.next \in Nat /\ n \in Nat /\ n <= l.next
  BY DEF Logs, Tells
<1>2. /\ rs = SubSeq(rest, 1, IF max > 0 /\ max < Len(rest) THEN max ELSE Len(rest))
      /\ l.recs # <<>> => ~(o < l.recs[1].off)
  BY DEF Fetched
<1>0. I \in SUBSET (1..n)
  OBVIOUS
<1> HIDE DEF I
<1>00. Suffix(rest, Records, l.recs, I)
  BY <1>0, <1>1, FromIs
<1> HIDE DEF rest, rs
<1>3. PICK m \in 0..n : /\ rest \in Seq(Records) /\ Len(rest) = n - m
                        /\ \A i \in 1..(n - m) : rest[i] = l.recs[m + i]
                        /\ I = {} => m = n
                        /\ I # {} => m + 1 \in I /\ \A j \in I : m < j
  BY <1>00 DEF Suffix
<1>3a. /\ Len(rs) \in Nat /\ Len(rs) <= Len(rest)
       /\ \A i \in 1..Len(rs) : rs[i] = rest[i]
       /\ rs = <<>> => Len(rest) = 0
  <2> DEFINE e == IF max > 0 /\ max < Len(rest) THEN max ELSE Len(rest)
  <2>1. e \in 0..Len(rest) /\ (e = 0 => Len(rest) = 0)
    BY <1>3
  <2>2. rs = SubSeq(rest, 1, e)
    BY <1>2
  <2> HIDE DEF e
  <2>3. Len(rs) = e /\ \A i \in 1..e : rs[i] = rest[i]
    BY <1>3, <2>1, <2>2
  <2> QED BY <1>3, <2>1, <2>3
<1>4. \A i \in 1..n : l.recs[i].off = l.next - n + i - 1 /\ l.recs[i].val = w[l.recs[i].off + 1]
  BY DEF Tells
<1>5. n > 0 => o >= l.next - n
  <2>1. n > 0 => l.recs # <<>> /\ 1 \in 1..n
    BY <1>1
  <2> QED BY <1>1, <1>2, <1>4, <2>1
<1>6. n > 0 => m = o - (l.next - n)
  <2> SUFFICES ASSUME n > 0 PROVE m = o - (l.next - n)
    OBVIOUS
  <2> DEFINE d == o - (l.next - n)
  <2>1. d \in 0..n
    BY <1>1, <1>5
  <2>2. \A i \in 1..n : i \in I <=> i > d
    <3> SUFFICES ASSUME NEW i \in 1..n PROVE i \in I <=> i > d
      OBVIOUS
    <3>1. i \in I <=> l.recs[i].off >= o
      BY DEF I
    <3>2. i \in I <=> l.next - n + i - 1 >= o
      BY <1>4, <3>1
    <3> HIDE DEF n
    <3>3. l.next - n + i - 1 >= o <=> i > o - (l.next - n)
      BY <1>1
    <3> QED BY <3>2, <3>3
  <2>3. CASE d = n
    <3>1. I = {}
      BY <1>1, <2>2, <2>3 DEF I
    <3> QED BY <1>3, <2>3, <3>1
  <2>4. CASE d < n
    <3>1. d + 1 \in I
      BY <1>1, <2>1, <2>2, <2>4
    <3>2. m + 1 \in I /\ m < d + 1 /\ m + 1 \in 1..n
      BY <1>3, <3>1 DEF I
    <3> QED BY <1>1, <2>1, <2>2, <3>2
  <2> QED BY <1>1, <2>1, <2>3, <2>4
<1>7. \A i \in 1..Len(rs) : rs[i].off = o + i - 1 /\ rs[i].val = w[o + i]
  <2> SUFFICES ASSUME NEW i \in 1..Len(rs) PROVE rs[i].off = o + i - 1 /\ rs[i].val = w[o + i]
    OBVIOUS
  <2>1. n > 0 /\ m + i \in 1..n /\ rs[i] = l.recs[m + i]
    BY <1>1, <1>3, <1>3a
  <2>2. rs[i].off = l.next - n + (m + i) - 1 /\ rs[i].val = w[rs[i].off + 1]
    BY <1>4, <2>1
  <2>a. m \in Nat /\ i \in Nat /\ o \in Nat /\ m = o - (l.next - n)
    BY <1>1, <1>3, <1>6, <2>1
  <2>b. l.next - n + (m + i) - 1 = o + i - 1
    <3>1. l.next \in Nat /\ n \in Nat
      BY <1>1
    <3> DEFINE x == l.next
    <3>2. x \in Nat
      BY <3>1
    <3> HIDE DEF n, x
    <3>3. x - n + (m + i) - 1 = o + i - 1
      <4>1. m = o - (x - n)
        BY <2>a DEF x
      <4> QED BY <3>1, <3>2, <2>a, <4>1, SMTT(30)
    <3> QED BY <3>3 DEF x
  <2>3. rs[i].off = o + i - 1 /\ rs[i].val = w[rs[i].off + 1]
    BY <2>b, <2>2, Zenon
  <2>4. (o + i - 1) + 1 = o + i
    BY <2>a
  <2> QED BY <2>3, <2>4, Zenon
<1>8. rs = <<>> => o = l.next \/ EarliestOffset(l) = l.next
  <2> SUFFICES ASSUME rs = <<>>, l.recs # <<>> PROVE o = l.next
    BY DEF EarliestOffset
  <2>1. Len(rest) = 0 /\ n > 0
    BY <1>1, <1>3a
  <2> QED BY <1>1, <1>3, <1>6, <2>1
<1>9. ASSUME NEW i \in 1..Len(rs) PROVE Decoded(rs)[i] = [off |-> o + i - 1, val |-> w[o + i]]
  <2>0. Len(rs) \in Nat /\ 1 \in 1..Len(rs)
    BY <1>3a
  <2>1. GroupStarts(rs) = {1}
    <3>1. \A j \in 1..Len(rs) : j # 1 => rs[j].off = rs[j - 1].off + 1
      <4> SUFFICES ASSUME NEW j \in 1..Len(rs), j # 1 PROVE rs[j].off = rs[j - 1].off + 1
        OBVIOUS
      <4>1. j - 1 \in 1..Len(rs) /\ j \in Nat
        BY <2>0
      <4>2. rs[j].off = o + j - 1 /\ rs[j - 1].off = o + (j - 1) - 1
        BY <1>7, <4>1
      <4>3. o \in Nat
        BY <1>1
      <4> QED BY <4>1, <4>2, <4>3
    <3> QED BY <2>0, <3>1 DEF GroupStarts
  <2>2. GroupOf(rs, i) = 1
    BY <2>0, <2>1 DEF GroupOf
  <2>3. Decoded(rs)[i] = [off |-> rs[1].off + (i - 1), val |-> rs[i].val]
    BY <2>2 DEF Decoded
  <2>4. rs[1].off + (i - 1) = o + i - 1 /\ rs[i].val = w[o + i]
    <3>1. rs[1].off = o + 1 - 1 /\ rs[i].val = w[o + i]
      BY <1>7, <2>0
    <3> QED BY <1>1, <2>0, <3>1
  <2> QED BY <2>3, <2>4
<1> QED BY <1>8, <1>9 DEF rs

-----------------------------------------------------------------------------
(* Requests *)

LEMMA StreamReqKinds ==
    ASSUME StreamReqs, NEW c \in Clients
    PROVE  /\ req[c].op \in {"deleteCluster", "createTopic", "deleteTopic", "produce", "fetch"}
                => req[c] \in TopicReqs
           /\ req[c].op = "commit" => req[c] \in CommitReqs
           /\ req[c].op = "createCluster" => req[c] \in ClusterReqs
<1>1. req[c] \in {Idle} \cup StreamReq
  BY DEF StreamReqs
<1> QED BY <1>1 DEF StreamReq, TopicReqs, CommitReqs, ClusterReqs, Describe, Idle

LEMMA StreamReqChanges ==
    ASSUME StreamReqs, NEW c \in Clients, NEW r \in {Idle} \cup StreamReq,
           req' = [req EXCEPT ![c] = r]
    PROVE  StreamReqs'
BY DEF StreamReqs

LEMMA StreamEnds ==
    ASSUME StreamReqs, NEW c \in Clients, NEW says, Ends(c, says)
    PROVE  StreamReqs' /\ backend' = backend
BY StreamReqChanges DEF Ends

LEMMA StreamGoes ==
    ASSUME StreamReqs, NEW c \in Clients, NEW r \in StreamReq, Goes(c, r)
    PROVE  StreamReqs' /\ backend' = backend
BY StreamReqChanges DEF Goes

LEMMA NextTopicKeeps ==
    ASSUME StreamReqs, NEW c \in Clients, NEW t, NEW at \in {"first", "bounds"},
           NextTopic(c, t, at), req[c] \in TopicReqs \/ (req[c] \in CommitReqs /\ at = "first")
    PROVE  StreamReqs' /\ backend' = backend
<1>1. CASE req[c].left = {t}
  BY <1>1, StreamEnds DEF NextTopic
<1>2. CASE req[c].left # {t}
  <2> DEFINE r == [req[c] EXCEPT !.left = @ \ {t}, !.at = at]
  <2>1. r \in StreamReq
    <3>1. CASE req[c] \in TopicReqs
      BY <3>1 DEF StreamReq, TopicReqs
    <3>2. CASE req[c] \in CommitReqs /\ at = "first"
      BY <3>2 DEF StreamReq, CommitReqs
    <3> QED BY <3>1, <3>2
  <2>2. Goes(c, r)
    BY <1>2 DEF NextTopic
  <2> HIDE DEF r
  <2> QED BY <2>1, <2>2, StreamGoes
<1> QED BY <1>1, <1>2

-----------------------------------------------------------------------------
(* Logs *)

StreamLogs == StreamTypes /\ LogsTell /\ OffsetsOf /\ CommittedWithinLog

LEMMA LogsStay ==
    ASSUME StreamLogs, UNCHANGED <<log, committed, written, produced, backend>>
    PROVE  StreamLogs'
BY DEF StreamLogs, StreamTypes, LogsTell, OffsetsOf, CommittedWithinLog

(* One log becomes another that tells what was written to it. *)
LEMMA LogChanges ==
    ASSUME StreamLogs, NEW k \in Keys, NEW l \in Logs, NEW w \in Seq(Nat), Tells(l, w),
           log' = [log EXCEPT ![k] = l], written' = [written EXCEPT ![k] = w],
           committed[k] # None => committed[k] <= l.next,
           produced' \in Nat, UNCHANGED <<committed, backend>>
    PROVE  StreamLogs'
<1>1. log'[k] = l /\ written'[k] = w /\ l # None
  BY NoneIsNoLog DEF StreamLogs, StreamTypes
<1>2. \A x \in Keys : x # k => log'[x] = log[x] /\ written'[x] = written[x]
  BY DEF StreamLogs, StreamTypes
<1>3. StreamTypes'
  BY DEF StreamLogs, StreamTypes
<1>4. LogsTell'
  BY <1>1, <1>2 DEF StreamLogs, LogsTell
<1>5. OffsetsOf' /\ CommittedWithinLog'
  BY <1>1, <1>2 DEF StreamLogs, OffsetsOf, CommittedWithinLog
<1> QED BY <1>3, <1>4, <1>5 DEF StreamLogs

(* Some logs go, and their offsets with them. *)
LEMMA LogsGo ==
    ASSUME StreamLogs, UNCHANGED <<produced, backend>>,
           log' \in [Keys -> Logs \cup {None}], committed' \in [Keys -> Nat \cup {None}],
           written' \in [Keys -> Seq(Nat)],
           \A x \in Keys :
              \/ log'[x] = None /\ committed'[x] = None
              \/ log'[x] = log[x] /\ written'[x] = written[x] /\ committed'[x] = committed[x]
    PROVE  StreamLogs'
<1>1. StreamTypes'
  BY DEF StreamLogs, StreamTypes
<1>2. LogsTell'
  BY DEF StreamLogs, LogsTell
<1>3. OffsetsOf' /\ CommittedWithinLog'
  BY DEF StreamLogs, OffsetsOf, CommittedWithinLog
<1> QED BY <1>1, <1>2, <1>3 DEF StreamLogs

(* The log of a partition as Prunes leaves it. *)
LEMMA PrunesKeeps ==
    ASSUME StreamLogs, NEW k \in Keys, log[k] # None, Prunes(k), backend' = backend
    PROVE  StreamLogs'
<1>1. log[k] \in Logs /\ written[k] \in Seq(Nat) /\ Tells(log[k], written[k])
  BY DEF StreamLogs, StreamTypes, LogsTell
<1>2. /\ log' = [log EXCEPT ![k] = Pruned(log[k])] /\ UNCHANGED <<committed, produced, written>>
      /\ written' = [written EXCEPT ![k] = written[k]]
  BY DEF Prunes, StreamLogs, StreamTypes
<1> DEFINE l == Pruned(log[k])
           w == written[k]
<1>3. l \in Logs /\ Tells(l, w) /\ (committed[k] # None => committed[k] <= l.next)
  BY <1>1, PrunedTells DEF StreamLogs, CommittedWithinLog
<1>4. produced' \in Nat /\ w \in Seq(Nat)
  BY <1>1, <1>2 DEF StreamLogs, StreamTypes
<1>5. log' = [log EXCEPT ![k] = l] /\ written' = [written EXCEPT ![k] = w]
  BY <1>2
<1> HIDE DEF l, w
<1> QED BY <1>2, <1>3, <1>4, <1>5, LogChanges

-----------------------------------------------------------------------------
(* Steps *)

LEMMA StreamSplit == StreamInv <=> StreamReqs /\ StreamLogs
BY DEF StreamInv, StreamLogs

LEMMA StreamAsksKeeps ==
    ASSUME StreamReqs, StreamLogs, NEW c \in Clients, NEW r \in StreamReq,
           StreamAsks(c, r) \/ CreatesTopics(c, r)
    PROVE  StreamReqs' /\ StreamLogs'
<1>1. Begin(c, r) /\ UNCHANGED <<log, committed, produced, written>>
  BY DEF StreamAsks, StreamSame, streamVars, CreatesTopics
<1>2. req' = [req EXCEPT ![c] = r] /\ backend' = backend
  BY <1>1 DEF Begin
<1> QED BY <1>1, <1>2, StreamReqChanges, LogsStay

LEMMA StreamRequestsKeep ==
    ASSUME StreamReqs, StreamLogs, NEW c \in Clients, StreamRequests(c)
    PROVE  StreamReqs' /\ StreamLogs'
<1>1. ASSUME NEW k \in StreamClusters, NEW idem \in BOOLEAN
      PROVE  ClusterReq("createCluster", k, idem) \in StreamReq
  BY DEF ClusterReq, StreamReq, ClusterReqs
<1>2. ASSUME NEW op \in {"deleteCluster", "createTopic", "deleteTopic", "produce", "fetch"},
             NEW at \in {"first", "describe", "bounds"}, NEW k \in StreamClusters,
             NEW ts \in SUBSET StreamTopics, NEW msk \in BOOLEAN, NEW idem \in BOOLEAN
      PROVE  TopicReq(op, at, k, ts, msk, idem) \in StreamReq
  BY DEF TopicReq, StreamReq, TopicReqs
<1>3. CASE MskCreateCluster(c) \/ AzureCreateNamespace(c)
  BY <1>1, <1>3, StreamAsksKeeps DEF MskCreateCluster, AzureCreateNamespace
<1>4. CASE StreamDeleteCluster(c)
  BY <1>2, <1>4, StreamAsksKeeps DEF StreamDeleteCluster
<1>5. CASE MskCreateTopic(c) \/ AzureCreateEventHub(c) \/ GcpCreateTopicStream(c)
  <2>1. \A t \in StreamTopics : {t} \in SUBSET StreamTopics
    OBVIOUS
  <2> QED BY <1>2, <1>5, <2>1, StreamAsksKeeps DEF MskCreateTopic, AzureCreateEventHub, GcpCreateTopicStream
<1>6. CASE StreamDeleteTopic(c)
  <2>1. \A t \in StreamTopics : {t} \in SUBSET StreamTopics
    OBVIOUS
  <2> QED BY <1>2, <1>6, <2>1, StreamAsksKeeps DEF StreamDeleteTopic
<1>7. CASE KafkaCreateTopics(c) \/ KafkaDeleteTopics(c) \/ KafkaProduce(c) \/ KafkaFetch(c)
  BY <1>2, <1>7, KafkaClusterIsOne, StreamAsksKeeps
     DEF KafkaCreateTopics, KafkaDeleteTopics, KafkaProduce, KafkaFetch, KafkaReq, SomeTopics
<1>8. CASE KafkaOffsetCommit(c)
  <2>1. PICK ts \in SomeTopics, o \in 0..MaxRecords : StreamAsks(c,
           [op |-> "commit", at |-> "first", cluster |-> KafkaCluster, left |-> ts, off |-> o])
    BY <1>8 DEF KafkaOffsetCommit
  <2> DEFINE r == [op |-> "commit", at |-> "first", cluster |-> KafkaCluster, left |-> ts, off |-> o]
  <2>2. r \in StreamReq
    BY KafkaClusterIsOne DEF StreamReq, CommitReqs, SomeTopics
  <2> HIDE DEF r
  <2> QED BY <2>1, <2>2, StreamAsksKeeps DEF r
<1> QED BY <1>3, <1>4, <1>5, <1>6, <1>7, <1>8 DEF StreamRequests

(* Steps that leave the logs alone. *)
LEMMA StreamFailsKeeps ==
    ASSUME StreamReqs, StreamLogs, NEW c \in Clients, NEW says, Ends(c, says), StreamSame
    PROVE  StreamReqs' /\ StreamLogs'
BY StreamEnds, LogsStay DEF StreamSame, streamVars

LEMMA StreamGoesKeeps ==
    ASSUME StreamReqs, StreamLogs, NEW c \in Clients, NEW r \in StreamReq, Goes(c, r), StreamSame
    PROVE  StreamReqs' /\ StreamLogs'
BY StreamGoes, LogsStay DEF StreamSame, streamVars

LEMMA SkipsKeeps ==
    ASSUME StreamReqs, StreamLogs, NEW c \in Clients, NEW t, NEW at \in {"first", "bounds"},
           SkipsTopic(c, t, at), req[c] \in TopicReqs \/ (req[c] \in CommitReqs /\ at = "first")
    PROVE  StreamReqs' /\ StreamLogs'
<1>1. NextTopic(c, t, at) /\ UNCHANGED <<log, committed, produced, written>>
  BY DEF SkipsTopic, StreamSame, streamVars
<1>2. StreamReqs' /\ backend' = backend
  BY <1>1, NextTopicKeeps
<1> QED BY <1>1, <1>2, LogsStay

LEMMA ClustersKeep ==
    ASSUME StreamReqs, StreamLogs, NEW c \in Clients,
           \/ InmemCreateCluster(c) \/ InmemDeleteCluster(c) \/ InmemDescribeCluster(c)
           \/ AzureDescribeNamespace(c)
           \/ StrimziCreateCluster(c) \/ StrimziDeleteCluster(c) \/ StrimziDescribeCluster(c)
    PROVE  StreamReqs' /\ StreamLogs'
<1>0. Describe \in StreamReq
  BY DEF StreamReq
<1>1. CASE InmemCreateCluster(c) \/ StrimziCreateCluster(c)
  <2>1. \/ Ends(c, "ok") /\ UNCHANGED <<log, committed, produced, asked, written>>
        \/ Goes(c, Describe) /\ StreamSame
        \/ Ends(c, None) /\ StreamSame
    BY <1>1 DEF InmemCreateCluster, StrimziCreateCluster, StreamFails, Fails, Describe
  <2>2. CASE Ends(c, "ok") /\ UNCHANGED <<log, committed, produced, asked, written>>
    BY <2>2, StreamEnds, LogsStay
  <2> QED BY <1>0, <2>1, <2>2, StreamFailsKeeps, StreamGoesKeeps
<1>2. CASE InmemDescribeCluster(c) \/ StrimziDescribeCluster(c)
  <2> DEFINE r == [req[c] EXCEPT !.at = "first"]
  <2>1. req[c].op = "createTopic"
    BY <1>2 DEF InmemDescribeCluster, StrimziDescribeCluster, Is
  <2>2. req[c] \in TopicReqs
    BY <2>1, StreamReqKinds
  <2>3. r \in StreamReq
    BY <2>2 DEF TopicReqs, StreamReq
  <2>4. (Goes(c, r) /\ StreamSame) \/ (Ends(c, None) /\ StreamSame)
    BY <1>2 DEF InmemDescribeCluster, StrimziDescribeCluster, StreamFails, Fails
  <2> HIDE DEF r
  <2> QED BY <2>3, <2>4, StreamFailsKeeps, StreamGoesKeeps
<1>3. CASE AzureDescribeNamespace(c)
  BY <1>3, StreamFailsKeeps DEF AzureDescribeNamespace
<1>4. CASE StrimziDeleteCluster(c)
  <2>1. \/ Ends(c, "ok") /\ UNCHANGED <<log, committed, produced, asked, written>>
        \/ Ends(c, None) /\ StreamSame
    BY <1>4 DEF StrimziDeleteCluster, StreamFails, Fails
  <2>2. CASE Ends(c, "ok") /\ UNCHANGED <<log, committed, produced, asked, written>>
    BY <2>2, StreamEnds, LogsStay
  <2> QED BY <2>1, <2>2, StreamFailsKeeps
<1>5. CASE InmemDeleteCluster(c)
  <2> DEFINE lost == {req[c].cluster} \X StreamTopics
  <2>1. CASE req[c].cluster \notin clusters
    BY <1>5, <2>1, StreamFailsKeeps DEF InmemDeleteCluster, StreamFails, Fails
  <2>2. CASE req[c].cluster \in clusters
    <3>1. /\ log' = [x \in Keys |-> IF x \in lost THEN None ELSE log[x]]
          /\ committed' = [x \in Keys |-> IF x \in lost THEN None ELSE committed[x]]
          /\ written' = [x \in Keys |-> IF x \in lost THEN <<>> ELSE written[x]]
          /\ produced' = produced /\ Ends(c, "ok")
      BY <1>5, <2>2 DEF InmemDeleteCluster
    <3> HIDE DEF lost
    <3>2. StreamReqs' /\ backend' = backend
      BY <3>1, StreamEnds
    <3>3. /\ log' \in [Keys -> Logs \cup {None}] /\ committed' \in [Keys -> Nat \cup {None}]
          /\ written' \in [Keys -> Seq(Nat)]
      BY <3>1 DEF StreamLogs, StreamTypes
    <3> QED BY <3>1, <3>2, <3>3, LogsGo
  <2> QED BY <2>1, <2>2
<1> QED BY <1>1, <1>2, <1>3, <1>4, <1>5

LEMMA KeysOf ==
    ASSUME StreamReqs, NEW c \in Clients, req[c] \in TopicReqs \cup CommitReqs
    PROVE  /\ \A t \in req[c].left : <<req[c].cluster, t>> \in Keys
           /\ \A t \in StreamTopics : <<req[c].cluster, t>> \in Keys
<1>1. req[c].cluster \in StreamClusters /\ req[c].left \subseteq StreamTopics
  BY DEF TopicReqs, CommitReqs
<1> QED BY <1>1 DEF Keys

LEMMA TopicStartsKeeps ==
    ASSUME StreamReqs, StreamLogs, NEW c \in Clients, NEW t, NEW k \in Keys, req[c] \in TopicReqs,
           log[k] = None, TopicStarts(c, k, t)
    PROVE  StreamReqs' /\ StreamLogs'
<1>1. /\ log' = [log EXCEPT ![k] = EmptyLog] /\ written' = [written EXCEPT ![k] = <<>>]
      /\ UNCHANGED <<committed, produced>> /\ NextTopic(c, t, "first")
  BY DEF TopicStarts
<1>2. StreamReqs' /\ backend' = backend
  BY <1>1, NextTopicKeeps
<1>3. EmptyLog \in Logs /\ <<>> \in Seq(Nat)
  BY DEF EmptyLog, Logs
<1>4. Tells(EmptyLog, <<>>)
  BY DEF EmptyLog, Tells
<1>5. committed[k] = None /\ produced' \in Nat
  BY <1>1 DEF StreamLogs, CommittedWithinLog, StreamTypes
<1> QED BY <1>1, <1>2, <1>3, <1>4, <1>5, LogChanges

LEMMA TopicsKeep ==
    ASSUME StreamReqs, StreamLogs, NEW c \in Clients,
           \/ InmemCreateStreamTopic(c) \/ StrimziCreateStreamTopic(c)
           \/ InmemDeleteStreamTopic(c) \/ StrimziDeleteStreamTopic(c)
    PROVE  StreamReqs' /\ StreamLogs'
<1>1. req[c].op \in {"createTopic", "deleteTopic"}
  BY DEF InmemCreateStreamTopic, StrimziCreateStreamTopic, InmemDeleteStreamTopic,
     StrimziDeleteStreamTopic, Is
<1>2. req[c] \in TopicReqs
  BY <1>1, StreamReqKinds
<1>3. \A t \in req[c].left : <<req[c].cluster, t>> \in Keys
  BY <1>2, KeysOf
<1>4. CASE InmemCreateStreamTopic(c) \/ StrimziCreateStreamTopic(c)
  <2>1. PICK t \in req[c].left : \/ log[<<req[c].cluster, t>>] = None /\ TopicStarts(c, <<req[c].cluster, t>>, t)
                                 \/ SkipsTopic(c, t, "first")
    <3>1. CASE InmemCreateStreamTopic(c)
      BY <3>1 DEF InmemCreateStreamTopic
    <3>2. CASE StrimziCreateStreamTopic(c)
      <4>1. req[c].cluster \in StreamClusters
        BY <1>2 DEF TopicReqs
      <4> QED BY <3>2, <4>1 DEF StrimziCreateStreamTopic, NameTaken
    <3> QED BY <1>4, <3>1, <3>2
  <2> QED BY <1>2, <1>3, <2>1, TopicStartsKeeps, SkipsKeeps
<1>5. CASE InmemDeleteStreamTopic(c)
  <2>1. PICK t \in req[c].left : LET k == <<req[c].cluster, t>> IN
           IF log[k] = None THEN SkipsTopic(c, t, "first")
           ELSE /\ log' = [log EXCEPT ![k] = None] /\ committed' = OffsetsDropped(k)
                /\ written' = [written EXCEPT ![k] = <<>>]
                /\ UNCHANGED <<clusters, produced, asked>> /\ NextTopic(c, t, "first")
    BY <1>5 DEF InmemDeleteStreamTopic
  <2> DEFINE k == <<req[c].cluster, t>>
  <2>2. CASE log[k] = None
    BY <1>2, <2>1, <2>2, SkipsKeeps
  <2>3. CASE log[k] # None
    <3>1. /\ log' = [log EXCEPT ![k] = None] /\ committed' = [committed EXCEPT ![k] = None]
          /\ written' = [written EXCEPT ![k] = <<>>] /\ produced' = produced /\ NextTopic(c, t, "first")
          /\ k \in Keys
      BY <1>3, <2>1, <2>3 DEF OffsetsDropped
    <3> HIDE DEF k
    <3>2. StreamReqs' /\ backend' = backend
      BY <1>2, <3>1, NextTopicKeeps
    <3>3. /\ log' \in [Keys -> Logs \cup {None}] /\ committed' \in [Keys -> Nat \cup {None}]
          /\ written' \in [Keys -> Seq(Nat)]
          /\ \A x \in Keys : \/ log'[x] = None /\ committed'[x] = None
                             \/ log'[x] = log[x] /\ written'[x] = written[x] /\ committed'[x] = committed[x]
      BY <3>1 DEF StreamLogs, StreamTypes
    <3> QED BY <3>1, <3>2, <3>3, LogsGo
  <2> QED BY <2>2, <2>3
<1>6. CASE StrimziDeleteStreamTopic(c)
  <2>0. backend = "strimzi"
    BY <1>6 DEF StrimziDeleteStreamTopic, Is
  <2>1. PICK t \in req[c].left :
           /\ log' = [x \in Keys |-> IF x[2] = t THEN None ELSE log[x]]
           /\ UNCHANGED <<clusters, committed, produced, asked, written>> /\ NextTopic(c, t, "first")
    BY <1>6 DEF StrimziDeleteStreamTopic
  <2>2. StreamReqs' /\ backend' = backend
    BY <1>2, <2>1, NextTopicKeeps
  <2>3. \A x \in Keys : committed[x] = None
    BY <2>0 DEF StreamLogs, OffsetsOf
  <2>4. /\ log' \in [Keys -> Logs \cup {None}] /\ committed' \in [Keys -> Nat \cup {None}]
        /\ written' \in [Keys -> Seq(Nat)]
        /\ \A x \in Keys : \/ log'[x] = None /\ committed'[x] = None
                           \/ log'[x] = log[x] /\ written'[x] = written[x] /\ committed'[x] = committed[x]
    BY <2>1, <2>3 DEF StreamLogs, StreamTypes
  <2> QED BY <2>1, <2>2, <2>4, LogsGo
<1> QED BY <1>4, <1>5, <1>6

LEMMA ProduceKeeps ==
    ASSUME StreamReqs, StreamLogs, NEW c \in Clients, InmemProduce(c)
    PROVE  StreamReqs' /\ StreamLogs'
<1>1. req[c] \in TopicReqs
  BY StreamReqKinds DEF InmemProduce, Is
<1>2. PICK t \in req[c].left : LET k == <<req[c].cluster, t>>  v == produced + 1 IN
         IF log[k] = None \/ v > MaxRecords THEN SkipsTopic(c, t, "first")
         ELSE /\ \E old \in BOOLEAN : log' = [log EXCEPT ![k] = Appended(Pruned(@), v, old)]
              /\ written' = [written EXCEPT ![k] = Append(@, v)]
              /\ produced' = v
              /\ UNCHANGED <<clusters, committed, asked>>
              /\ NextTopic(c, t, "first")
  BY DEF InmemProduce
<1> DEFINE k == <<req[c].cluster, t>>
           v == produced + 1
<1>3. k \in Keys /\ v \in Nat
  BY <1>1, <1>2, KeysOf DEF StreamLogs, StreamTypes
<1>4. CASE SkipsTopic(c, t, "first")
  BY <1>1, <1>4, SkipsKeeps
<1>5. CASE ~SkipsTopic(c, t, "first")
  <2>1. PICK old \in BOOLEAN : log' = [log EXCEPT ![k] = Appended(Pruned(@), v, old)]
    BY <1>2, <1>5
  <2>2. /\ written' = [written EXCEPT ![k] = Append(@, v)] /\ produced' = v /\ committed' = committed
        /\ NextTopic(c, t, "first") /\ log[k] # None
    BY <1>2, <1>5
  <2> HIDE DEF k, v
  <2>3. log[k] \in Logs /\ written[k] \in Seq(Nat) /\ Tells(log[k], written[k])
    BY <1>3, <2>2 DEF StreamLogs, StreamTypes, LogsTell
  <2> DEFINE p == Pruned(log[k])
             l == Appended(p, v, old)
             w == Append(written[k], v)
  <2>4. p \in Logs /\ Tells(p, written[k]) /\ p.next = log[k].next
    BY <2>3, PrunedTells
  <2>5. log' = [log EXCEPT ![k] = l] /\ written' = [written EXCEPT ![k] = w] /\ w \in Seq(Nat)
    BY <1>3, <2>1, <2>2, <2>3 DEF StreamLogs, StreamTypes
  <2> HIDE DEF p
  <2>6. l \in Logs /\ Tells(l, w) /\ l.next = log[k].next + 1
    BY <1>3, <2>1, <2>3, <2>4, AppendedTells
  <2> HIDE DEF l, w
  <2>7. committed[k] # None => committed[k] <= l.next
    BY <1>3, <2>3, <2>6 DEF StreamLogs, CommittedWithinLog, StreamTypes, Logs
  <2>8. StreamReqs' /\ backend' = backend
    BY <1>1, <2>2, NextTopicKeeps
  <2> QED BY <1>3, <2>2, <2>5, <2>6, <2>7, <2>8, LogChanges
<1> QED BY <1>4, <1>5

LEMMA ReadsKeep ==
    ASSUME StreamReqs, StreamLogs, NEW c \in Clients, InmemListOffsets(c) \/ InmemFetch(c)
    PROVE  StreamReqs' /\ StreamLogs'
<1>1. req[c] \in TopicReqs
  BY StreamReqKinds DEF InmemListOffsets, InmemFetch, Is
<1>2. CASE InmemListOffsets(c)
  <2>1. PICK t \in req[c].left : LET k == <<req[c].cluster, t>> IN
         IF log[k] = None THEN SkipsTopic(c, t, "bounds")
         ELSE Prunes(k) /\ Goes(c, [req[c] EXCEPT !.at = t])
    BY <1>2 DEF InmemListOffsets
  <2> DEFINE k == <<req[c].cluster, t>>
             r == [req[c] EXCEPT !.at = t]
  <2>2. k \in Keys
    BY <1>1, <2>1, KeysOf
  <2>3. CASE log[k] = None
    BY <1>1, <2>1, <2>3, SkipsKeeps
  <2>4. CASE log[k] # None
    <3>1. r \in StreamReq
      BY <1>1, <2>1 DEF TopicReqs, StreamReq
    <3>2. Prunes(k) /\ Goes(c, r)
      BY <2>1, <2>4
    <3> HIDE DEF k, r
    <3> QED BY <2>2, <2>4, <3>1, <3>2, PrunesKeeps, StreamGoes
  <2> QED BY <2>3, <2>4
<1>3. CASE InmemFetch(c)
  <2> DEFINE t == req[c].at
             k == <<req[c].cluster, t>>
  <2>1. /\ t \in StreamTopics
        /\ IF log[k] = None THEN SkipsTopic(c, t, "bounds") ELSE Prunes(k) /\ NextTopic(c, t, "bounds")
    BY <1>3 DEF InmemFetch
  <2>2. k \in Keys
    BY <1>1, <2>1, KeysOf
  <2> HIDE DEF k, t
  <2>3. CASE log[k] = None
    BY <1>1, <2>1, <2>3, SkipsKeeps
  <2>4. CASE log[k] # None
    BY <1>1, <2>1, <2>2, <2>4, PrunesKeeps, NextTopicKeeps
  <2> QED BY <2>3, <2>4
<1> QED BY <1>2, <1>3

LEMMA CommitKeeps ==
    ASSUME StreamReqs, StreamLogs, NEW c \in Clients, InmemCommitOffset(c)
    PROVE  StreamReqs' /\ StreamLogs'
<1>1. req[c] \in CommitReqs /\ req[c].off \in Nat /\ backend = "inmem"
  BY StreamReqKinds DEF InmemCommitOffset, Is, CommitReqs
<1>2. PICK t \in req[c].left : LET k == <<req[c].cluster, t>> IN
         IF log[k] = None \/ req[c].off > log[k].next THEN SkipsTopic(c, t, "first")
         ELSE /\ committed' = [committed EXCEPT ![k] = req[c].off]
              /\ UNCHANGED <<clusters, log, produced, asked, written>>
              /\ NextTopic(c, t, "first")
  BY DEF InmemCommitOffset
<1> DEFINE k == <<req[c].cluster, t>>
<1>3. k \in Keys
  BY <1>1, <1>2, KeysOf
<1>4. CASE SkipsTopic(c, t, "first")
  BY <1>1, <1>4, SkipsKeeps
<1>5. CASE ~SkipsTopic(c, t, "first")
  <2>1. /\ log[k] # None /\ ~(req[c].off > log[k].next)
        /\ committed' = [committed EXCEPT ![k] = req[c].off]
        /\ UNCHANGED <<log, produced, written>> /\ NextTopic(c, t, "first")
    BY <1>2, <1>5
  <2> HIDE DEF k
  <2>2. StreamReqs' /\ backend' = backend
    BY <1>1, <2>1, NextTopicKeeps
  <2>3. log[k].next \in Nat
    BY <1>3, <2>1 DEF StreamLogs, StreamTypes, Logs
  <2>4. StreamTypes' /\ LogsTell' /\ OffsetsOf'
    BY <1>1, <2>1, <2>2 DEF StreamLogs, StreamTypes, LogsTell, OffsetsOf
  <2>5. CommittedWithinLog'
    BY <1>1, <1>3, <2>1, <2>3 DEF StreamLogs, StreamTypes, CommittedWithinLog
  <2> QED BY <2>2, <2>4, <2>5 DEF StreamLogs
<1> QED BY <1>4, <1>5

LEMMA AgesKeeps ==
    ASSUME StreamReqs, StreamLogs, RecordAges
    PROVE  StreamReqs' /\ StreamLogs'
<1>1. /\ UNCHANGED <<committed, produced, written, req, backend>>
      /\ StreamReqs'
  BY DEF RecordAges, shimVars, StreamReqs
<1>a. PICK k \in Keys : log[k] # None /\ \E i \in 1..Len(log[k].recs) :
         log' = [log EXCEPT ![k].recs[i].old = TRUE]
  BY DEF RecordAges
<1>b. PICK i \in 1..Len(log[k].recs) : log' = [log EXCEPT ![k].recs[i].old = TRUE]
  BY <1>a
<1>2. k \in Keys /\ i \in 1..Len(log[k].recs) /\ log[k] # None /\ log' = [log EXCEPT ![k].recs[i].old = TRUE]
  BY <1>a, <1>b
<1> DEFINE l == [log[k] EXCEPT !.recs[i].old = TRUE]
           rs == [log[k].recs EXCEPT ![i].old = TRUE]
           w == written[k]
<1>3. /\ log[k] \in Logs /\ w \in Seq(Nat) /\ Tells(log[k], w)
      /\ log[k].recs \in Seq(Records) /\ produced' \in Nat
  BY <1>1, <1>2 DEF StreamLogs, StreamTypes, LogsTell, Logs
<1>4. /\ log' = [log EXCEPT ![k] = l] /\ written' = [written EXCEPT ![k] = w]
      /\ l = [log[k] EXCEPT !.recs = rs]
  BY <1>1, <1>2 DEF StreamLogs, StreamTypes
<1>5. /\ rs \in Seq(Records) /\ Len(rs) = Len(log[k].recs)
      /\ \A j \in 1..Len(rs) : rs[j].off = log[k].recs[j].off /\ rs[j].val = log[k].recs[j].val
  <2> DEFINE s == log[k].recs
             x == [s[i] EXCEPT !.old = TRUE]
  <2>1. s \in Seq(Records) /\ i \in 1..Len(s) /\ s[i] \in Records
    BY <1>2, <1>3
  <2>2. x \in Records /\ x.off = s[i].off /\ x.val = s[i].val
    BY <2>1 DEF Records
  <2>3. rs = [s EXCEPT ![i] = x]
    BY <2>1
  <2> HIDE DEF s, x, rs
  <2>4. /\ rs \in Seq(Records) /\ Len(rs) = Len(s)
        /\ \A j \in 1..Len(s) : rs[j] = IF j = i THEN x ELSE s[j]
    BY <2>1, <2>2, <2>3, ExceptSeq
  <2> QED BY <2>1, <2>2, <2>4 DEF s
<1> HIDE DEF rs
<1>6. l \in Logs /\ l.recs = rs /\ l.next = log[k].next
  BY <1>3, <1>4, <1>5 DEF Logs
<1> HIDE DEF l
<1>7. Tells(l, w)
  BY <1>3, <1>5, <1>6 DEF Tells
<1>8. committed[k] # None => committed[k] <= l.next
  BY <1>2, <1>6 DEF StreamLogs, CommittedWithinLog
<1> HIDE DEF w
<1> QED BY <1>1, <1>2, <1>3, <1>4, <1>6, <1>7, <1>8, LogChanges

-----------------------------------------------------------------------------
(* Every step keeps the invariant. *)
LEMMA StreamStepKeeps == StreamInv /\ [StreamNext]_<<shimVars, streamVars>> => StreamInv'
<1> SUFFICES ASSUME StreamInv, [StreamNext]_<<shimVars, streamVars>> PROVE StreamInv'
  OBVIOUS
<1>0. StreamReqs /\ StreamLogs
  BY StreamSplit
<1> SUFFICES StreamReqs' /\ StreamLogs'
  BY DEF StreamInv, StreamLogs
<1>1. CASE UNCHANGED <<shimVars, streamVars>>
  BY <1>0, <1>1, LogsStay DEF shimVars, streamVars, StreamReqs
<1>2. ASSUME NEW c \in Clients, StreamStep(c) PROVE StreamReqs' /\ StreamLogs'
  <2>1. CASE StrimziDataPlane(c)
    BY <1>0, <2>1, StreamFailsKeeps DEF StrimziDataPlane, StreamFails, Fails
  <2> QED BY <1>0, <1>2, <2>1, ClustersKeep, TopicsKeep, ProduceKeeps, ReadsKeep, CommitKeeps DEF StreamStep
<1>3. ASSUME NEW c \in Clients, Dies(c), StreamSame PROVE StreamReqs' /\ StreamLogs'
  BY <1>0, <1>3, StreamFailsKeeps DEF Dies, Fails
<1> QED BY <1>0, <1>1, <1>2, <1>3, StreamRequestsKeep, AgesKeeps DEF StreamNext

LEMMA StreamInvInit == ShimInit /\ StreamInit => StreamInv
<1> SUFFICES ASSUME ShimInit, StreamInit PROVE StreamInv
  OBVIOUS
<1>1. StreamTypes /\ LogsTell /\ OffsetsOf /\ CommittedWithinLog
  BY DEF StreamInit, StreamTypes, LogsTell, OffsetsOf, CommittedWithinLog
<1>2. StreamReqs
  BY DEF ShimInit, StreamReqs
<1> QED BY <1>1, <1>2 DEF StreamInv

(* The invariant holds of every shim for event streams. *)
THEOREM StreamInvariant == StreamSpec => []StreamInv
BY StreamInvInit, StreamStepKeeps, PTL DEF StreamSpec

(* CommittedWithinLog: CommitOffset refuses an offset beyond the end of the *)
(* log, and DeleteTopic and DeleteCluster take the offsets with the logs.   *)
THEOREM CommittedAlwaysWithinLog == StreamSpec => []CommittedWithinLog
<1>1. StreamInv => CommittedWithinLog
  BY DEF StreamInv
<1> QED BY <1>1, StreamInvariant, PTL

(* FetchContinues: what Fetch returns, after prunePartition and through the *)
(* batches of the Kafka server, is what was acknowledged from that offset.  *)
THEOREM FetchAlwaysContinues == StreamSpec => []FetchContinues
<1>1. StreamInv => FetchContinues
  <2> SUFFICES ASSUME StreamInv, NEW k \in Keys, log[k] # None, NEW o \in 0..log[k].next,
                      NEW max \in 0..MaxRecords, Fetched(Pruned(log[k]), o, max) # OutOfRange
               PROVE  LET l == Pruned(log[k])  rs == Fetched(l, o, max)  got == Decoded(rs) IN
                      /\ \A i \in 1..Len(rs) : got[i] = [off |-> o + i - 1, val |-> written[k][o + i]]
                      /\ rs = <<>> => o = l.next \/ EarliestOffset(l) = l.next
    BY DEF FetchContinues
  <2> DEFINE l == Pruned(log[k])
             w == written[k]
  <2>1. log[k] \in Logs /\ w \in Seq(Nat) /\ Tells(log[k], w)
    BY DEF StreamInv, StreamTypes, LogsTell
  <2>2. l \in Logs /\ Tells(l, w) /\ l.next = log[k].next
    BY <2>1, PrunedTells
  <2>3. o \in 0..l.next /\ max \in Nat /\ Fetched(l, o, max) # OutOfRange
    BY <2>2
  <2> HIDE DEF l, w
  <2>4. LET rs == Fetched(l, o, max)  got == Decoded(rs) IN
        /\ \A i \in 1..Len(rs) : got[i] = [off |-> o + i - 1, val |-> w[o + i]]
        /\ rs = <<>> => o = l.next \/ EarliestOffset(l) = l.next
    BY <2>1, <2>2, <2>3, FetchTells
  <2> QED BY <2>4 DEF l, w
<1> QED BY <1>1, StreamInvariant, PTL

-----------------------------------------------------------------------------
(***************************************************************************)
(* LookupsAreTimely for every set of clients and keys and every            *)
(* time-to-live and fetch time.                                            *)
(*                                                                         *)
(* What the cache holds is not older than its age and one fetch            *)
(* (CacheRecent), because what the issuer has answered is not older than   *)
(* the fetch in progress (AnswerRecent), of which there is only one, that  *)
(* of the holder of the mutex (OneFetch).  A request whose key was         *)
(* published all along finds it in the answer (SteadyAnswered).            *)
(***************************************************************************)

Token == [op : {"verify"}, at : {"lookup", "get", "store", "check"}, kid : Kids,
          signed : BOOLEAN, body : SUBSET Kids]

BearerTypes ==
    /\ req \in [Clients -> {Idle} \cup Token]
    /\ offered \subseteq Kids
    /\ cached # None => cached \subseteq Kids
    /\ age \in Nat /\ age <= Ttl
    /\ waited \in Nat /\ waited <= FetchTime
    /\ gone \in [Kids -> Nat]
    /\ \A k \in Kids : gone[k] <= LongGone
    /\ steady \subseteq Clients
OneFetch == \A c \in Clients : TokenIn(c, "get") \/ TokenIn(c, "store") => holder = c
AnswerRecent ==
    \A c \in Clients : TokenIn(c, "store") => \A k \in req[c].body : gone[k] <= waited
CacheRecent ==
    backend = "remote" /\ cached # None => \A k \in cached : gone[k] <= age + FetchTime
SteadyAnswered ==
    \A c \in steady :
        /\ req[c] # Idle
        /\ req[c].kid \in offered
        /\ TokenIn(c, "store") => req[c].kid \in req[c].body
OfferedNow == \A k \in offered : gone[k] = 0
BearerInv ==
    /\ BearerTypes
    /\ OneFetch
    /\ AnswerRecent
    /\ CacheRecent
    /\ SteadyAnswered
    /\ OfferedNow

\* The verifier starts with nothing cached and no request in progress.
LEMMA BearerInitInv == ShimInit /\ BearerInit => BearerInv
<1> SUFFICES ASSUME ShimInit, BearerInit PROVE BearerInv
  OBVIOUS
<1>1. \A c \in Clients : req[c] = Idle
  BY DEF ShimInit
<1>2. BearerTypes
  BY TimesAreNumbers DEF ShimInit, BearerInit, BearerTypes, LongGone
<1>3. OneFetch /\ AnswerRecent
  BY <1>1 DEF OneFetch, AnswerRecent, TokenIn
<1>4. CacheRecent
  BY DEF CacheRecent, BearerInit
<1>5. SteadyAnswered /\ OfferedNow
  BY DEF SteadyAnswered, OfferedNow, BearerInit
<1> QED
  BY <1>2, <1>3, <1>4, <1>5 DEF BearerInv

\* A token and no request are different things.
LEMMA TokenIsNotIdle == \A t \in Token : t # Idle
  BY DEF Token, Idle

\* A step of one request changes that request alone.
LEMMA OthersStay ==
    ASSUME BearerTypes, NEW c \in Clients, NEW r, req' = [req EXCEPT ![c] = r]
    PROVE  /\ req'[c] = r
           /\ \A d \in Clients \ {c} : req'[d] = req[d]
  BY DEF BearerTypes

\* A token that arrives starts its lookup and touches no other request.
LEMMA PresentsInv ==
    ASSUME BearerInv, NEW c \in Clients, Presents(c) PROVE BearerInv'
<1> USE DEF BearerInv
<1>1. PICK k \in Kids, signed \in BOOLEAN :
        /\ Begin(c, [op |-> "verify", at |-> "lookup", kid |-> k, signed |-> signed, body |-> {}])
        /\ steady' = IF k \in offered THEN steady \cup {c} ELSE steady
        /\ UNCHANGED <<offered, cached, age, holder, waited, gone>>
  BY DEF Presents
<1> DEFINE r == [op |-> "verify", at |-> "lookup", kid |-> k, signed |-> signed, body |-> {}]
<1>2. r \in Token /\ r.at = "lookup" /\ r.kid = k
  BY DEF Token
<1>3. req[c] = Idle /\ req' = [req EXCEPT ![c] = r] /\ backend' = backend
  BY <1>1 DEF Begin
<1> HIDE DEF r
<1>4. req'[c] = r /\ \A d \in Clients \ {c} : req'[d] = req[d]
  BY <1>3, OthersStay
<1>5. r # Idle /\ c \notin steady
  BY <1>2, <1>3, TokenIsNotIdle DEF SteadyAnswered
<1>6. BearerTypes'
  BY <1>1, <1>2, <1>3 DEF BearerTypes, LongGone
<1>7. OneFetch' /\ AnswerRecent'
  BY <1>1, <1>2, <1>4 DEF OneFetch, AnswerRecent, TokenIn
<1>8. CacheRecent' /\ OfferedNow'
  BY <1>1, <1>3 DEF CacheRecent, OfferedNow
<1>9. SteadyAnswered'
  BY <1>1, <1>2, <1>4, <1>5 DEF SteadyAnswered, TokenIn, BearerTypes
<1> QED
  BY <1>6, <1>7, <1>8, <1>9

\* A request that ends leaves the cache and the others alone.
LEMMA EndInv ==
    ASSUME BearerInv, NEW c \in Clients,
           req' = [req EXCEPT ![c] = Idle], backend' = backend, steady' = steady \ {c},
           UNCHANGED <<offered, cached, age, gone>>,
           waited' = waited \/ (waited' = 0 /\ holder = c),
           holder' = holder \/ holder = c
    PROVE  BearerInv'
<1> USE DEF BearerInv
<1>1. req'[c] = Idle /\ \A d \in Clients \ {c} : req'[d] = req[d]
  BY OthersStay
<1>2. BearerTypes'
  BY TimesAreNumbers DEF BearerTypes, LongGone
<1>3. OneFetch'
  BY <1>1 DEF OneFetch, TokenIn
<1>4. AnswerRecent'
  BY <1>1 DEF AnswerRecent, OneFetch, TokenIn
<1>5. CacheRecent' /\ OfferedNow'
  BY DEF CacheRecent, OfferedNow
<1>6. SteadyAnswered'
  BY <1>1 DEF SteadyAnswered, TokenIn, BearerTypes
<1> QED
  BY <1>2, <1>3, <1>4, <1>5, <1>6

\* A request that goes on to its check, with the cache as it is.
LEMMA FoundInv ==
    ASSUME BearerInv, NEW c \in Clients, NEW r \in Token, req[c] # Idle,
           r.at \in {"check", "get"}, r.kid = req[c].kid,
           r.at = "get" => holder' = c /\ holder = None,
           r.at = "check" => holder' = holder,
           req' = [req EXCEPT ![c] = r], backend' = backend,
           UNCHANGED <<offered, cached, age, gone, steady>>,
           waited' = waited \/ (waited' = 0 /\ holder = None)
    PROVE  BearerInv'
<1> USE DEF BearerInv
<1>1. req'[c] = r /\ \A d \in Clients \ {c} : req'[d] = req[d]
  BY OthersStay
<1>2. r # Idle
  BY TokenIsNotIdle
<1>3. BearerTypes'
  BY TimesAreNumbers DEF BearerTypes, LongGone
<1>4. OneFetch'
  BY <1>1, NoneIsNoClient DEF OneFetch, TokenIn
<1>5. AnswerRecent'
  BY <1>1, NoneIsNoClient DEF AnswerRecent, OneFetch, TokenIn
<1>6. CacheRecent' /\ OfferedNow'
  BY DEF CacheRecent, OfferedNow
<1>7. SteadyAnswered'
  BY <1>1, <1>2 DEF SteadyAnswered, TokenIn, BearerTypes
<1> QED
  BY <1>3, <1>4, <1>5, <1>6, <1>7

\* findLocked keeps the invariant while the cache and the mutex stay.
LEMMA FindInv ==
    ASSUME BearerInv, NEW c \in Clients, NEW keys, req[c] # Idle, findLocked(c, keys),
           UNCHANGED <<offered, cached, age, gone, holder>>,
           waited' = waited \/ (waited' = 0 /\ holder = None)
    PROVE  BearerInv'
<1>1. CASE req[c].kid \in keys
  <2> DEFINE r == [req[c] EXCEPT !.at = "check", !.body = {}]
  <2>1. Goes(c, r) /\ UNCHANGED steady
    BY <1>1 DEF findLocked
  <2>2. req[c] \in Token
    BY DEF BearerInv, BearerTypes
  <2>3. r \in Token /\ r.at = "check" /\ r.kid = req[c].kid
    BY <2>2 DEF Token
  <2> HIDE DEF r
  <2>4. req' = [req EXCEPT ![c] = r] /\ backend' = backend
    BY <2>1 DEF Goes
  <2> QED
    BY <2>1, <2>3, <2>4, FoundInv
<1>2. CASE req[c].kid \notin keys
  <2>1. req' = [req EXCEPT ![c] = Idle] /\ backend' = backend /\ steady' = steady \ {c}
    BY <1>2 DEF findLocked, Refuses, Fails, Ends
  <2>2. CASE waited' = waited
    BY <2>1, <2>2, EndInv
  <2>3. CASE waited' = 0 /\ holder = None
    <3> USE DEF BearerInv
    <3>1. req'[c] = Idle /\ \A d \in Clients \ {c} : req'[d] = req[d]
      BY <2>1, OthersStay
    <3>2. BearerTypes'
      BY <2>1, <2>3, TimesAreNumbers DEF BearerTypes, LongGone
    <3>3. OneFetch' /\ AnswerRecent'
      BY <2>3, <3>1, NoneIsNoClient DEF OneFetch, AnswerRecent, TokenIn
    <3>4. CacheRecent' /\ OfferedNow'
      BY <2>1 DEF CacheRecent, OfferedNow
    <3>5. SteadyAnswered'
      BY <2>1, <3>1 DEF SteadyAnswered, TokenIn, BearerTypes
    <3> QED
      BY <3>2, <3>3, <3>4, <3>5
  <2> QED
    BY <2>2, <2>3
<1> QED
  BY <1>1, <1>2

\* lookup answers from a cache within its time-to-live, or takes the mutex to fetch.
LEMMA LookupInv ==
    ASSUME BearerInv, NEW c \in Clients, lookup(c) PROVE BearerInv'
<1>1. CASE Hit(c)
  <2>1. findLocked(c, cached) /\ UNCHANGED holder /\ waited' = 0 /\ holder = None
    BY <1>1 DEF lookup
  <2>2. UNCHANGED <<offered, cached, age, gone>> /\ req[c] # Idle
    BY DEF lookup, TokenIn
  <2> QED
    BY <2>1, <2>2, FindInv
<1>2. CASE ~Hit(c)
  <2> DEFINE r == [req[c] EXCEPT !.at = "get"]
  <2>1. req[c] # Idle /\ holder = None /\ holder' = c /\ Goes(c, r) /\ waited' = 0
        /\ UNCHANGED <<offered, cached, age, gone, steady>>
    BY <1>2 DEF lookup, TokenIn
  <2>2. req[c] \in Token
    BY <2>1 DEF BearerInv, BearerTypes
  <2>3. r \in Token /\ r.at = "get" /\ r.kid = req[c].kid
    BY <2>2 DEF Token
  <2> HIDE DEF r
  <2>4. req' = [req EXCEPT ![c] = r] /\ backend' = backend
    BY <2>1 DEF Goes
  <2> QED
    BY <2>1, <2>3, <2>4, FoundInv
<1> QED
  BY <1>1, <1>2

\* The issuer answers with what it publishes at that moment.
LEMMA IssuerAnswersInv ==
    ASSUME BearerInv, NEW c \in Clients, IssuerAnswers(c) PROVE BearerInv'
<1> USE DEF BearerInv
<1> DEFINE r == [req[c] EXCEPT !.at = "store", !.body = offered]
<1>1. TokenIn(c, "get") /\ Goes(c, r) /\ UNCHANGED bearerVars
  BY DEF IssuerAnswers
<1>2. req[c] \in Token /\ offered \subseteq Kids
  BY <1>1 DEF BearerTypes, TokenIn
<1>3. r \in Token /\ r.at = "store" /\ r.kid = req[c].kid /\ r.body = offered
  BY <1>2 DEF Token
<1> HIDE DEF r
<1>4. req' = [req EXCEPT ![c] = r] /\ backend' = backend
  BY <1>1 DEF Goes
<1>5. req'[c] = r /\ \A d \in Clients \ {c} : req'[d] = req[d]
  BY <1>4, OthersStay
<1>6. UNCHANGED <<offered, cached, age, holder, waited, gone, steady>>
  BY <1>1 DEF bearerVars
<1>7. BearerTypes'
  BY <1>3, <1>4, <1>6 DEF BearerTypes, LongGone
<1>8. OneFetch'
  BY <1>1, <1>5, <1>6 DEF OneFetch, TokenIn
<1>9. AnswerRecent'
  BY <1>2, <1>3, <1>5, <1>6 DEF AnswerRecent, OfferedNow, TokenIn, BearerTypes
<1>10. CacheRecent' /\ OfferedNow'
  BY <1>4, <1>6 DEF CacheRecent, OfferedNow
<1>11. SteadyAnswered'
  BY <1>3, <1>5, <1>6, TokenIsNotIdle DEF SteadyAnswered, TokenIn, BearerTypes
<1> QED
  BY <1>7, <1>8, <1>9, <1>10, <1>11

\* fetchLocked replaces the cache by an answer no older than the fetch.
LEMMA FetchLockedInv ==
    ASSUME BearerInv, NEW c \in Clients, fetchLocked(c) PROVE BearerInv'
<1> USE DEF BearerInv
<1>1. /\ TokenIn(c, "store") /\ holder = c
      /\ cached' = req[c].body /\ age' = 0 /\ holder' = None /\ waited' = 0
      /\ findLocked(c, req[c].body)
      /\ UNCHANGED <<offered, gone>>
  BY DEF fetchLocked, OneFetch
<1>2. req[c] \in Token /\ req[c] # Idle
  BY <1>1 DEF BearerTypes, TokenIn
<1>3. PICK r \in {Idle} \cup Token :
        /\ req' = [req EXCEPT ![c] = r]
        /\ r # Idle => r.at = "check" /\ r.kid = req[c].kid
        /\ steady' = IF r = Idle THEN steady \ {c} ELSE steady
  <2>1. CASE req[c].kid \in req[c].body
    <3> DEFINE r == [req[c] EXCEPT !.at = "check", !.body = {}]
    <3>1. r \in Token /\ r.at = "check" /\ r.kid = req[c].kid
      BY <1>2 DEF Token
    <3>2. req' = [req EXCEPT ![c] = r] /\ steady' = steady
      BY <1>1, <2>1 DEF findLocked, Goes
    <3> HIDE DEF r
    <3>3. r # Idle
      BY <3>1, TokenIsNotIdle
    <3> QED
      BY <3>1, <3>2, <3>3
  <2>2. CASE req[c].kid \notin req[c].body
    BY <1>1, <2>2 DEF findLocked, Refuses, Fails, Ends
  <2> QED
    BY <2>1, <2>2
<1>4. req'[c] = r /\ \A d \in Clients \ {c} : req'[d] = req[d]
  BY <1>3, OthersStay
<1>5. BearerTypes'
  BY <1>1, <1>2, <1>3, TimesAreNumbers DEF BearerTypes, LongGone, Token
<1>6. OneFetch' /\ AnswerRecent'
  BY <1>1, <1>3, <1>4 DEF OneFetch, AnswerRecent, TokenIn
<1>7. CacheRecent'
  <2>1. \A k \in req[c].body : k \in Kids /\ gone[k] <= FetchTime
    BY <1>1, <1>2, TimesAreNumbers DEF AnswerRecent, BearerTypes, Token
  <2> QED
    BY <1>1, <2>1, TimesAreNumbers DEF CacheRecent, BearerTypes
<1>8. OfferedNow'
  BY <1>1 DEF OfferedNow
<1>9. SteadyAnswered'
  BY <1>1, <1>3, <1>4 DEF SteadyAnswered, TokenIn, BearerTypes
<1> QED
  BY <1>5, <1>6, <1>7, <1>8, <1>9

\* Time passes for the cache, the fetch in progress and the withdrawn keys alike.
LEMMA KeyTickInv ==
    ASSUME BearerInv, KeyTick, UNCHANGED shimVars PROVE BearerInv'
<1> USE DEF BearerInv
<1>1. UNCHANGED <<req, backend, offered, cached, holder, steady>>
  BY DEF KeyTick, shimVars
<1>2. BearerTypes'
  BY <1>1, TimesAreNumbers DEF BearerTypes, KeyTick, UpTo, LongGone
<1>3. OneFetch' /\ SteadyAnswered'
  BY <1>1 DEF OneFetch, SteadyAnswered, TokenIn
<1>4. AnswerRecent'
  <2> SUFFICES ASSUME NEW c \in Clients, TokenIn(c, "store"), NEW k \in req[c].body
               PROVE  gone'[k] <= waited'
    BY <1>1 DEF AnswerRecent, TokenIn
  <2>1. holder = c /\ gone[k] <= waited /\ k \in Kids /\ waited \in Nat /\ gone[k] \in Nat
    BY DEF OneFetch, AnswerRecent, BearerTypes, TokenIn, Token
  <2>2. waited' = waited + 1
    BY <2>1, NoneIsNoClient DEF KeyTick
  <2>3. gone'[k] <= gone[k] + 1
    BY <2>1, TimesAreNumbers DEF KeyTick, UpTo, LongGone, BearerTypes
  <2> QED
    BY <1>2, <2>1, <2>2, <2>3 DEF BearerTypes
<1>5. CacheRecent'
  <2> SUFFICES ASSUME backend = "remote", cached # None, NEW k \in cached
               PROVE  gone'[k] <= age' + FetchTime
    BY <1>1 DEF CacheRecent
  <2>1. k \in Kids /\ gone[k] \in Nat /\ gone[k] <= age + FetchTime /\ gone[k] <= LongGone
        /\ age \in Nat /\ age <= Ttl
    BY DEF BearerTypes, CacheRecent
  <2>2. gone'[k] \in Nat /\ gone'[k] <= gone[k] + 1 /\ gone'[k] <= LongGone
    BY <2>1, TimesAreNumbers DEF KeyTick, UpTo, LongGone
  <2>3. age' = IF age < Ttl THEN age + 1 ELSE Ttl
    BY DEF KeyTick, UpTo
  <2> QED
    BY <2>1, <2>2, <2>3, TimesAreNumbers DEF LongGone
<1>6. OfferedNow'
  BY <1>1 DEF OfferedNow, KeyTick, BearerTypes
<1> QED
  BY <1>2, <1>3, <1>4, <1>5, <1>6

\* A key that is published is no longer withdrawn.
LEMMA PublishesInv ==
    ASSUME BearerInv, NEW k \in Kids, Publishes(k), UNCHANGED shimVars PROVE BearerInv'
<1> USE DEF BearerInv
<1>1. /\ offered' = offered \cup {k} /\ gone' = [gone EXCEPT ![k] = 0]
      /\ UNCHANGED <<req, backend, cached, age, holder, waited, steady>>
  BY DEF Publishes, shimVars
<1>2. \A j \in Kids : gone'[j] \in Nat /\ gone'[j] <= gone[j]
  BY <1>1 DEF BearerTypes
<1>3. BearerTypes'
  BY <1>1, TimesAreNumbers DEF BearerTypes, LongGone
<1>4. OneFetch' /\ SteadyAnswered'
  BY <1>1 DEF OneFetch, SteadyAnswered, TokenIn
<1>5. AnswerRecent'
  <2> SUFFICES ASSUME NEW c \in Clients, TokenIn(c, "store"), NEW j \in req[c].body
               PROVE  gone'[j] <= waited
    BY <1>1 DEF AnswerRecent, TokenIn
  <2>1. gone[j] <= waited /\ j \in Kids /\ waited \in Nat /\ gone[j] \in Nat
    BY DEF AnswerRecent, BearerTypes, TokenIn, Token
  <2> QED
    BY <1>2, <2>1
<1>6. CacheRecent'
  BY <1>1, <1>2, TimesAreNumbers DEF CacheRecent, BearerTypes
<1>7. OfferedNow'
  BY <1>1 DEF OfferedNow, BearerTypes
<1> QED
  BY <1>3, <1>4, <1>5, <1>6, <1>7

\* A key that is withdrawn is, at that moment, withdrawn for no time at all.
LEMMA WithdrawsInv ==
    ASSUME BearerInv, NEW k \in Kids, Withdraws(k), UNCHANGED shimVars PROVE BearerInv'
<1> USE DEF BearerInv
<1>1. /\ offered' = offered \ {k} /\ steady' = {c \in steady : req[c].kid # k}
      /\ UNCHANGED <<req, backend, cached, age, holder, waited, gone>>
  BY DEF Withdraws, shimVars
<1>2. BearerTypes'
  BY <1>1 DEF BearerTypes, LongGone
<1>3. OneFetch' /\ AnswerRecent' /\ CacheRecent' /\ OfferedNow'
  BY <1>1 DEF OneFetch, AnswerRecent, CacheRecent, OfferedNow, TokenIn
<1>4. SteadyAnswered'
  BY <1>1 DEF SteadyAnswered, TokenIn
<1> QED
  BY <1>2, <1>3, <1>4

\* A restart forgets the requests and the fetched keys.
LEMMA RestartsInv ==
    ASSUME BearerInv, Restarts PROVE BearerInv'
<1> USE DEF BearerInv
<1>1. req' = [c \in Clients |-> Idle] /\ age' = 0 /\ waited' = 0 /\ steady' = {} /\ backend' = backend
      /\ cached' = (IF backend = "inmem" THEN cached ELSE None) /\ UNCHANGED <<offered, gone>>
  BY DEF Restarts
<1>2. BearerTypes'
  BY <1>1, TimesAreNumbers DEF BearerTypes, LongGone
<1>3. OneFetch' /\ AnswerRecent' /\ SteadyAnswered'
  BY <1>1 DEF OneFetch, AnswerRecent, SteadyAnswered, TokenIn
<1>4. CacheRecent' /\ OfferedNow'
  BY <1>1 DEF CacheRecent, OfferedNow
<1> QED
  BY <1>2, <1>3, <1>4

\* Every step of the verifier, the issuer and the clock keeps the invariant.
LEMMA BearerStepInv ==
    BearerInv /\ [BearerNext]_<<shimVars, bearerVars>> => BearerInv'
<1> SUFFICES ASSUME BearerInv, [BearerNext]_<<shimVars, bearerVars>> PROVE BearerInv'
  OBVIOUS
<1>1. CASE UNCHANGED <<shimVars, bearerVars>>
  BY <1>1 DEF BearerInv, BearerTypes, OneFetch, AnswerRecent, CacheRecent, SteadyAnswered, OfferedNow,
              TokenIn, LongGone, shimVars, bearerVars
<1>2. ASSUME NEW c \in Clients, Presents(c) PROVE BearerInv'
  BY <1>2, PresentsInv
<1>3. ASSUME NEW c \in Clients, LooksUpGiven(c) PROVE BearerInv'
  BY <1>3, FindInv DEF LooksUpGiven, TokenIn
<1>4. ASSUME NEW c \in Clients, lookup(c) PROVE BearerInv'
  BY <1>4, LookupInv
<1>5. ASSUME NEW c \in Clients, IssuerAnswers(c) PROVE BearerInv'
  BY <1>5, IssuerAnswersInv
<1>6. ASSUME NEW c \in Clients, fetchLocked(c) PROVE BearerInv'
  BY <1>6, FetchLockedInv
<1>7. ASSUME NEW c \in Clients, FetchFails(c) PROVE BearerInv'
  <2>1. holder = c
    BY <1>7 DEF FetchFails, BearerInv, OneFetch
  <2> QED
    BY <1>7, <2>1, EndInv DEF FetchFails, Refuses, Fails, Ends
<1>8. ASSUME NEW c \in Clients, Verify(c) PROVE BearerInv'
  <2>1. req' = [req EXCEPT ![c] = Idle] /\ backend' = backend /\ steady' = steady \ {c}
        /\ UNCHANGED <<offered, cached, age, holder, waited, gone>>
    BY <1>8 DEF Verify, Fails, Ends
  <2> QED
    BY <2>1, EndInv
<1>9. CASE UNCHANGED shimVars /\ KeyTick
  BY <1>9, KeyTickInv
<1>10. ASSUME NEW k \in Kids, UNCHANGED shimVars, Publishes(k) \/ Withdraws(k) PROVE BearerInv'
  BY <1>10, PublishesInv, WithdrawsInv
<1>11. CASE Restarts
  BY <1>11, RestartsInv
<1> QED
  BY <1>1, <1>2, <1>3, <1>4, <1>5, <1>6, <1>7, <1>8, <1>9, <1>10, <1>11 DEF BearerNext

\* Of the key cache (remoteJWKS), for any number of requests and keys, any
\* time-to-live and any fetch time: what the cache holds is at most one fetch
\* older than its age, and only the holder of the mutex fetches.
THEOREM CacheInvariant == BearerSpec => []BearerInv
<1>1. BearerInv /\ [BearerNext]_<<shimVars, bearerVars>> => BearerInv'
  BY BearerStepInv
<1> QED
  BY <1>1, BearerInitInv, PTL DEF BearerSpec

\* A lookup (lookup, fetchLocked) finds no key that was withdrawn longer than the
\* time-to-live and one fetch ago, and refuses none that was published from the
\* request on.
THEOREM KeyLookupsTimely == BearerSpec => LookupsAreTimely
<1>1. ASSUME BearerInv, BearerNext, NEW c \in Clients, backend = "remote", req[c] # Idle, lookup(c)
      PROVE  /\ TokenIn(c, "check")' => gone[req[c].kid] < Ttl + FetchTime
             /\ c \in steady => req'[c] # Idle
  <2>1. req[c] \in Token
    BY <1>1 DEF BearerInv, BearerTypes
  <2>2. CASE Hit(c)
    <3> DEFINE r == [req[c] EXCEPT !.at = "check", !.body = {}]
    <3>1. req' = [req EXCEPT ![c] = r]
      BY <1>1, <2>2 DEF lookup, findLocked, Goes, Hit
    <3>2. r \in Token
      BY <2>1 DEF Token
    <3> HIDE DEF r
    <3>3. req'[c] # Idle
      BY <1>1, <3>1, <3>2, OthersStay, TokenIsNotIdle DEF BearerInv
    <3>4. gone[req[c].kid] <= age + FetchTime /\ age < Ttl /\ req[c].kid \in Kids
      BY <1>1, <2>1, <2>2 DEF Hit, BearerInv, CacheRecent, Token
    <3>5. gone[req[c].kid] < Ttl + FetchTime
      BY <1>1, <3>4, TimesAreNumbers DEF BearerInv, BearerTypes
    <3> QED
      BY <3>3, <3>5
  <2>3. CASE ~Hit(c)
    <3> DEFINE r == [req[c] EXCEPT !.at = "get"]
    <3>1. req' = [req EXCEPT ![c] = r]
      BY <1>1, <2>3 DEF lookup, Goes
    <3>2. r \in Token /\ r.at = "get"
      BY <2>1 DEF Token
    <3> HIDE DEF r
    <3>3. req'[c] = r
      BY <1>1, <3>1, OthersStay DEF BearerInv
    <3> QED
      BY <3>2, <3>3, TokenIsNotIdle DEF TokenIn
  <2> QED
    BY <2>2, <2>3
<1>2. ASSUME BearerInv, BearerNext, NEW c \in Clients, req[c] # Idle, fetchLocked(c)
      PROVE  /\ TokenIn(c, "check")' => gone[req[c].kid] < Ttl + FetchTime
             /\ c \in steady => req'[c] # Idle
  <2>1. req[c] \in Token /\ TokenIn(c, "store")
    BY <1>2 DEF BearerInv, BearerTypes, fetchLocked
  <2>2. CASE req[c].kid \in req[c].body
    <3> DEFINE r == [req[c] EXCEPT !.at = "check", !.body = {}]
    <3>1. req' = [req EXCEPT ![c] = r]
      BY <1>2, <2>2 DEF fetchLocked, findLocked, Goes
    <3>2. r \in Token
      BY <2>1 DEF Token
    <3> HIDE DEF r
    <3>3. req'[c] # Idle
      BY <1>2, <3>1, <3>2, OthersStay, TokenIsNotIdle DEF BearerInv
    <3>4. gone[req[c].kid] <= waited /\ req[c].kid \in Kids
      BY <1>2, <2>1, <2>2 DEF BearerInv, AnswerRecent, Token
    <3>5. gone[req[c].kid] < Ttl + FetchTime
      BY <1>2, <3>4, TimesAreNumbers DEF BearerInv, BearerTypes
    <3> QED
      BY <3>3, <3>5
  <2>3. CASE req[c].kid \notin req[c].body
    <3>1. req'[c] = Idle
      BY <1>2, <2>3, OthersStay DEF fetchLocked, findLocked, Refuses, Fails, Ends, BearerInv
    <3>2. c \notin steady
      BY <1>2, <2>1, <2>3 DEF BearerInv, SteadyAnswered
    <3> QED
      BY <3>1, <3>2 DEF TokenIn
  <2> QED
    BY <2>2, <2>3
<1>3. BearerInv /\ [BearerNext]_<<shimVars, bearerVars>> =>
        [\A c \in Clients :
           /\ service = "bearer" /\ backend = "remote" /\ req[c] # Idle
           /\ lookup(c) \/ fetchLocked(c)
           => /\ TokenIn(c, "check")' => gone[req[c].kid] < Ttl + FetchTime
              /\ c \in steady => req'[c] # Idle]_<<shimVars, bearerVars>>
  BY <1>1, <1>2
<1> QED
  BY <1>3, CacheInvariant, PTL DEF BearerSpec, LookupsAreTimely

-----------------------------------------------------------------------------
(***************************************************************************)
(* DeployedInForce for every number of gateways, routes and clients, on    *)
(* every backend.                                                          *)
(*                                                                         *)
(* The table a deployment leaves holds its routes in the first slots, in   *)
(* their order, and nothing else. While a deployment runs alone and no     *)
(* error was passed over (Way), the gateway it found is still there; as    *)
(* long as it deletes, every route of the old table is among those it is   *)
(* going to delete; and then the table holds the routes created so far.    *)
(* azure looks the API up again for every route, and finds the same one    *)
(* because there is one of a name (OneOfAName).                            *)
(***************************************************************************)

GwTypes ==
    /\ apis \in Seq(ApiRecords \cup {None})
    /\ httpRoutes \in [GatewayNames -> RouteTables]
    /\ pending \in [GatewayNames -> RouteLists]

GwRec(op, at, name, routes, left, operation, id, done, lost) ==
    [op |-> op, at |-> at, name |-> name, routes |-> routes, left |-> left,
     operation |-> operation, id |-> id, done |-> done, lost |-> lost]
IsGwReq(r) ==
    /\ r = GwRec(r.op, r.at, r.name, r.routes, r.left, r.operation, r.id, r.done, r.lost)
    /\ r.op \in {"create", "delete", "deploy", "operation"}
    /\ r.name \in GatewayNames
    /\ r.routes \in RouteLists
    /\ r.lost \in BOOLEAN
    /\ r.done \in Nat
    /\ r.op = "deploy" /\ r.at # "create" => r.done = 0
GwReqs ==
    /\ DOMAIN req = Clients /\ req = [c \in Clients |-> req[c]]
    /\ \A c \in Clients : req[c] = Idle \/ IsGwReq(req[c])

OneOfAName ==
    backend = "azure" =>
        \A i \in DOMAIN apis, j \in DOMAIN apis :
            apis[i] # None /\ apis[j] # None /\ apis[i].name = apis[j].name => i = j

\* The table request r works on, with backend b, APIs A and HTTPRoutes H.
GwTable(r, b, A, H) == IF b = "envoy" THEN H[r.name] ELSE A[r.id].table
Way(r, b, A, H) ==
    r.op = "deploy" /\ r.at # "first" /\ r.lost # TRUE =>
        /\ b # "inmem"
        /\ r.id \in DOMAIN A /\ A[r.id] # None /\ A[r.id].name = r.name
        /\ r.at = "wipe" => \A s \in Slots : GwTable(r, b, A, H)[s] # None => s \in r.left
        /\ r.at = "create" =>
             /\ r.done \in 0..Len(r.routes)
             /\ \A s \in Slots : GwTable(r, b, A, H)[s] =
                    IF s <= r.done THEN (IF b = "azure" THEN Route(r.routes[s].key, None, None)
                                         ELSE r.routes[s])
                    ELSE None
\* The table in force of API i holds the routes, in their order, and no more.
GwServes(i, routes, b, A, H) ==
    \A s \in Slots :
        (IF b = "envoy" THEN H[A[i].name] ELSE A[i].table)[s] =
            IF s <= Len(routes) THEN (IF b = "azure" THEN Route(routes[s].key, None, None) ELSE routes[s])
            ELSE None
GwAlone ==
    \A c \in Clients : alone = c =>
        /\ \A d \in Clients \ {c} : req[d] = Idle
        /\ Way(req[c], backend, apis, httpRoutes)

GwInv == GwTypes /\ GwReqs /\ OneOfAName /\ GwAlone /\ DeployedInForce

-----------------------------------------------------------------------------
(* Lists of routes, tables and APIs                                         *)

LEMMA GwLists ==
    ASSUME NEW s \in RouteLists
    PROVE  /\ s \in Seq(AllRoutes) /\ Len(s) \in 0..MaxRoutes
           /\ DOMAIN s = 1..Len(s) /\ DOMAIN s \subseteq Slots
           /\ \A i \in DOMAIN s : s[i] \in AllRoutes /\ s[i] # None
<1>1. PICK n \in 0..MaxRoutes : s \in [1..n -> AllRoutes]
  BY DEF RouteLists
<1>2. n \in Nat /\ MaxRoutes \in Nat
  BY RoutesAreSome
<1>3. s \in Seq(AllRoutes) /\ Len(s) = n
  BY <1>1, <1>2
<1> QED BY <1>1, <1>2, <1>3, RoutesAreSome DEF Slots

LEMMA GwListsAre ==
    ASSUME NEW s \in Seq(AllRoutes), Len(s) <= MaxRoutes
    PROVE  s \in RouteLists
BY RoutesAreSome DEF RouteLists

LEMMA GwShortLists ==
    /\ <<>> \in RouteLists
    /\ \A r \in AllRoutes : <<r>> \in RouteLists
<1>0. 0 \in 0..MaxRoutes /\ 1 \in 0..MaxRoutes
  BY RoutesAreSome
<1>1. <<>> \in [1..0 -> AllRoutes]
  OBVIOUS
<1>2. ASSUME NEW r \in AllRoutes PROVE <<r>> \in [1..1 -> AllRoutes]
  OBVIOUS
<1> QED BY <1>0, <1>1, <1>2 DEF RouteLists

LEMMA GwRouteTyped ==
    ASSUME NEW k \in RouteKeys, NEW u \in Targets \cup {None}, NEW id \in Operations \cup {None}
    PROVE  Route(k, u, id) \in AllRoutes
BY DEF Route, AllRoutes

LEMMA GwRouteStripped ==
    ASSUME NEW r \in AllRoutes
    PROVE  /\ [r EXCEPT !.to = None, !.id = None] = Route(r.key, None, None)
           /\ Route(r.key, None, None) \in AllRoutes
<1>1. [r EXCEPT !.to = None] = [key |-> r.key, to |-> None, id |-> r.id]
  BY DEF AllRoutes
<1>2. ASSUME NEW q, q = [key |-> r.key, to |-> None, id |-> r.id]
      PROVE  [q EXCEPT !.id = None] = [key |-> r.key, to |-> None, id |-> None]
  BY <1>2
<1>2a. [r EXCEPT !.to = None, !.id = None] = [key |-> r.key, to |-> None, id |-> None]
  BY <1>1, <1>2, Zenon
<1>3. r.key \in RouteKeys
  BY DEF AllRoutes
<1> QED BY <1>2a, <1>3, GwRouteTyped DEF Route

LEMMA GwNoRoutes == NoRoutes \in RouteTables
BY DEF NoRoutes, RouteTables

LEMMA GwTableOf ==
    ASSUME NEW s \in RouteLists
    PROVE  /\ TableOf(s) \in RouteTables
           /\ \A i \in Slots : TableOf(s)[i] = IF i <= Len(s) THEN s[i] ELSE None
<1>1. /\ DOMAIN s = 1..Len(s) /\ DOMAIN s \subseteq Slots /\ Len(s) \in Nat
      /\ \A i \in DOMAIN s : s[i] \in AllRoutes
  BY GwLists, RoutesAreSome
<1>2. \A i \in Slots : i \in Nat /\ i >= 1
  BY RoutesAreSome DEF Slots
<1>3. \A i \in Slots : i \in DOMAIN s <=> i <= Len(s)
  BY <1>1, <1>2
<1> QED BY <1>1, <1>3 DEF TableOf, RouteTables

LEMMA GwApiTyped ==
    ASSUME NEW g \in GatewayNames, NEW st \in ApiStatuses
    PROVE  NewGateway(g, st) \in ApiRecords /\ NewGateway(g, st).name = g
BY GwNoRoutes DEF NewGateway, ApiRecords

LEMMA GwApiEdited ==
    ASSUME NEW a \in ApiRecords
    PROVE  /\ \A t \in RouteTables : /\ [a EXCEPT !.table = t] \in ApiRecords
                                  /\ [a EXCEPT !.table = t].name = a.name
                                  /\ [a EXCEPT !.table = t].table = t
           /\ \A st \in ApiStatuses : /\ [a EXCEPT !.status = st] \in ApiRecords
                                     /\ [a EXCEPT !.status = st].name = a.name
                                     /\ [a EXCEPT !.status = st].table = a.table
           /\ [a EXCEPT !.configured = TRUE] \in ApiRecords /\ [a EXCEPT !.configured = TRUE].name = a.name
           /\ [a EXCEPT !.configured = TRUE].table = a.table
           /\ \A b \in BOOLEAN : /\ [a EXCEPT !.live = b] \in ApiRecords
                                 /\ [a EXCEPT !.live = b].name = a.name
                                 /\ [a EXCEPT !.live = b].table = a.table
BY DEF ApiRecords

\* What a step may do to the APIs.
GwEdits ==
    /\ apis' \in [DOMAIN apis -> ApiRecords \cup {None}]
    /\ \A i \in DOMAIN apis :
          apis'[i] # None => apis[i] # None /\ apis'[i].name = apis[i].name
GwAdds == \E g \in GatewayNames, st \in ApiStatuses :
    apis' = Append(apis, NewGateway(g, st)) /\ (backend = "azure" => Named(g) = {})

LEMMA GwApisKept ==
    ASSUME GwInv, apis' = apis \/ GwEdits \/ GwAdds, backend' = backend,
           httpRoutes' \in [GatewayNames -> RouteTables], pending' \in [GatewayNames -> RouteLists]
    PROVE  GwTypes' /\ OneOfAName'
<1>0. apis \in Seq(ApiRecords \cup {None}) /\ DOMAIN apis = 1..Len(apis) /\ Len(apis) \in Nat
  BY DEF GwInv, GwTypes
<1>1. CASE apis' = apis
  BY <1>1 DEF GwInv, GwTypes, OneOfAName
<1>2. CASE GwEdits
  <2>1. apis' \in Seq(ApiRecords \cup {None}) /\ DOMAIN apis' = DOMAIN apis
    BY <1>0, <1>2 DEF GwEdits
  <2>2. OneOfAName'
    BY <1>2, <2>1 DEF GwEdits, GwInv, OneOfAName
  <2> QED BY <2>1, <2>2 DEF GwTypes
<1>3. CASE GwAdds
  <2>1. PICK g \in GatewayNames, st \in ApiStatuses :
          apis' = Append(apis, NewGateway(g, st)) /\ (backend = "azure" => Named(g) = {})
    BY <1>3 DEF GwAdds
  <2> DEFINE a == NewGateway(g, st)
             n == Len(apis) + 1
  <2>2. a \in ApiRecords /\ a.name = g
    BY GwApiTyped
  <2>2a. apis' = Append(apis, a)
    BY <2>1
  <2> HIDE DEF a
  <2>3. /\ apis' \in Seq(ApiRecords \cup {None}) /\ DOMAIN apis' = 1..n /\ apis'[n] = a
        /\ \A i \in DOMAIN apis : apis'[i] = apis[i]
    <3>1. a \in ApiRecords \cup {None}
      BY <2>2
    <3>2. /\ Append(apis, a) \in Seq(ApiRecords \cup {None})
          /\ Len(Append(apis, a)) = Len(apis) + 1
          /\ \A i \in 1..Len(apis) : Append(apis, a)[i] = apis[i]
          /\ Append(apis, a)[Len(apis) + 1] = a
      BY <1>0, <3>1, AppendProperties
    <3>3. DOMAIN Append(apis, a) = 1..Len(Append(apis, a))
      BY <3>2, LenProperties
    <3>4. /\ apis' \in Seq(ApiRecords \cup {None}) /\ DOMAIN apis' = 1..(Len(apis) + 1)
          /\ apis'[Len(apis) + 1] = a
          /\ \A i \in 1..Len(apis) : apis'[i] = apis[i]
      BY <2>2a, <3>2, <3>3, Zenon
    <3> QED BY <1>0, <3>4, Zenon DEF n
  <2>4. \A i \in DOMAIN apis' : i = n \/ i \in DOMAIN apis
    BY <1>0, <2>3
  <2>5. backend = "azure" => \A i \in DOMAIN apis : apis[i] # None => apis[i].name # g
    BY <2>1 DEF Named
  <2>6. OneOfAName'
    BY <2>2, <2>3, <2>4, <2>5 DEF OneOfAName, GwInv
  <2> QED BY <2>3, <2>6 DEF GwTypes
<1> QED BY <1>1, <1>2, <1>3

-----------------------------------------------------------------------------
(* Requests                                                                 *)

\* What a step makes of a request.
LEMMA GwAt ==
    ASSUME NEW r, IsGwReq(r), NEW at, NEW q,
           q = [r EXCEPT !.at = at]
    PROVE  q = GwRec(r.op, at, r.name, r.routes, r.left, r.operation, r.id, r.done, r.lost)
<1>1. r = GwRec(r.op, r.at, r.name, r.routes, r.left, r.operation, r.id, r.done, r.lost)
  BY Zenon DEF IsGwReq
<1> QED BY <1>1 DEF GwRec

LEMMA GwAtLeft ==
    ASSUME NEW r, IsGwReq(r), NEW at, NEW left, NEW q,
           q = [r EXCEPT !.at = at, !.left = left]
    PROVE  q = GwRec(r.op, at, r.name, r.routes, left, r.operation, r.id, r.done, r.lost)
<1>1. r = GwRec(r.op, r.at, r.name, r.routes, r.left, r.operation, r.id, r.done, r.lost)
  BY Zenon DEF IsGwReq
<1>2. PICK p1 : p1 = [r EXCEPT !.at = at]
  OBVIOUS
<1>3. p1 = GwRec(r.op, at, r.name, r.routes, r.left, r.operation, r.id, r.done, r.lost)
  BY <1>1, <1>2 DEF GwRec
<1>4. [p1 EXCEPT !.left = left] = GwRec(r.op, at, r.name, r.routes, left, r.operation, r.id, r.done, r.lost)
  BY <1>3 DEF GwRec
<1> QED BY <1>2, <1>4, Zenon

LEMMA GwAtLost ==
    ASSUME NEW r, IsGwReq(r), NEW at, NEW lost, NEW q,
           q = [r EXCEPT !.at = at, !.lost = lost]
    PROVE  q = GwRec(r.op, at, r.name, r.routes, r.left, r.operation, r.id, r.done, lost)
<1>1. r = GwRec(r.op, r.at, r.name, r.routes, r.left, r.operation, r.id, r.done, r.lost)
  BY Zenon DEF IsGwReq
<1>2. PICK p1 : p1 = [r EXCEPT !.at = at]
  OBVIOUS
<1>3. p1 = GwRec(r.op, at, r.name, r.routes, r.left, r.operation, r.id, r.done, r.lost)
  BY <1>1, <1>2 DEF GwRec
<1>4. [p1 EXCEPT !.lost = lost] = GwRec(r.op, at, r.name, r.routes, r.left, r.operation, r.id, r.done, lost)
  BY <1>3 DEF GwRec
<1> QED BY <1>2, <1>4, Zenon

LEMMA GwAtId ==
    ASSUME NEW r, IsGwReq(r), NEW at, NEW id, NEW q,
           q = [r EXCEPT !.at = at, !.id = id]
    PROVE  q = GwRec(r.op, at, r.name, r.routes, r.left, r.operation, id, r.done, r.lost)
<1>1. r = GwRec(r.op, r.at, r.name, r.routes, r.left, r.operation, r.id, r.done, r.lost)
  BY Zenon DEF IsGwReq
<1>2. PICK p1 : p1 = [r EXCEPT !.at = at]
  OBVIOUS
<1>3. p1 = GwRec(r.op, at, r.name, r.routes, r.left, r.operation, r.id, r.done, r.lost)
  BY <1>1, <1>2 DEF GwRec
<1>4. [p1 EXCEPT !.id = id] = GwRec(r.op, at, r.name, r.routes, r.left, r.operation, id, r.done, r.lost)
  BY <1>3 DEF GwRec
<1> QED BY <1>2, <1>4, Zenon

LEMMA GwAtIdLeft ==
    ASSUME NEW r, IsGwReq(r), NEW at, NEW id, NEW left, NEW q,
           q = [r EXCEPT !.at = at, !.id = id, !.left = left]
    PROVE  q = GwRec(r.op, at, r.name, r.routes, left, r.operation, id, r.done, r.lost)
<1>1. r = GwRec(r.op, r.at, r.name, r.routes, r.left, r.operation, r.id, r.done, r.lost)
  BY Zenon DEF IsGwReq
<1>2. PICK p1 : p1 = [r EXCEPT !.at = at]
  OBVIOUS
<1>3. p1 = GwRec(r.op, at, r.name, r.routes, r.left, r.operation, r.id, r.done, r.lost)
  BY <1>1, <1>2 DEF GwRec
<1>4. PICK p2 : p2 = [p1 EXCEPT !.id = id]
  OBVIOUS
<1>5. p2 = GwRec(r.op, at, r.name, r.routes, r.left, r.operation, id, r.done, r.lost)
  BY <1>3, <1>4 DEF GwRec
<1>6. [p2 EXCEPT !.left = left] = GwRec(r.op, at, r.name, r.routes, left, r.operation, id, r.done, r.lost)
  BY <1>5 DEF GwRec
<1> QED BY <1>2, <1>4, <1>6, Zenon

LEMMA GwLeft ==
    ASSUME NEW r, IsGwReq(r), NEW left, NEW q,
           q = [r EXCEPT !.left = left]
    PROVE  q = GwRec(r.op, r.at, r.name, r.routes, left, r.operation, r.id, r.done, r.lost)
<1>1. r = GwRec(r.op, r.at, r.name, r.routes, r.left, r.operation, r.id, r.done, r.lost)
  BY Zenon DEF IsGwReq
<1> QED BY <1>1 DEF GwRec

LEMMA GwLeftLost ==
    ASSUME NEW r, IsGwReq(r), NEW left, NEW lost, NEW q,
           q = [r EXCEPT !.left = left, !.lost = lost]
    PROVE  q = GwRec(r.op, r.at, r.name, r.routes, left, r.operation, r.id, r.done, lost)
<1>1. r = GwRec(r.op, r.at, r.name, r.routes, r.left, r.operation, r.id, r.done, r.lost)
  BY Zenon DEF IsGwReq
<1>2. PICK p1 : p1 = [r EXCEPT !.left = left]
  OBVIOUS
<1>3. p1 = GwRec(r.op, r.at, r.name, r.routes, left, r.operation, r.id, r.done, r.lost)
  BY <1>1, <1>2 DEF GwRec
<1>4. [p1 EXCEPT !.lost = lost] = GwRec(r.op, r.at, r.name, r.routes, left, r.operation, r.id, r.done, lost)
  BY <1>3 DEF GwRec
<1> QED BY <1>2, <1>4, Zenon

LEMMA GwDone ==
    ASSUME NEW r, IsGwReq(r), NEW done, NEW q,
           q = [r EXCEPT !.done = done]
    PROVE  q = GwRec(r.op, r.at, r.name, r.routes, r.left, r.operation, r.id, done, r.lost)
<1>1. r = GwRec(r.op, r.at, r.name, r.routes, r.left, r.operation, r.id, r.done, r.lost)
  BY Zenon DEF IsGwReq
<1> QED BY <1>1 DEF GwRec

LEMMA GwDoneId ==
    ASSUME NEW r, IsGwReq(r), NEW done, NEW id, NEW q,
           q = [r EXCEPT !.done = done, !.id = id]
    PROVE  q = GwRec(r.op, r.at, r.name, r.routes, r.left, r.operation, id, done, r.lost)
<1>1. r = GwRec(r.op, r.at, r.name, r.routes, r.left, r.operation, r.id, r.done, r.lost)
  BY Zenon DEF IsGwReq
<1>2. PICK p1 : p1 = [r EXCEPT !.done = done]
  OBVIOUS
<1>3. p1 = GwRec(r.op, r.at, r.name, r.routes, r.left, r.operation, r.id, done, r.lost)
  BY <1>1, <1>2 DEF GwRec
<1>4. [p1 EXCEPT !.id = id] = GwRec(r.op, r.at, r.name, r.routes, r.left, r.operation, id, done, r.lost)
  BY <1>3 DEF GwRec
<1> QED BY <1>2, <1>4, Zenon

\* A record of the right fields is a request.
\* The requests the frontends make.
LEMMA GwNewReqs ==
    ASSUME NEW g \in GatewayNames, NEW op \in {"create", "delete"}, NEW routes \in RouteLists, NEW id
    PROVE  /\ IsGwReq(GwReq(op, "first", g)) /\ GwReq(op, "first", g).op = op
           /\ IsGwReq(DeployReq(g, routes)) /\ DeployReq(g, routes).at = "first"
           /\ IsGwReq(OperationReq(g, id, routes)) /\ OperationReq(g, id, routes).op = "operation"
<1>0. PICK f \in BOOLEAN : f = FALSE
  OBVIOUS
<1>a. PICK e \in RouteLists : e = <<>>
  BY GwShortLists
<1>b. ASSUME NEW o, NEW at PROVE GwReq(o, at, g) = GwRec(o, at, g, e, {}, None, 0, 0, f)
  BY <1>0, <1>a, Zenon DEF GwReq, GwRec
<1>1. GwReq(op, "first", g) = GwRec(op, "first", g, e, {}, None, 0, 0, f)
  BY <1>b, Zenon
<1>2. DeployReq(g, routes) = GwRec("deploy", "first", g, routes, {}, None, 0, 0, f)
  <2>1. PICK q : q = GwReq("deploy", "first", g)
    OBVIOUS
  <2>2. q = GwRec("deploy", "first", g, e, {}, None, 0, 0, f)
    BY <1>b, <2>1, Zenon
  <2>3. [q EXCEPT !.routes = routes] = GwRec("deploy", "first", g, routes, {}, None, 0, 0, f)
    BY <2>2 DEF GwRec
  <2> QED BY <2>1, <2>3, Zenon DEF DeployReq
<1>3. OperationReq(g, id, routes) = GwRec("operation", "describe", g, routes, {}, id, 0, 0, f)
  <2>1. PICK q : q = GwReq("operation", "describe", g)
    OBVIOUS
  <2>2. PICK p : p = [q EXCEPT !.operation = id]
    OBVIOUS
  <2>3. q = GwRec("operation", "describe", g, e, {}, None, 0, 0, f)
    BY <1>b, <2>1, Zenon
  <2>4. p = GwRec("operation", "describe", g, e, {}, id, 0, 0, f)
    BY <2>2, <2>3 DEF GwRec
  <2>5. [p EXCEPT !.routes = routes] = GwRec("operation", "describe", g, routes, {}, id, 0, 0, f)
    BY <2>4 DEF GwRec
  <2> QED BY <2>1, <2>2, <2>5, Zenon DEF OperationReq
<1>4. IsGwReq(GwReq(op, "first", g)) /\ GwReq(op, "first", g).op = op
  BY <1>1 DEF GwRec, IsGwReq
<1>5. IsGwReq(DeployReq(g, routes)) /\ DeployReq(g, routes).at = "first"
  BY <1>2 DEF GwRec, IsGwReq
<1>6. IsGwReq(OperationReq(g, id, routes)) /\ OperationReq(g, id, routes).op = "operation"
  BY <1>3 DEF GwRec, IsGwReq
<1> QED BY <1>4, <1>5, <1>6, Zenon

-----------------------------------------------------------------------------
(* What the ends, the beginnings and the goings on of requests keep         *)

GwCalm == GwReqs' /\ GwAlone' /\ DeployedInForce'

LEMMA GwGoesKeeps ==
    ASSUME GwInv, NEW c \in Clients, req[c] # Idle, NEW q, Goes(c, q), IsGwReq(q),
           alone = c => Way(q, backend, apis', httpRoutes')
    PROVE  GwCalm /\ backend' = backend
<1>1. req' = [req EXCEPT ![c] = q] /\ alone' = alone /\ backend' = backend /\ answer' = None
  BY DEF Goes
<1>2. /\ DOMAIN req' = Clients /\ req' = [d \in Clients |-> req'[d]]
      /\ req'[c] = q /\ \A d \in Clients \ {c} : req'[d] = req[d]
  BY <1>1 DEF GwInv, GwReqs
<1>3. GwReqs'
  BY <1>2 DEF GwInv, GwReqs
<1>4. GwAlone'
  <2> SUFFICES ASSUME NEW a \in Clients, alone' = a
               PROVE  /\ \A d \in Clients \ {a} : req'[d] = Idle
                      /\ Way(req'[a], backend', apis', httpRoutes')
    BY DEF GwAlone
  <2>1. a = c
    BY <1>1 DEF GwInv, GwAlone
  <2>2. \A d \in Clients \ {a} : req'[d] = Idle
    BY <1>1, <1>2, <2>1 DEF GwInv, GwAlone
  <2> QED BY <1>1, <1>2, <2>1, <2>2
<1> QED BY <1>1, <1>3, <1>4 DEF DeployedInForce, GwCalm

LEMMA GwEndsKeeps ==
    ASSUME GwInv, NEW c \in Clients, NEW says, Ends(c, says)
    PROVE  GwReqs' /\ GwAlone' /\ backend' = backend /\ (says = None => GwCalm)
<1>1. req' = [req EXCEPT ![c] = Idle] /\ alone' = None /\ backend' = backend
  BY DEF Ends
<1>2. /\ DOMAIN req' = Clients /\ req' = [d \in Clients |-> req'[d]]
      /\ req'[c] = Idle /\ \A d \in Clients \ {c} : req'[d] = req[d]
  BY <1>1 DEF GwInv, GwReqs
<1>3. GwReqs'
  BY <1>2 DEF GwInv, GwReqs
<1>4. GwAlone'
  BY <1>1, NoneIsNoClient DEF GwAlone
<1>5. says = None => answer' = None
  BY DEF Ends
<1> QED BY <1>1, <1>3, <1>4, <1>5 DEF DeployedInForce, GwCalm

LEMMA GwBeginKeeps ==
    ASSUME GwInv, NEW c \in Clients, NEW r, Begin(c, r), IsGwReq(r), r.op # "deploy" \/ r.at = "first"
    PROVE  GwCalm /\ backend' = backend
<1>1. /\ req' = [req EXCEPT ![c] = r] /\ backend' = backend /\ answer' = None
      /\ alone' = (IF Running(c) = {} THEN c ELSE None)
  BY DEF Begin
<1>2. /\ DOMAIN req' = Clients /\ req' = [d \in Clients |-> req'[d]]
      /\ req'[c] = r /\ \A d \in Clients \ {c} : req'[d] = req[d]
  BY <1>1 DEF GwInv, GwReqs
<1>3. GwReqs'
  BY <1>2 DEF GwInv, GwReqs
<1>4. GwAlone'
  <2> SUFFICES ASSUME NEW a \in Clients, alone' = a
               PROVE  /\ \A d \in Clients \ {a} : req'[d] = Idle
                      /\ Way(req'[a], backend', apis', httpRoutes')
    BY DEF GwAlone
  <2>1. a = c /\ Running(c) = {}
    BY <1>1, NoneIsNoClient
  <2> QED BY <1>2, <2>1 DEF Way, Running
<1> QED BY <1>1, <1>3, <1>4 DEF DeployedInForce, GwCalm

\* A step that leaves requests and tables alone.
LEMMA GwStillKeeps ==
    ASSUME GwInv, UNCHANGED <<backend, req, alone, apis, httpRoutes>>, answer' = None
    PROVE  GwCalm
<1>1. GwReqs' /\ GwAlone'
  BY DEF GwInv, GwReqs, GwAlone
<1> QED BY <1>1 DEF DeployedInForce, GwCalm

\* A deployment that ends with the table it was to leave.
LEMMA GwDeployedKeeps ==
    ASSUME GwInv, NEW c \in Clients, NEW i, Deployed(c, i), IsGwReq(req[c]),
           alone = c /\ req[c].lost # TRUE => GwServes(i, req[c].routes, backend, apis', httpRoutes')
    PROVE  GwCalm /\ backend' = backend
<1>0. PICK routes : routes = req[c].routes
  OBVIOUS
<1>1. PICK says : Ends(c, says) /\ says = IF req[c].lost THEN None ELSE [gateway |-> i, routes |-> routes]
  BY <1>0 DEF Deployed
<1>2. GwReqs' /\ GwAlone' /\ backend' = backend
  BY <1>1, GwEndsKeeps
<1>3. answer' = None \/ (alone = c /\ req[c].lost # TRUE /\ answer' = [gateway |-> i, routes |-> routes])
  <2>1. req[c].lost \in BOOLEAN
    BY DEF IsGwReq
  <2> QED BY <1>1, <2>1 DEF Ends
<1>4. CASE answer' = None
  BY <1>2, <1>4 DEF DeployedInForce, GwCalm
<1>5. CASE alone = c /\ req[c].lost # TRUE /\ answer' = [gateway |-> i, routes |-> routes]
  <2>0. routes \in RouteLists
    BY <1>0 DEF IsGwReq
  <2>a. PICK t : t = IF backend = "envoy" THEN httpRoutes'[apis'[i].name] ELSE apis'[i].table
    OBVIOUS
  <2>b. \A s \in Slots : t[s] = IF s <= Len(routes)
                                THEN (IF backend = "azure" THEN Route(routes[s].key, None, None)
                                      ELSE routes[s])
                                ELSE None
    BY <1>0, <1>5, <2>a DEF GwServes
  <2>1. answer'.gateway = i /\ answer'.routes = routes
    BY <1>5
  <2>2. InForce(answer.gateway)' = t
    BY <1>2, <1>5, <2>1, <2>a DEF InForce
  <2>3. /\ DOMAIN routes = 1..Len(routes) /\ DOMAIN routes \subseteq Slots /\ Len(routes) \in Nat
        /\ \A n \in DOMAIN routes : routes[n] \in AllRoutes
    BY <2>0, GwLists, RoutesAreSome
  <2>4. \A n \in DOMAIN routes : t[n] = Kept(routes[n])' /\ n <= Len(routes)
    <3>1. \A n \in DOMAIN routes : n <= Len(routes) /\ n \in Slots /\ routes[n] \in AllRoutes
      BY <2>3
    <3>2. \A n \in DOMAIN routes : t[n] = IF backend = "azure" THEN Route(routes[n].key, None, None)
                                          ELSE routes[n]
      BY <2>b, <3>1
    <3>3. ASSUME NEW n \in DOMAIN routes PROVE t[n] = Kept(routes[n])'
      BY <1>2, <3>1, <3>2, GwRouteStripped DEF Kept
    <3> QED BY <3>1, <3>3
  <2>5. \A s \in Slots : s \in DOMAIN routes \/ t[s] = None
    <3>1. \A s \in Slots : s \in Nat /\ s >= 1
      BY RoutesAreSome DEF Slots
    <3> QED BY <2>b, <2>3, <3>1
  <2>6. ASSUME NEW r, r # None
        PROVE  {s \in Slots : t[s] = r} = {n \in DOMAIN routes : Kept(routes[n])' = r}
    BY <2>3, <2>4, <2>5, <2>6
  <2>7. DeployedInForce'
    <3> SUFFICES ASSUME NEW r, r # None
                 PROVE  Cardinality({s \in Slots : InForce(answer.gateway)'[s] = r})
                          = Cardinality({n \in DOMAIN answer'.routes : Kept(answer.routes[n])' = r})
      BY DEF DeployedInForce
    <3>1. {s \in Slots : InForce(answer.gateway)'[s] = r} = {n \in DOMAIN answer'.routes : Kept(answer.routes[n])' = r}
      <4>1. \A n : Kept(answer.routes[n])' = Kept(routes[n])'
        BY <2>1 DEF Kept
      <4>2. {n \in DOMAIN answer'.routes : Kept(answer.routes[n])' = r} = {n \in DOMAIN routes : Kept(routes[n])' = r}
        BY <2>1, <4>1
      <4> QED BY <2>2, <2>6, <4>2
    <3> QED BY <3>1
  <2> QED BY <1>2, <2>7 DEF GwCalm
<1> QED BY <1>2, <1>3, <1>4, <1>5

LEMMA GwNamed ==
    ASSUME NEW g, NEW i, i \in Named(g)
    PROVE  i \in DOMAIN apis /\ apis[i] # None /\ apis[i].name = g
BY DEF Named

LEMMA GwApisAre ==
    ASSUME GwInv
    PROVE  /\ DOMAIN apis = 1..Len(apis) /\ Len(apis) \in Nat /\ 0 \notin DOMAIN apis
           /\ \A i \in DOMAIN apis : apis[i] # None => apis[i] \in ApiRecords /\ apis[i].table \in RouteTables
           /\ apis \in [DOMAIN apis -> ApiRecords \cup {None}]
<1>1. apis \in Seq(ApiRecords \cup {None})
  BY DEF GwInv, GwTypes
<1>2. DOMAIN apis = 1..Len(apis) /\ Len(apis) \in Nat
  BY <1>1
<1>3. \A i \in DOMAIN apis : apis[i] \in ApiRecords \cup {None}
  BY <1>1, <1>2
<1>4. \A a \in ApiRecords : a.table \in RouteTables
  BY DEF ApiRecords
<1>5. apis \in [DOMAIN apis -> ApiRecords \cup {None}]
  BY <1>1, <1>2
<1> QED BY <1>2, <1>3, <1>4, <1>5

LEMMA GwRequest ==
    ASSUME GwInv, NEW c \in Clients, req[c] # Idle
    PROVE  IsGwReq(req[c]) /\ req[c].name \in GatewayNames /\ req[c].routes \in RouteLists
BY DEF GwInv, GwReqs, IsGwReq

LEMMA GwWay ==
    ASSUME GwInv, NEW c \in Clients, alone = c
    PROVE  Way(req[c], backend, apis, httpRoutes)
BY DEF GwInv, GwAlone

LEMMA GwSame ==
    ASSUME GwInv, SameGateways, backend' = backend
    PROVE  GwTypes' /\ OneOfAName'
BY GwApisKept DEF SameGateways, gatewayVars, GwInv, GwTypes

LEMMA GwRefusedKeeps ==
    ASSUME GwInv, NEW c \in Clients, GwRefused(c)
    PROVE  GwInv'
BY GwSame, GwEndsKeeps DEF GwRefused, Fails, GwInv, GwCalm

LEMMA GwGoesSame ==
    ASSUME GwInv, NEW c \in Clients, req[c] # Idle, NEW q, GwGoes(c, q), IsGwReq(q),
           alone = c => Way(q, backend, apis, httpRoutes)
    PROVE  GwInv'
<1>1. Goes(c, q) /\ SameGateways /\ apis' = apis /\ httpRoutes' = httpRoutes
  BY DEF GwGoes, SameGateways, gatewayVars
<1>2. GwCalm /\ backend' = backend
  BY <1>1, GwGoesKeeps
<1> QED BY <1>1, <1>2, GwSame DEF GwInv, GwCalm

\* One API changed, or dropped.
LEMMA GwEditOne ==
    ASSUME GwInv, NEW i, NEW a, apis' = [apis EXCEPT ![i] = a],
           i \in DOMAIN apis => apis[i] # None /\ (a = None \/ (a \in ApiRecords /\ a.name = apis[i].name))
    PROVE  GwEdits /\ DOMAIN apis' = DOMAIN apis /\ (i \in DOMAIN apis => apis'[i] = a)
BY GwApisAre DEF GwEdits

\* One table replaced.
LEMMA GwPuts ==
    ASSUME GwInv, NEW i, NEW t \in RouteTables, Puts(i, t), i \in DOMAIN apis => apis[i] # None
    PROVE  /\ GwEdits /\ httpRoutes' = httpRoutes /\ pending' = pending
           /\ DOMAIN apis' = DOMAIN apis
           /\ i \in DOMAIN apis => /\ apis'[i] # None /\ apis'[i].name = apis[i].name
                                   /\ apis'[i].table = t
<1>1. PICK a : a = [apis[i] EXCEPT !.table = t]
  OBVIOUS
<1>2. apis' = [apis EXCEPT ![i] = a] /\ httpRoutes' = httpRoutes /\ pending' = pending
  BY <1>1 DEF Puts, OnlyApis
<1>3. i \in DOMAIN apis => a \in ApiRecords /\ a.name = apis[i].name /\ a.table = t
  BY <1>1, GwApisAre, GwApiEdited
<1>4. GwEdits /\ DOMAIN apis' = DOMAIN apis /\ (i \in DOMAIN apis => apis'[i] = a)
  BY <1>2, <1>3, GwEditOne
<1>5. i \in DOMAIN apis => a # None
  BY <1>3, ApisAreSome
<1> QED BY <1>2, <1>3, <1>4, <1>5

-----------------------------------------------------------------------------
(* The requests the frontends take                                          *)

LEMMA GwBeginsKeeps ==
    ASSUME GwInv, NEW c \in Clients, NEW r, GwBegins(c, r), IsGwReq(r), r.op # "deploy" \/ r.at = "first"
    PROVE  GwInv'
BY GwSame, GwBeginKeeps DEF GwBegins, GwInv, GwCalm

LEMMA GwInMemory ==
    ASSUME GwInv, NEW c \in Clients, InMemory(c), pending' \in [GatewayNames -> RouteLists]
    PROVE  GwInv'
<1>1. UNCHANGED <<backend, req, alone, apis, httpRoutes>> /\ answer' = None
  BY DEF InMemory
<1>2. GwTypes' /\ OneOfAName'
  BY <1>1, GwApisKept DEF GwInv, GwTypes
<1> QED BY <1>1, <1>2, GwStillKeeps DEF GwInv, GwCalm

LEMMA GwRequestsKeep ==
    ASSUME GwInv, NEW c \in Clients, GatewayRequests(c)
    PROVE  GwInv'
<1>0. pending \in [GatewayNames -> RouteLists] /\ <<>> \in RouteLists
  BY GwShortLists DEF GwInv, GwTypes
<1>1. CASE \E g \in GatewayNames, op \in {"create", "delete"} : GwBegins(c, GwReq(op, "first", g))
  <2>1. PICK g \in GatewayNames, op \in {"create", "delete"} : GwBegins(c, GwReq(op, "first", g))
    BY <1>1
  <2>2. PICK r : r = GwReq(op, "first", g)
    OBVIOUS
  <2>3. IsGwReq(r) /\ r.op # "deploy"
    BY <1>0, <2>2, GwNewReqs
  <2> QED BY <2>1, <2>2, <2>3, GwBeginsKeeps
<1>2. CASE \E g \in GatewayNames, routes \in RouteLists : GwBegins(c, DeployReq(g, routes))
  <2>1. PICK g \in GatewayNames, routes \in RouteLists : GwBegins(c, DeployReq(g, routes))
    BY <1>2
  <2>2. PICK r : r = DeployReq(g, routes)
    OBVIOUS
  <2>3. IsGwReq(r) /\ r.at = "first"
    BY <2>2, GwNewReqs
  <2> QED BY <2>1, <2>2, <2>3, GwBeginsKeeps
<1>3. CASE \E g \in GatewayNames, id \in Operations, routes \in RouteLists : GwBegins(c, OperationReq(g, id, routes))
  <2>1. PICK g \in GatewayNames, id \in Operations, routes \in RouteLists : GwBegins(c, OperationReq(g, id, routes))
    BY <1>3
  <2>2. PICK r : r = OperationReq(g, id, routes)
    OBVIOUS
  <2>3. IsGwReq(r) /\ r.op # "deploy"
    BY <2>2, GwNewReqs
  <2> QED BY <2>1, <2>2, <2>3, GwBeginsKeeps
<1>4. CASE CreateIntegration(c) \/ DeleteIntegration(c) \/ CreateRoute(c) \/ DeleteRoute(c)
  <2>1. InMemory(c)
    BY <1>4 DEF CreateIntegration, DeleteIntegration, CreateRoute, DeleteRoute
  <2>2. CASE CreateIntegration(c) \/ DeleteIntegration(c)
    <3>1. pending' = pending
      BY <2>2 DEF CreateIntegration, DeleteIntegration
    <3> QED BY <1>0, <2>1, <3>1, GwInMemory
  <2>3. CASE DeleteRoute(c)
    <3>1. PICK g \in GatewayNames : pending' = [pending EXCEPT ![g] = <<>>]
      BY <2>3 DEF DeleteRoute
    <3>2. pending' \in [GatewayNames -> RouteLists]
      BY <1>0, <3>1
    <3> QED BY <2>1, <3>2, GwInMemory
  <2>4. CASE CreateRoute(c)
    <3>1. PICK g \in GatewayNames, k \in RouteKeys, u \in Targets :
             /\ Len(pending[g]) < MaxRoutes
             /\ pending' = [pending EXCEPT ![g] =
                              Append(@, Route(k, IF u \in intIDs[g] THEN u ELSE None, None))]
      BY <2>4 DEF CreateRoute
    <3>2. PICK w \in Targets \cup {None} : w = IF u \in intIDs[g] THEN u ELSE None
      OBVIOUS
    <3>3. PICK r : r = Route(k, w, None)
      OBVIOUS
    <3>4. r \in AllRoutes
      BY <3>3, GwRouteTyped
    <3>5. pending[g] \in Seq(AllRoutes) /\ Len(pending[g]) \in Nat
      BY <1>0, GwLists, RoutesAreSome
    <3>6. PICK l : l = Append(pending[g], r)
      OBVIOUS
    <3>7. l \in Seq(AllRoutes) /\ Len(l) = Len(pending[g]) + 1
      BY <3>4, <3>5, <3>6, AppendProperties
    <3>8. l \in RouteLists
      BY <3>1, <3>5, <3>7, GwListsAre, RoutesAreSome
    <3>9. pending' = [pending EXCEPT ![g] = l]
      BY <3>1, <3>2, <3>3, <3>6
    <3>10. pending' \in [GatewayNames -> RouteLists]
      BY <1>0, <3>8, <3>9
    <3> QED BY <2>1, <3>10, GwInMemory
  <2> QED BY <1>4, <2>2, <2>3, <2>4
<1>5. CASE CreateDeployment(c)
  <2>1. PICK g \in GatewayNames :
          /\ Begin(c, DeployReq(g, pending[g]))
          /\ pending' = [pending EXCEPT ![g] = <<>>]
          /\ UNCHANGED <<frontend, apis, httpRoutes, timers, intIDs>>
    BY <1>5 DEF CreateDeployment
  <2>2. PICK routes \in RouteLists : routes = pending[g]
    BY <1>0
  <2>3. PICK r : r = DeployReq(g, routes)
    OBVIOUS
  <2>4. IsGwReq(r) /\ r.at = "first"
    BY <2>3, GwNewReqs
  <2>5. Begin(c, r)
    BY <2>1, <2>2, <2>3
  <2>6. GwCalm /\ backend' = backend
    BY <2>4, <2>5, GwBeginKeeps
  <2>7. pending' \in [GatewayNames -> RouteLists]
    BY <1>0, <2>1
  <2>8. GwTypes' /\ OneOfAName'
    BY <2>1, <2>6, <2>7, GwApisKept DEF GwInv, GwTypes
  <2> QED BY <2>6, <2>8 DEF GwInv, GwCalm
<1>6. ASSUME NEW s \in RoutesFromOpenAPI PROVE s \in RouteLists
  BY GwShortLists, GwRouteTyped DEF RoutesFromOpenAPI
<1>7. CASE \/ CreateApi(c) \/ DeleteApi(c) \/ ApimCreate(c) \/ ApimDelete(c) \/ GcpCreateGateway(c)
           \/ GcpCreateApi(c) \/ GcpDeleteGateway(c) \/ GcpDeleteApi(c)
  BY <1>7, <1>1 DEF CreateApi, DeleteApi, ApimCreate, ApimDelete, GcpCreateGateway, GcpCreateApi,
     GcpDeleteGateway, GcpDeleteApi
<1>8. CASE GcpCreateApiConfig(c) \/ GcpDeleteApiConfig(c)
  BY <1>8, <1>2, <1>6, <1>0 DEF GcpCreateApiConfig, GcpDeleteApiConfig
<1>9. CASE CreateOrUpdateOp(c) \/ DeleteOp(c)
  <2>1. \A k \in RouteKeys, id \in Operations : <<Route(k, None, id)>> \in RouteLists
    BY GwShortLists, GwRouteTyped
  <2>2. CASE CreateOrUpdateOp(c)
    BY <2>2, <1>3, <2>1 DEF CreateOrUpdateOp
  <2>3. CASE DeleteOp(c)
    BY <2>3, <1>3, <1>0 DEF DeleteOp
  <2> QED BY <1>9, <2>2, <2>3
<1> QED BY <1>4, <1>5, <1>7, <1>8, <1>9 DEF GatewayRequests

-----------------------------------------------------------------------------
(* Steps that look a gateway or its routes up                               *)

\* The state a deployment that runs alone has got to know.
LEMMA GwOnItsWay ==
    ASSUME GwInv, NEW c \in Clients, alone = c, req[c].op = "deploy", req[c].at # "first", req[c].lost # TRUE
    PROVE  /\ req[c].id \in DOMAIN apis /\ apis[req[c].id] # None /\ apis[req[c].id].name = req[c].name
           /\ StillThere(c) /\ backend # "inmem"
           /\ Current(c) = GwTable(req[c], backend, apis, httpRoutes)
<1>1. backend # "inmem" /\ req[c].id \in DOMAIN apis /\ apis[req[c].id] # None /\ apis[req[c].id].name = req[c].name
  BY GwWay DEF Way
<1>2. StillThere(c)
  BY <1>1, GwApisAre DEF StillThere
<1> QED BY <1>1, <1>2 DEF Current, GwTable

LEMMA GwTableIs ==
    ASSUME GwInv, NEW c \in Clients, req[c] # Idle,
           backend = "envoy" \/ req[c].id \in DOMAIN apis \/ ~StillThere(c)
    PROVE  Current(c) \in RouteTables
<1>1. backend = "envoy" => httpRoutes[req[c].name] \in RouteTables
  BY GwRequest DEF GwInv, GwTypes
<1>2. req[c].id \in DOMAIN apis /\ StillThere(c) => apis[req[c].id].table \in RouteTables
  BY GwApisAre DEF StillThere
<1> QED BY <1>1, <1>2, GwNoRoutes DEF Current

LEMMA GwFoundKeeps ==
    ASSUME GwInv, NEW c \in Clients, req[c] # Idle, FoundGateway(c), req[c].at = "first",
           backend # "inmem"
    PROVE  GwInv'
<1>1. CASE Named(req[c].name) = {}
  BY <1>1, GwRefusedKeeps DEF FoundGateway
<1>2. CASE Named(req[c].name) # {}
  <2>1. PICK i \in Named(req[c].name) : GwGoes(c, [req[c] EXCEPT !.at = "list", !.id = i])
    BY <1>2 DEF FoundGateway
  <2>2. PICK r : r = req[c]
    OBVIOUS
  <2>3. PICK q : q = [r EXCEPT !.at = "list", !.id = i]
    OBVIOUS
  <2>4. IsGwReq(r)
    BY <2>2, GwRequest
  <2>5. q = GwRec(r.op, "list", r.name, r.routes, r.left, r.operation, i, r.done, r.lost)
    BY <2>3, <2>4, GwAtId
  <2>6. IsGwReq(q) /\ q.at = "list" /\ q.id = i /\ q.name = r.name
    BY <2>2, <2>4, <2>5 DEF GwRec, IsGwReq
  <2>7. Way(q, backend, apis, httpRoutes)
    BY <2>1, <2>2, <2>6, GwNamed DEF Way
  <2> QED BY <2>1, <2>2, <2>3, <2>6, <2>7, GwGoesSame
<1> QED BY <1>1, <1>2

LEMMA GwListsKeeps ==
    ASSUME GwInv, NEW c \in Clients, req[c] # Idle, ListsRoutes(c), req[c].op # "deploy" \/ req[c].at = "list"
    PROVE  GwInv'
<1>1. PICK r : r = req[c]
  OBVIOUS
<1>2. PICK left : left = Leftover(c, Current(c))
  OBVIOUS
<1>3. PICK q : q = [r EXCEPT !.at = "wipe", !.left = left]
  OBVIOUS
<1>4. IsGwReq(r)
  BY <1>1, GwRequest
<1>5. q = GwRec(r.op, "wipe", r.name, r.routes, left, r.operation, r.id, r.done, r.lost)
  BY <1>3, <1>4, GwAtLeft
<1>6. IsGwReq(q) /\ q.op = r.op /\ q.at = "wipe" /\ q.id = r.id /\ q.name = r.name /\ q.left = left /\ q.lost = r.lost
  BY <1>1, <1>4, <1>5 DEF GwRec, IsGwReq
<1>7. ASSUME alone = c, q.op = "deploy", q.lost # TRUE PROVE Way(q, backend, apis, httpRoutes)
  <2>1. /\ backend # "inmem"
        /\ r.id \in DOMAIN apis /\ apis[r.id] # None /\ apis[r.id].name = r.name
        /\ Current(c) = GwTable(r, backend, apis, httpRoutes)
    BY <1>1, <1>6, <1>7, GwOnItsWay
  <2>2. GwTable(q, backend, apis, httpRoutes) = Current(c)
    BY <1>6, <2>1 DEF GwTable
  <2>3. \A s \in Slots : Current(c)[s] # None => s \in left
    BY <1>2 DEF Leftover, Occupied
  <2> QED BY <1>6, <2>1, <2>2, <2>3 DEF Way
<1>8. alone = c => Way(q, backend, apis, httpRoutes)
  BY <1>7 DEF Way
<1>9. GwGoes(c, q)
  BY <1>1, <1>2, <1>3 DEF ListsRoutes
<1> QED BY <1>6, <1>8, <1>9, GwGoesSame

LEMMA GwNoListKeeps ==
    ASSUME GwInv, NEW c \in Clients, req[c] # Idle, NoList(c), req[c].at # "create"
    PROVE  GwInv'
<1>1. PICK r : r = req[c]
  OBVIOUS
<1>2. PICK t \in BOOLEAN : t = TRUE
  OBVIOUS
<1>3. PICK q : q = [r EXCEPT !.at = "wipe", !.lost = t]
  OBVIOUS
<1>4. IsGwReq(r)
  BY <1>1, GwRequest
<1>5. q = GwRec(r.op, "wipe", r.name, r.routes, r.left, r.operation, r.id, r.done, t)
  BY <1>3, <1>4, GwAtLost
<1>6. IsGwReq(q) /\ q.lost = t
  BY <1>1, <1>4, <1>5 DEF GwRec, IsGwReq
<1>7. Way(q, backend, apis, httpRoutes)
  BY <1>2, <1>6 DEF Way
<1>8. GwGoes(c, q)
  BY <1>1, <1>2, <1>3, Zenon DEF NoList
<1> QED BY <1>6, <1>7, <1>8, GwGoesSame

LEMMA GwApimLists ==
    ASSUME GwInv, NEW c \in Clients, req[c] # Idle, ApimListOps(c)
    PROVE  GwInv'
<1>0. req[c].op = "deploy" /\ req[c].at = "first" /\ backend = "azure"
  BY DEF ApimListOps, Is
<1>1. CASE NoList(c)
  BY <1>0, <1>1, GwNoListKeeps
<1>2. CASE ~NoList(c)
  <2>1. PICK i \in Named(req[c].name) :
          GwGoes(c, [req[c] EXCEPT !.at = "wipe", !.id = i, !.left = Leftover(c, apis[i].table)])
    BY <1>2 DEF ApimListOps
  <2>2. PICK r : r = req[c]
    OBVIOUS
  <2>3. PICK left : left = Leftover(c, apis[i].table)
    OBVIOUS
  <2>4. PICK q : q = [r EXCEPT !.at = "wipe", !.id = i, !.left = left]
    OBVIOUS
  <2>5. IsGwReq(r)
    BY <2>2, GwRequest
  <2>6. q = GwRec(r.op, "wipe", r.name, r.routes, left, r.operation, i, r.done, r.lost)
    BY <2>4, <2>5, GwAtIdLeft
  <2>7. IsGwReq(q) /\ q.at = "wipe" /\ q.id = i /\ q.name = r.name /\ q.left = left
    BY <1>0, <2>2, <2>5, <2>6 DEF GwRec, IsGwReq
  <2>8. \A s \in Slots : apis[i].table[s] # None => s \in left
    BY <2>3 DEF Leftover, Occupied
  <2>9. Way(q, backend, apis, httpRoutes)
    BY <1>0, <2>1, <2>2, <2>7, <2>8, GwNamed DEF Way, GwTable
  <2>10. GwGoes(c, q)
    BY <2>1, <2>2, <2>3, <2>4
  <2> QED BY <2>7, <2>9, <2>10, GwGoesSame
<1> QED BY <1>1, <1>2

\* Steps that only change where a request is, and not one of a deployment
\* that runs route by route.
LEMMA GwMovesOn ==
    ASSUME GwInv, NEW c \in Clients, req[c] # Idle, req[c].op # "deploy", NEW at
    PROVE  /\ \A q : q = [req[c] EXCEPT !.at = at] =>
                 IsGwReq(q) /\ \A A, H : Way(q, backend, A, H)
           /\ \A q, i : q = [req[c] EXCEPT !.at = at, !.id = i] =>
                 IsGwReq(q) /\ \A A, H : Way(q, backend, A, H)
<1>1. PICK r : r = req[c]
  OBVIOUS
<1>2. IsGwReq(r)
  BY <1>1, GwRequest
<1>3. ASSUME NEW q, q = [r EXCEPT !.at = at]
      PROVE  IsGwReq(q) /\ \A A, H : Way(q, backend, A, H)
  <2>1. q = GwRec(r.op, at, r.name, r.routes, r.left, r.operation, r.id, r.done, r.lost)
    BY <1>2, <1>3, GwAt
  <2>2. IsGwReq(q) /\ q.op # "deploy"
    BY <1>1, <1>2, <2>1 DEF GwRec, IsGwReq
  <2> QED BY <2>2 DEF Way
<1>4. ASSUME NEW q, NEW i, q = [r EXCEPT !.at = at, !.id = i]
      PROVE  IsGwReq(q) /\ \A A, H : Way(q, backend, A, H)
  <2>1. q = GwRec(r.op, at, r.name, r.routes, r.left, r.operation, i, r.done, r.lost)
    BY <1>2, <1>4, GwAtId
  <2>2. IsGwReq(q) /\ q.op # "deploy"
    BY <1>1, <1>2, <2>1 DEF GwRec, IsGwReq
  <2> QED BY <2>2 DEF Way
<1> QED BY <1>1, <1>3, <1>4

LEMMA GwDescribes ==
    ASSUME GwInv, NEW c \in Clients, req[c] # Idle, DescribesRoutes(c)
    PROVE  GwInv'
<1>1. CASE Describable(req[c].name) = {}
  BY <1>1, GwRefusedKeeps DEF DescribesRoutes
<1>2. CASE Describable(req[c].name) # {}
  <2>1. PICK routes \in RouteLists : GwGoes(c, DeployReq(req[c].name, routes))
    BY <1>2 DEF DescribesRoutes
  <2>2. PICK g \in GatewayNames : g = req[c].name
    BY GwRequest
  <2>3. PICK q : q = DeployReq(g, routes)
    OBVIOUS
  <2>4. IsGwReq(q) /\ q.at = "first"
    BY <2>3, GwNewReqs
  <2>5. Way(q, backend, apis, httpRoutes)
    BY <2>4 DEF Way
  <2> QED BY <2>1, <2>2, <2>3, <2>4, <2>5, GwGoesSame
<1> QED BY <1>1, <1>2

-----------------------------------------------------------------------------
(* The deployment route by route                                            *)

LEMMA GwWipes ==
    ASSUME GwInv, NEW c \in Clients, req[c] # Idle, WipesRoute(c)
    PROVE  GwInv'
<1>1. PICK r : r = req[c]
  OBVIOUS
<1>2. IsGwReq(r)
  BY <1>1, GwRequest
<1>0. r.at = "wipe" /\ backend \in ByRoute
  BY <1>1 DEF WipesRoute
<1>3. PICK s \in r.left :
         \/ /\ IF backend = "envoy" THEN PutsHttpRoutes(r.name, Wipes(c, s))
               ELSE IF StillThere(c) THEN Puts(r.id, Wipes(c, s)) ELSE SameGateways
            /\ Goes(c, [r EXCEPT !.left = @ \ {s}])
         \/ GwGoes(c, [r EXCEPT !.left = @ \ {s}, !.lost = TRUE])
  BY <1>1 DEF WipesRoute
<1>4. PICK left : left = r.left \ {s}
  OBVIOUS
<1>5. PICK q : q = [r EXCEPT !.left = left]
  OBVIOUS
<1>6. q = GwRec(r.op, r.at, r.name, r.routes, left, r.operation, r.id, r.done, r.lost)
  BY <1>2, <1>5, GwLeft
<1>7. /\ IsGwReq(q) /\ q.op = r.op /\ q.at = "wipe" /\ q.id = r.id /\ q.name = r.name
      /\ q.left = left /\ q.lost = r.lost
  BY <1>0, <1>2, <1>6 DEF GwRec, IsGwReq
<1>8. CASE GwGoes(c, [r EXCEPT !.left = @ \ {s}, !.lost = TRUE])
  <2>1. PICK t \in BOOLEAN : t = TRUE
    OBVIOUS
  <2>2. PICK p : p = [r EXCEPT !.left = left, !.lost = t]
    OBVIOUS
  <2>3. p = GwRec(r.op, r.at, r.name, r.routes, left, r.operation, r.id, r.done, t)
    BY <1>2, <2>2, GwLeftLost
  <2>4. IsGwReq(p) /\ p.lost = t
    BY <1>0, <1>2, <2>3 DEF GwRec, IsGwReq
  <2>5. GwGoes(c, p)
    BY <1>4, <1>8, <2>1, <2>2, Zenon
  <2>6. Way(p, backend, apis, httpRoutes)
    BY <2>1, <2>4 DEF Way
  <2> QED BY <2>4, <2>5, <2>6, GwGoesSame
<1>9. CASE /\ IF backend = "envoy" THEN PutsHttpRoutes(r.name, Wipes(c, s))
               ELSE IF StillThere(c) THEN Puts(r.id, Wipes(c, s)) ELSE SameGateways
           /\ Goes(c, [r EXCEPT !.left = @ \ {s}])
  <2>1. Goes(c, q)
    BY <1>4, <1>5, <1>9
  <2>2. PICK t : t = Wipes(c, s)
    OBVIOUS
  <2>3. backend' = backend
    BY <2>1 DEF Goes
  \* What the deployment that runs alone knows of its table.
  <2>a. ASSUME alone = c, r.op = "deploy", r.lost # TRUE
        PROVE  /\ r.id \in DOMAIN apis /\ apis[r.id] # None /\ apis[r.id].name = r.name
               /\ StillThere(c) /\ backend # "inmem"
               /\ \A x \in Slots : t[x] # None => x \in left
    <3>1. /\ r.id \in DOMAIN apis /\ apis[r.id] # None /\ apis[r.id].name = r.name /\ StillThere(c)
          /\ backend # "inmem"
          /\ Current(c) = GwTable(r, backend, apis, httpRoutes)
      BY <1>0, <1>1, <2>a, GwOnItsWay
    <3>2. \A x \in Slots : Current(c)[x] # None => x \in r.left
      BY <1>0, <1>1, <2>a, <3>1, GwWay DEF Way
    <3>3. Current(c) \in RouteTables
      BY <1>1, <3>1, GwTableIs
    <3>4. \A x \in Slots : t[x] = IF x = s THEN None ELSE Current(c)[x]
      BY <2>2, <3>3 DEF Wipes, RouteTables
    <3> QED BY <1>4, <3>1, <3>2, <3>4
  <2>4. CASE backend = "envoy"
    <3>1. httpRoutes' = [httpRoutes EXCEPT ![r.name] = t] /\ apis' = apis /\ pending' = pending
      BY <1>9, <2>2, <2>4 DEF PutsHttpRoutes
    <3>2. t \in RouteTables /\ r.name \in GatewayNames
      <4>1. Current(c) \in RouteTables
        BY <2>4, GwTableIs
      <4> QED BY <1>2, <2>2, <4>1 DEF Wipes, RouteTables, IsGwReq
    <3>3. httpRoutes' \in [GatewayNames -> RouteTables] /\ httpRoutes'[r.name] = t
      BY <3>1, <3>2 DEF GwInv, GwTypes
    <3>4. GwTypes' /\ OneOfAName'
      BY <2>3, <3>1, <3>3, GwApisKept DEF GwInv, GwTypes
    <3>5. GwTable(q, backend, apis', httpRoutes') = t
      BY <1>7, <2>4, <3>3 DEF GwTable
    <3>6. alone = c => Way(q, backend, apis', httpRoutes')
      BY <1>7, <2>4, <2>a, <3>1, <3>5 DEF Way
    <3> QED BY <1>7, <2>1, <3>4, <3>6, GwGoesKeeps DEF GwInv, GwCalm
  <2>5. CASE backend # "envoy" /\ StillThere(c)
    <3>1. Puts(r.id, t)
      BY <1>9, <2>2, <2>5
    <3>2. apis[r.id] # None
      BY <1>1, <2>5 DEF StillThere
    <3>3. CASE r.id \in DOMAIN apis
      <4>1. t \in RouteTables
        <5>1. Current(c) \in RouteTables
          BY <1>1, <3>3, GwTableIs
        <5> QED BY <2>2, <5>1 DEF Wipes, RouteTables
      <4>2. /\ GwEdits /\ httpRoutes' = httpRoutes /\ pending' = pending /\ DOMAIN apis' = DOMAIN apis
            /\ apis'[r.id] # None /\ apis'[r.id].name = apis[r.id].name /\ apis'[r.id].table = t
        BY <3>1, <3>2, <3>3, <4>1, GwPuts
      <4>3. GwTypes' /\ OneOfAName'
        BY <2>3, <4>2, GwApisKept DEF GwInv, GwTypes
      <4>4. GwTable(q, backend, apis', httpRoutes') = t
        BY <1>7, <2>5, <4>2 DEF GwTable
      <4>5. alone = c => Way(q, backend, apis', httpRoutes')
        BY <1>7, <2>a, <3>3, <4>2, <4>4 DEF Way
      <4> QED BY <1>7, <2>1, <4>3, <4>5, GwGoesKeeps DEF GwInv, GwCalm
    <3>4. CASE r.id \notin DOMAIN apis
      <4>1. apis' = apis /\ httpRoutes' = httpRoutes /\ pending' = pending
        BY <3>1, <3>4, GwApisAre DEF Puts, OnlyApis
      <4>2. GwTypes' /\ OneOfAName'
        BY <2>3, <4>1, GwApisKept DEF GwInv, GwTypes
      <4>3. alone = c => Way(q, backend, apis', httpRoutes')
        BY <1>7, <2>a, <3>4 DEF Way
      <4> QED BY <1>7, <2>1, <4>2, <4>3, GwGoesKeeps DEF GwInv, GwCalm
    <3> QED BY <3>3, <3>4
  <2>6. CASE backend # "envoy" /\ ~StillThere(c)
    <3>1. SameGateways
      BY <1>9, <2>6
    <3>2. alone = c => Way(q, backend, apis', httpRoutes')
      BY <1>7, <2>a, <2>6 DEF Way
    <3> QED BY <1>7, <2>1, <2>3, <3>1, <3>2, GwSame, GwGoesKeeps DEF GwInv, GwCalm
  <2> QED BY <2>4, <2>5, <2>6
<1> QED BY <1>3, <1>8, <1>9

LEMMA GwWiped ==
    ASSUME GwInv, NEW c \in Clients, req[c] # Idle, Wiped(c)
    PROVE  GwInv'
<1>1. PICK r : r = req[c]
  OBVIOUS
<1>2. IsGwReq(r)
  BY <1>1, GwRequest
<1>3. r.op = "deploy" /\ r.at = "wipe" /\ r.left = {}
  BY <1>1 DEF Wiped, StepOf
<1>4. PICK q : q = [r EXCEPT !.at = "create"]
  OBVIOUS
<1>5. q = GwRec(r.op, "create", r.name, r.routes, r.left, r.operation, r.id, r.done, r.lost)
  BY <1>2, <1>4, GwAt
<1>6. /\ IsGwReq(q) /\ q.op = "deploy" /\ q.at = "create" /\ q.id = r.id /\ q.name = r.name
      /\ q.lost = r.lost /\ q.done = 0 /\ q.routes = r.routes
  BY <1>2, <1>3, <1>5 DEF GwRec, IsGwReq
<1>7. ASSUME alone = c, r.lost # TRUE PROVE Way(q, backend, apis, httpRoutes)
  <2>1. /\ backend # "inmem"
        /\ r.id \in DOMAIN apis /\ apis[r.id] # None /\ apis[r.id].name = r.name
        /\ \A s \in Slots : GwTable(r, backend, apis, httpRoutes)[s] = None
    BY <1>1, <1>3, <1>7, GwWay DEF Way
  <2>2. GwTable(q, backend, apis, httpRoutes) = GwTable(r, backend, apis, httpRoutes)
    BY <1>6 DEF GwTable
  <2>3. \A s \in Slots : ~(s <= 0)
    BY RoutesAreSome DEF Slots
  <2>4. 0 \in 0..Len(q.routes)
    BY <1>2, <1>6, GwLists, RoutesAreSome DEF IsGwReq
  <2> QED BY <1>6, <2>1, <2>2, <2>3, <2>4 DEF Way
<1>8. alone = c => Way(q, backend, apis, httpRoutes)
  BY <1>6, <1>7 DEF Way
<1>9. GwGoes(c, q)
  BY <1>1, <1>4 DEF Wiped
<1> QED BY <1>6, <1>8, <1>9, GwGoesSame

\* The next route of a deployment and where it goes.
LEMMA GwNext ==
    ASSUME GwInv, NEW c \in Clients, req[c] # Idle, More(c), NEW r, r = req[c]
    PROVE  /\ r.done \in Nat /\ r.done + 1 \in Slots /\ r.done + 1 \in 1..Len(r.routes)
           /\ NextRoute(c) = r.routes[r.done + 1] /\ NextRoute(c) \in AllRoutes
           /\ \A s \in Slots : (s <= r.done + 1) <=> (s <= r.done \/ s = r.done + 1)
<1>1. r.done \in Nat /\ r.routes \in RouteLists
  BY GwRequest DEF IsGwReq
<1>2. PICK routes \in RouteLists : routes = r.routes
  BY <1>1
<1>3. /\ Len(routes) \in Nat /\ DOMAIN routes = 1..Len(routes)
      /\ DOMAIN routes \subseteq Slots /\ \A i \in DOMAIN routes : routes[i] \in AllRoutes
  BY GwLists, RoutesAreSome
<1>4. r.done + 1 \in 1..Len(routes)
  BY <1>1, <1>2, <1>3 DEF More
<1>5. \A s \in Slots : s \in Nat
  BY RoutesAreSome DEF Slots
<1>6. \A s \in Slots : (s <= r.done + 1) <=> (s <= r.done \/ s = r.done + 1)
  BY <1>1, <1>5
<1> QED BY <1>1, <1>2, <1>3, <1>4, <1>6 DEF NextRoute

\* A route more in the table.
LEMMA GwOneMore ==
    ASSUME GwInv, NEW c \in Clients, req[c] # Idle, alone = c,
           req[c].op = "deploy", req[c].at = "create", req[c].lost # TRUE, More(c),
           NEW q, q.op = "deploy", q.at = "create", q.name = req[c].name, q.routes = req[c].routes,
           q.done = req[c].done + 1,
           q.id \in DOMAIN apis', apis'[q.id] # None, apis'[q.id].name = q.name,
           \A s \in Slots : GwTable(q, backend, apis', httpRoutes')[s] =
               IF s = q.done
               THEN (IF backend = "azure" THEN Route(NextRoute(c).key, None, None) ELSE NextRoute(c))
               ELSE GwTable(req[c], backend, apis, httpRoutes)[s]
    PROVE  Way(q, backend, apis', httpRoutes')
<1>0. PICK r : r = req[c]
  OBVIOUS
<1>1. /\ r.done \in Nat /\ r.done + 1 \in Slots /\ r.done + 1 \in 1..Len(r.routes)
      /\ NextRoute(c) = r.routes[r.done + 1]
      /\ \A s \in Slots : (s <= r.done + 1) <=> (s <= r.done \/ s = r.done + 1)
  BY <1>0, GwNext
<1>2. /\ backend # "inmem"
      /\ \A s \in Slots : GwTable(r, backend, apis, httpRoutes)[s] =
          IF s <= r.done THEN (IF backend = "azure" THEN Route(r.routes[s].key, None, None) ELSE r.routes[s])
          ELSE None
  BY <1>0, GwWay DEF Way
<1>3. q.done \in 0..Len(q.routes)
  BY <1>0, <1>1
<1>4. ASSUME NEW s \in Slots
      PROVE  GwTable(q, backend, apis', httpRoutes')[s] =
                IF s <= q.done THEN (IF backend = "azure" THEN Route(q.routes[s].key, None, None) ELSE q.routes[s])
                ELSE None
  <2>1. CASE s = r.done + 1
    BY <1>0, <1>1, <2>1
  <2>2. CASE s # r.done + 1
    BY <1>0, <1>1, <1>2, <2>2
  <2> QED BY <2>1, <2>2
<1> QED BY <1>2, <1>3, <1>4 DEF Way

\* A deployment at its end has its routes in its table.
LEMMA GwAllThere ==
    ASSUME GwInv, NEW c \in Clients, req[c] # Idle, ~More(c), req[c].op = "deploy", req[c].at = "create",
           NEW i, i = req[c].id, Deployed(c, i), SameGateways
    PROVE  GwInv'
<1>1. PICK r : r = req[c]
  OBVIOUS
<1>2. IsGwReq(r) /\ r.routes \in RouteLists
  BY <1>1, GwRequest
<1>3. apis' = apis /\ httpRoutes' = httpRoutes
  BY DEF SameGateways, gatewayVars
<1>4. ASSUME alone = c, r.lost # TRUE PROVE GwServes(i, r.routes, backend, apis', httpRoutes')
  <2>1. apis[i].name = r.name
    BY <1>1, <1>4, GwOnItsWay
  <2>2. /\ r.done \in 0..Len(r.routes)
        /\ \A s \in Slots : GwTable(r, backend, apis, httpRoutes)[s] =
              IF s <= r.done THEN (IF backend = "azure" THEN Route(r.routes[s].key, None, None)
                                   ELSE r.routes[s])
              ELSE None
    BY <1>1, <1>4, GwWay DEF Way
  <2>3. r.done = Len(r.routes)
    BY <1>1, <1>2, <2>2, GwLists, RoutesAreSome DEF More
  <2> QED BY <1>1, <1>3, <2>1, <2>2, <2>3 DEF GwServes, GwTable
<1>5. GwCalm /\ backend' = backend
  BY <1>1, <1>2, <1>4, GwDeployedKeeps
<1> QED BY <1>5, GwSame DEF GwInv, GwCalm

\* What creating a route makes of a request.
LEMMA GwCreated ==
    ASSUME NEW r, IsGwReq(r), r.op = "deploy", r.at = "create", NEW n \in Nat, NEW q,
           q = [r EXCEPT !.done = n]
    PROVE  /\ IsGwReq(q) /\ q.op = "deploy" /\ q.at = "create" /\ q.name = r.name /\ q.routes = r.routes
           /\ q.done = n /\ q.id = r.id /\ q.lost = r.lost
<1>1. q = GwRec(r.op, r.at, r.name, r.routes, r.left, r.operation, r.id, n, r.lost)
  BY GwDone
<1> QED BY <1>1 DEF GwRec, IsGwReq

LEMMA GwEnvoyDeploys ==
    ASSUME GwInv, NEW c \in Clients, req[c] # Idle, EnvoyDeployRoutes(c)
    PROVE  GwInv'
<1>0. req[c].op = "deploy" /\ req[c].at = "create" /\ backend = "envoy"
  BY DEF EnvoyDeployRoutes, Is
<1>1. CASE ~More(c)
  <2>1. PICK i : i = req[c].id
    OBVIOUS
  <2>2. Deployed(c, i) /\ SameGateways
    BY <1>1, <2>1 DEF EnvoyDeployRoutes
  <2> QED BY <1>0, <1>1, <2>1, <2>2, GwAllThere
<1>2. CASE More(c)
  <2>1. PICK r : r = req[c]
    OBVIOUS
  <2>2. /\ IsGwReq(r) /\ r.name \in GatewayNames /\ r.done + 1 \in Nat /\ r.done + 1 \in Slots
        /\ NextRoute(c) \in AllRoutes
    BY <1>2, <2>1, GwRequest, GwNext
  <2>3. PICK n \in Nat : n = r.done + 1
    BY <2>2
  <2>4. PICK q : q = [r EXCEPT !.done = n]
    OBVIOUS
  <2>5. PICK table \in RouteTables : table = Current(c)
    BY <1>0, GwTableIs
  <2>6. PICK w \in AllRoutes : w = NextRoute(c)
    BY <2>2
  <2>7. PICK t : t = IF table[n] # None THEN table ELSE [table EXCEPT ![n] = w]
    OBVIOUS
  <2>8. Goes(c, q) /\ PutsHttpRoutes(r.name, t)
    BY <1>2, <2>1, <2>3, <2>4, <2>5, <2>6, <2>7 DEF EnvoyDeployRoutes, CreatedRoute
  <2>9. /\ IsGwReq(q) /\ q.op = "deploy" /\ q.at = "create" /\ q.name = r.name /\ q.routes = r.routes
        /\ q.done = n /\ q.id = r.id /\ q.lost = r.lost
    BY <1>0, <2>1, <2>2, <2>4, GwCreated
  <2>10. httpRoutes' = [httpRoutes EXCEPT ![r.name] = t] /\ apis' = apis /\ pending' = pending /\ backend' = backend
    BY <2>8 DEF PutsHttpRoutes, Goes
  <2>11. /\ t \in RouteTables
         /\ table[n] = None => \A s \in Slots : t[s] = IF s = n THEN w ELSE table[s]
    BY <2>7 DEF RouteTables
  <2>12. httpRoutes' \in [GatewayNames -> RouteTables] /\ httpRoutes'[r.name] = t
    BY <2>2, <2>10, <2>11 DEF GwInv, GwTypes
  <2>13. GwTypes' /\ OneOfAName'
    BY <2>10, <2>12, GwApisKept DEF GwInv, GwTypes
  <2>14. ASSUME alone = c, r.lost # TRUE PROVE Way(q, backend, apis', httpRoutes')
    <3>1. /\ r.id \in DOMAIN apis /\ apis[r.id] # None /\ apis[r.id].name = r.name
          /\ table = GwTable(r, backend, apis, httpRoutes)
      BY <1>0, <2>1, <2>5, <2>14, GwOnItsWay
    <3>2. table[n] = None
      <4>1. ~(n <= r.done)
        BY <2>1, <2>3, <1>2, GwNext
      <4> QED BY <1>0, <2>1, <2>2, <2>3, <2>14, <3>1, <4>1, GwWay DEF Way
    <3>3. \A s \in Slots : GwTable(q, backend, apis', httpRoutes')[s] =
              IF s = r.done + 1 THEN w ELSE GwTable(r, backend, apis, httpRoutes)[s]
      BY <1>0, <2>3, <2>9, <2>11, <2>12, <3>1, <3>2 DEF GwTable
    <3>4. q.id \in DOMAIN apis' /\ apis'[q.id] # None /\ apis'[q.id].name = q.name
      BY <2>9, <2>10, <3>1
    <3>5. w = (IF backend = "azure" THEN Route(NextRoute(c).key, None, None) ELSE NextRoute(c))
      BY <1>0, <2>6
    <3>6. \A s \in Slots : GwTable(q, backend, apis', httpRoutes')[s] =
             IF s = q.done
             THEN (IF backend = "azure" THEN Route(NextRoute(c).key, None, None) ELSE NextRoute(c))
             ELSE GwTable(req[c], backend, apis, httpRoutes)[s]
      BY <2>1, <2>3, <2>9, <3>3, <3>5
    <3> QED BY <1>0, <1>2, <2>1, <2>3, <2>9, <2>14, <3>4, <3>6, GwOneMore
  <2>15. alone = c => Way(q, backend, apis', httpRoutes')
    BY <2>9, <2>14 DEF Way
  <2> QED BY <2>8, <2>9, <2>13, <2>15, GwGoesKeeps DEF GwInv, GwCalm
<1> QED BY <1>1, <1>2

LEMMA GwApimDeploys ==
    ASSUME GwInv, NEW c \in Clients, req[c] # Idle, ApimDeployOps(c)
    PROVE  GwInv'
<1>0. req[c].op = "deploy" /\ req[c].at = "create" /\ backend = "azure"
  BY DEF ApimDeployOps, Is
<1>1. CASE ~More(c)
  <2>1. PICK i : i = req[c].id
    OBVIOUS
  <2>2. SameGateways /\ (Deployed(c, i) \/ Ends(c, None))
    BY <1>1, <2>1 DEF ApimDeployOps
  <2>3. CASE Deployed(c, i)
    BY <1>0, <1>1, <2>1, <2>2, <2>3, GwAllThere
  <2>4. CASE Ends(c, None)
    BY <2>2, <2>4, GwSame, GwEndsKeeps DEF GwInv, GwCalm
  <2> QED BY <2>2, <2>3, <2>4
<1>2. CASE More(c) /\ Named(req[c].name) = {}
  <2>1. GwRefused(c)
    BY <1>2 DEF ApimDeployOps
  <2> QED BY <2>1, GwRefusedKeeps
<1>3. CASE More(c) /\ Named(req[c].name) # {}
  <2>1. PICK r : r = req[c]
    OBVIOUS
  <2>2. /\ IsGwReq(r) /\ r.done + 1 \in Nat /\ r.done + 1 \in Slots /\ NextRoute(c) \in AllRoutes
    BY <1>3, <2>1, GwRequest, GwNext
  <2>3. PICK n \in Nat : n = r.done + 1
    BY <2>2
  <2>4. PICK j \in Named(r.name) :
           /\ Puts(j, [apis[j].table EXCEPT ![n] = [NextRoute(c) EXCEPT !.to = None, !.id = None]])
           /\ Goes(c, [r EXCEPT !.done = @ + 1, !.id = j])
    BY <1>3, <2>1, <2>3 DEF ApimDeployOps
  <2>5. PICK q : q = [r EXCEPT !.done = n, !.id = j]
    OBVIOUS
  <2>6. Goes(c, q)
    BY <2>3, <2>4, <2>5
  <2>7. /\ IsGwReq(q) /\ q.op = "deploy" /\ q.at = "create" /\ q.name = r.name /\ q.routes = r.routes
        /\ q.done = n /\ q.id = j /\ q.lost = r.lost
    <3>1. r.op = "deploy" /\ r.at = "create"
      BY <1>0, <2>1
    <3>2. IsGwReq(r)
      BY <2>2
    <3>3. q = GwRec(r.op, r.at, r.name, r.routes, r.left, r.operation, j, n, r.lost)
      BY <2>5, <3>2, GwDoneId
    <3> QED BY <2>3, <3>1, <3>2, <3>3 DEF GwRec, IsGwReq
  <2>8. PICK w \in AllRoutes : w = Route(NextRoute(c).key, None, None) /\ w = [NextRoute(c) EXCEPT !.to = None, !.id = None]
    BY <2>2, GwRouteStripped
  <2>9. j \in DOMAIN apis /\ apis[j] # None /\ apis[j].name = r.name
    BY <2>4, GwNamed
  <2>10. PICK table \in RouteTables : table = apis[j].table
    BY <2>9, GwApisAre
  <2>11. PICK t : t = [table EXCEPT ![n] = w]
    OBVIOUS
  <2>12. t \in RouteTables /\ \A s \in Slots : t[s] = IF s = n THEN w ELSE table[s]
    BY <2>11 DEF RouteTables
  <2>13. Puts(j, t)
    BY <2>4, <2>8, <2>10, <2>11
  <2>14. /\ GwEdits /\ httpRoutes' = httpRoutes /\ pending' = pending /\ DOMAIN apis' = DOMAIN apis
         /\ apis'[j] # None /\ apis'[j].name = apis[j].name /\ apis'[j].table = t
    BY <2>9, <2>12, <2>13, GwPuts
  <2>15. backend' = backend
    BY <2>6 DEF Goes
  <2>16. GwTypes' /\ OneOfAName'
    BY <2>14, <2>15, GwApisKept DEF GwInv, GwTypes
  <2>17. ASSUME alone = c, r.lost # TRUE PROVE Way(q, backend, apis', httpRoutes')
    <3>1. r.id \in DOMAIN apis /\ apis[r.id] # None /\ apis[r.id].name = r.name
      BY <1>0, <2>1, <2>17, GwOnItsWay
    <3>2. r.id = j
      BY <1>0, <2>9, <3>1 DEF GwInv, OneOfAName
    <3>3. \A s \in Slots : GwTable(q, backend, apis', httpRoutes')[s] =
              IF s = r.done + 1 THEN w ELSE GwTable(r, backend, apis, httpRoutes)[s]
      BY <1>0, <2>3, <2>7, <2>10, <2>12, <2>14, <3>2 DEF GwTable
    <3>4. q.id \in DOMAIN apis' /\ apis'[q.id] # None /\ apis'[q.id].name = q.name /\ q.id = r.id
      BY <2>7, <2>9, <2>14, <3>2
    <3>5. w = (IF backend = "azure" THEN Route(NextRoute(c).key, None, None) ELSE NextRoute(c))
      BY <1>0, <2>8
    <3>6. \A s \in Slots : GwTable(q, backend, apis', httpRoutes')[s] =
             IF s = q.done
             THEN (IF backend = "azure" THEN Route(NextRoute(c).key, None, None) ELSE NextRoute(c))
             ELSE GwTable(req[c], backend, apis, httpRoutes)[s]
      BY <2>1, <2>3, <2>7, <3>3, <3>5
    <3> QED BY <1>0, <1>3, <2>1, <2>3, <2>7, <2>17, <3>4, <3>6, GwOneMore
  <2>18. alone = c => Way(q, backend, apis', httpRoutes')
    BY <2>7, <2>17 DEF Way
  <2> QED BY <2>6, <2>7, <2>16, <2>18, GwGoesKeeps DEF GwInv, GwCalm
<1> QED BY <1>1, <1>2, <1>3

\* aws puts the next route into the first free slot, which is the next one
\* when the table holds the routes created so far.
LEMMA GwFirstFree ==
    ASSUME GwInv, NEW c \in Clients, req[c] # Idle, alone = c, NEW r, r = req[c],
           r.op = "deploy", r.at = "create", r.lost # TRUE, More(c), backend = "aws",
           NEW table, table = apis[r.id].table, NEW s \in Slots \ Occupied(table),
           \A t \in Slots \ Occupied(table) : s <= t
    PROVE  s = r.done + 1
<1>1. /\ r.done \in Nat /\ r.done + 1 \in Slots /\ r.done + 1 \in 1..Len(r.routes) /\ r.routes \in RouteLists
  BY GwNext, GwRequest
<1>2. \A x \in Slots : table[x] = IF x <= r.done THEN r.routes[x] ELSE None
  BY GwWay DEF Way, GwTable
<1>3. \A x \in Slots : x \in Nat /\ x >= 1
  BY RoutesAreSome DEF Slots
<1>4. PICK routes \in RouteLists : routes = r.routes
  BY <1>1
<1>5. DOMAIN routes = 1..Len(routes) /\ Len(routes) \in Nat /\ \A x \in DOMAIN routes : routes[x] # None
  BY GwLists, RoutesAreSome
<1>6. ASSUME NEW x \in Slots, x <= r.done PROVE table[x] # None
  <2>1. x \in 1..Len(routes)
    BY <1>1, <1>3, <1>4, <1>5, <1>6
  <2> QED BY <1>2, <1>4, <1>5, <1>6, <2>1
<1>7. ~(s <= r.done) /\ s \in Nat
  BY <1>3, <1>6 DEF Occupied
<1>8. r.done + 1 \in Slots \ Occupied(table)
  BY <1>1, <1>2 DEF Occupied
<1>9. s <= r.done + 1
  BY <1>8
<1> QED BY <1>1, <1>7, <1>9

LEMMA GwAwsPublishes ==
    ASSUME GwInv, NEW c \in Clients, req[c] # Idle, AwsPublishRoutes(c)
    PROVE  GwInv'
<1>0. req[c].op = "deploy" /\ req[c].at = "create" /\ backend = "aws" /\ More(c)
  BY DEF AwsPublishRoutes, Is
<1>1. CASE GwRefused(c)
  BY <1>1, GwRefusedKeeps
<1>2. CASE ~GwRefused(c)
  <2>1. PICK r : r = req[c]
    OBVIOUS
  <2>2. PICK table : table = apis[r.id].table
    OBVIOUS
  <2>a. PICK s \in Slots \ Occupied(table) :
           /\ StillThere(c)
           /\ \A t \in Slots \ Occupied(table) : s <= t
           /\ Puts(r.id, [table EXCEPT ![s] = NextRoute(c)])
           /\ CreatedRoute(c)
    BY <1>2, <2>1, <2>2 DEF AwsPublishRoutes
  <2>3. /\ IsGwReq(r) /\ r.done + 1 \in Nat /\ NextRoute(c) \in AllRoutes
    BY <1>0, <2>1, GwRequest, GwNext
  <2>4. PICK n \in Nat : n = r.done + 1
    BY <2>3
  <2>5. PICK q : q = [r EXCEPT !.done = n]
    OBVIOUS
  <2>6. Goes(c, q)
    BY <2>1, <2>a, <2>4, <2>5 DEF CreatedRoute
  <2>7. /\ IsGwReq(q) /\ q.op = "deploy" /\ q.at = "create" /\ q.name = r.name /\ q.routes = r.routes
        /\ q.done = n /\ q.id = r.id /\ q.lost = r.lost
    BY <1>0, <2>1, <2>3, <2>5, GwCreated
  <2>8. PICK w \in AllRoutes : w = NextRoute(c)
    BY <2>3
  <2>9. PICK t : t = [table EXCEPT ![s] = w]
    OBVIOUS
  <2>10. Puts(r.id, t) /\ apis[r.id] # None /\ backend' = backend
    BY <2>1, <2>a, <2>6, <2>8, <2>9 DEF StillThere, Goes
  <2>11. CASE r.id \in DOMAIN apis
    <3>1. table \in RouteTables
      BY <2>2, <2>10, <2>11, GwApisAre
    <3>2. t \in RouteTables /\ \A x \in Slots : t[x] = IF x = s THEN w ELSE table[x]
      BY <2>9, <3>1 DEF RouteTables
    <3>3. /\ GwEdits /\ httpRoutes' = httpRoutes /\ pending' = pending /\ DOMAIN apis' = DOMAIN apis
          /\ apis'[r.id] # None /\ apis'[r.id].name = apis[r.id].name /\ apis'[r.id].table = t
      BY <2>10, <2>11, <3>2, GwPuts
    <3>4. GwTypes' /\ OneOfAName'
      BY <2>10, <3>3, GwApisKept DEF GwInv, GwTypes
    <3>5. ASSUME alone = c, r.lost # TRUE PROVE Way(q, backend, apis', httpRoutes')
      <4>1. apis[r.id].name = r.name
        BY <1>0, <2>1, <3>5, GwOnItsWay
      <4>2. s = r.done + 1
        BY <1>0, <2>1, <2>2, <2>a, <3>5, GwFirstFree
      <4>3. \A x \in Slots : GwTable(q, backend, apis', httpRoutes')[x] =
                IF x = r.done + 1 THEN w ELSE GwTable(r, backend, apis, httpRoutes)[x]
        BY <1>0, <2>2, <2>7, <3>2, <3>3, <4>2 DEF GwTable
      <4>4. q.id \in DOMAIN apis' /\ apis'[q.id] # None /\ apis'[q.id].name = q.name
        BY <2>7, <2>11, <3>3, <4>1
      <4>5. w = (IF backend = "azure" THEN Route(NextRoute(c).key, None, None) ELSE NextRoute(c))
        BY <1>0, <2>8
      <4>6. \A x \in Slots : GwTable(q, backend, apis', httpRoutes')[x] =
               IF x = q.done
               THEN (IF backend = "azure" THEN Route(NextRoute(c).key, None, None) ELSE NextRoute(c))
               ELSE GwTable(req[c], backend, apis, httpRoutes)[x]
        BY <2>1, <2>4, <2>7, <4>3, <4>5
      <4> QED BY <1>0, <2>1, <2>4, <2>7, <3>5, <4>4, <4>6, GwOneMore
    <3>6. alone = c => Way(q, backend, apis', httpRoutes')
      BY <2>7, <3>5 DEF Way
    <3> QED BY <2>6, <2>7, <3>4, <3>6, GwGoesKeeps DEF GwInv, GwCalm
  <2>12. CASE r.id \notin DOMAIN apis
    <3>1. apis' = apis /\ httpRoutes' = httpRoutes /\ pending' = pending
      BY <2>10, <2>12, GwApisAre DEF Puts, OnlyApis
    <3>2. GwTypes' /\ OneOfAName'
      BY <2>10, <3>1, GwApisKept DEF GwInv, GwTypes
    <3>3. alone = c => r.lost = TRUE
      BY <1>0, <2>1, <2>12, GwOnItsWay
    <3>4. alone = c => Way(q, backend, apis', httpRoutes')
      BY <2>7, <3>3 DEF Way
    <3> QED BY <2>6, <2>7, <3>2, <3>4, GwGoesKeeps DEF GwInv, GwCalm
  <2> QED BY <2>11, <2>12
<1> QED BY <1>1, <1>2

LEMMA GwAwsDeploys ==
    ASSUME GwInv, NEW c \in Clients, req[c] # Idle, AwsCreateDeployment(c)
    PROVE  GwInv'
<1>0. req[c].op = "deploy" /\ req[c].at = "create" /\ ~More(c)
  BY DEF AwsCreateDeployment, Is
<1>1. PICK i : i = req[c].id
  OBVIOUS
<1>2. (Deployed(c, i) /\ SameGateways) \/ GwRefused(c)
  BY <1>1 DEF AwsCreateDeployment
<1> QED BY <1>0, <1>1, <1>2, GwAllThere, GwRefusedKeeps

-----------------------------------------------------------------------------
(* Creations and deletions                                                  *)

LEMMA GwForgets ==
    ASSUME GwInv, NEW c \in Clients, req[c] # Idle, ForgetsApi(c)
    PROVE  GwInv'
<1>1. /\ Ends(c, None) /\ apis' = apis /\ httpRoutes' = httpRoutes
      /\ pending' = [pending EXCEPT ![req[c].name] = <<>>]
  BY DEF ForgetsApi
<1>2. pending' \in [GatewayNames -> RouteLists]
  BY <1>1, GwShortLists DEF GwInv, GwTypes
<1>3. GwCalm /\ backend' = backend
  BY <1>1, GwEndsKeeps
<1>4. GwTypes' /\ OneOfAName'
  BY <1>1, <1>2, <1>3, GwApisKept DEF GwInv, GwTypes
<1> QED BY <1>3, <1>4 DEF GwInv, GwCalm

\* A request ends with nothing to say, or a step of a deletion, and the APIs
\* were edited, or one was added.
LEMMA GwCalmKeeps ==
    ASSUME GwInv, GwCalm, backend' = backend, GwEdits \/ GwAdds, httpRoutes' = httpRoutes, pending' = pending
    PROVE  GwInv'
<1>1. httpRoutes' \in [GatewayNames -> RouteTables] /\ pending' \in [GatewayNames -> RouteLists]
  BY DEF GwInv, GwTypes
<1>2. GwTypes' /\ OneOfAName'
  BY <1>1, GwApisKept
<1> QED BY <1>2 DEF GwInv, GwCalm

LEMMA GwAddsKeeps ==
    ASSUME GwInv, NEW c \in Clients, req[c] # Idle, NEW st \in ApiStatuses, AddsGateway(req[c].name, st),
           backend = "azure" => Named(req[c].name) = {}, Ends(c, None), httpRoutes' = httpRoutes, pending' = pending
    PROVE  GwInv'
<1>1. PICK g \in GatewayNames : g = req[c].name
  BY GwRequest
<1>2. GwAdds
  BY <1>1 DEF GwAdds, AddsGateway
<1>3. GwCalm /\ backend' = backend
  BY GwEndsKeeps
<1> QED BY <1>2, <1>3, GwCalmKeeps

LEMMA GwCreatesKeeps ==
    ASSUME GwInv, NEW c \in Clients, req[c] # Idle, CreatesGateway(c)
    PROVE  GwInv'
<1>1. CASE Named(req[c].name) # {}
  BY <1>1, GwRefusedKeeps DEF CreatesGateway
<1>2. CASE Named(req[c].name) = {}
  <2>1. AddsGateway(req[c].name, "available") /\ Ends(c, None) /\ httpRoutes' = httpRoutes /\ pending' = pending
    BY <1>2 DEF CreatesGateway, OnlyApis
  <2>2. "available" \in ApiStatuses
    BY DEF ApiStatuses
  <2> QED BY <1>2, <2>1, <2>2, GwAddsKeeps
<1> QED BY <1>1, <1>2

LEMMA GwCreations ==
    ASSUME GwInv, NEW c \in Clients, req[c] # Idle,
           \/ InmemCreateGateway(c) \/ EnvoyCreateGateway(c) \/ GcpCreateGatewayApi(c)
           \/ ApimCreateGateway(c) \/ AwsCreateGateway(c)
    PROVE  GwInv'
<1>0. "available" \in ApiStatuses /\ "creating" \in ApiStatuses
  BY DEF ApiStatuses
<1>1. CASE InmemCreateGateway(c)
  <2>1. CASE Named(req[c].name) # {}
    BY <1>1, <2>1, GwRefusedKeeps DEF InmemCreateGateway
  <2>2. CASE Named(req[c].name) = {}
    <3>1. AddsGateway(req[c].name, "creating") /\ Ends(c, None) /\ httpRoutes' = httpRoutes /\ pending' = pending
      BY <1>1, <2>2 DEF InmemCreateGateway, Sleeps
    <3> QED BY <1>0, <2>2, <3>1, GwAddsKeeps
  <2> QED BY <2>1, <2>2
<1>2. CASE EnvoyCreateGateway(c) \/ GcpCreateGatewayApi(c)
  BY <1>2, GwCreatesKeeps DEF EnvoyCreateGateway, GcpCreateGatewayApi
<1>3. CASE ApimCreateGateway(c)
  <2>1. CASE Ends(c, None) /\ SameGateways
    BY <2>1, GwSame, GwEndsKeeps DEF GwInv, GwCalm
  <2>2. CASE CreatesGateway(c)
    BY <2>2, GwCreatesKeeps
  <2> QED BY <1>3, <2>1, <2>2 DEF ApimCreateGateway
<1>4. CASE AwsCreateGateway(c)
  <2>1. /\ AddsGateway(req[c].name, "available") /\ Ends(c, None) /\ httpRoutes' = httpRoutes /\ pending' = pending
        /\ backend = "aws"
    BY <1>4 DEF AwsCreateGateway, OnlyApis, Is
  <2> QED BY <1>0, <2>1, GwAddsKeeps
<1> QED BY <1>1, <1>2, <1>3, <1>4

LEMMA GwDeletedKeeps ==
    ASSUME GwInv, NEW c \in Clients, req[c] # Idle, req[c].op # "deploy", GwDeleted(c)
    PROVE  GwCalm /\ backend' = backend
<1>1. CASE Ends(c, None)
  BY <1>1, GwEndsKeeps
<1>2. CASE ~Ends(c, None)
  <2>1. PICK q : q = [req[c] EXCEPT !.at = "forget"]
    OBVIOUS
  <2>2. Goes(c, q)
    BY <1>2, <2>1 DEF GwDeleted
  <2>3. IsGwReq(q) /\ Way(q, backend, apis', httpRoutes')
    BY <2>1, GwMovesOn
  <2> QED BY <2>2, <2>3, GwGoesKeeps
<1> QED BY <1>1, <1>2

LEMMA GwDrops ==
    ASSUME GwInv, NEW i, Drops(i), i \in DOMAIN apis => apis[i] # None
    PROVE  GwEdits /\ httpRoutes' = httpRoutes /\ pending' = pending
<1>1. PICK a : a = None
  OBVIOUS
<1>2. apis' = [apis EXCEPT ![i] = a] /\ httpRoutes' = httpRoutes /\ pending' = pending
  BY <1>1 DEF Drops, OnlyApis
<1>3. GwEdits
  BY <1>1, <1>2, GwApisAre DEF GwEdits
<1> QED BY <1>2, <1>3

LEMMA GwDeletes ==
    ASSUME GwInv, NEW c \in Clients, req[c] # Idle, req[c].op # "deploy", DeletesGateway(c)
    PROVE  GwInv'
<1>1. CASE Named(req[c].name) = {}
  BY <1>1, GwRefusedKeeps DEF DeletesGateway
<1>2. CASE Named(req[c].name) # {}
  <2>1. PICK i \in Named(req[c].name) : Drops(i) /\ GwDeleted(c)
    BY <1>2 DEF DeletesGateway
  <2>2. GwEdits /\ httpRoutes' = httpRoutes /\ pending' = pending
    BY <2>1, GwNamed, GwDrops
  <2> QED BY <2>1, <2>2, GwDeletedKeeps, GwCalmKeeps
<1> QED BY <1>1, <1>2


LEMMA GwDeletions ==
    ASSUME GwInv, NEW c \in Clients, req[c] # Idle,
           \/ InmemDeleteGateway(c) \/ EnvoyDeleteGateway(c) \/ ApimDeleteGateway(c) \/ AwsFindForDelete(c)
           \/ AwsDeleteGateway(c) \/ GcpDeleteLive(c) \/ GcpDeleteGatewayApi(c)
    PROVE  GwInv'
<1>0. req[c].op = "delete"
  BY DEF InmemDeleteGateway, EnvoyDeleteGateway, ApimDeleteGateway, AwsFindForDelete, AwsDeleteGateway,
     GcpDeleteLive, GcpDeleteGatewayApi, Is
<1>1. CASE InmemDeleteGateway(c)
  <2>1. CASE Named(req[c].name) = {}
    BY <1>1, <2>1, GwRefusedKeeps DEF InmemDeleteGateway
  <2>2. CASE Named(req[c].name) # {}
    <3>1. PICK i \in Named(req[c].name) :
            apis' = [apis EXCEPT ![i].status = "deleting"] /\ Sleeps("delete", req[c].name) /\ GwDeleted(c)
      BY <1>1, <2>2 DEF InmemDeleteGateway
    <3>2. i \in DOMAIN apis /\ apis[i] # None
      BY <3>1, GwNamed
    <3>3. PICK a : a = [apis[i] EXCEPT !.status = "deleting"]
      OBVIOUS
    <3>4. a \in ApiRecords /\ a.name = apis[i].name
      <4>1. "deleting" \in ApiStatuses
        BY DEF ApiStatuses
      <4> QED BY <3>2, <3>3, <4>1, GwApisAre, GwApiEdited
    <3>5. apis' = [apis EXCEPT ![i] = a] /\ httpRoutes' = httpRoutes /\ pending' = pending
      BY <3>1, <3>3 DEF Sleeps
    <3>6. GwEdits
      BY <3>2, <3>4, <3>5, GwEditOne
    <3> QED BY <1>0, <3>1, <3>5, <3>6, GwDeletedKeeps, GwCalmKeeps
  <2> QED BY <2>1, <2>2
<1>2. CASE EnvoyDeleteGateway(c) \/ ApimDeleteGateway(c)
  BY <1>0, <1>2, GwDeletes DEF EnvoyDeleteGateway, ApimDeleteGateway
<1>3. CASE AwsFindForDelete(c)
  <2>1. CASE Named(req[c].name) = {}
    BY <1>3, <2>1, GwRefusedKeeps DEF AwsFindForDelete
  <2>2. CASE Named(req[c].name) # {}
    <3>1. PICK i \in Named(req[c].name) : GwGoes(c, [req[c] EXCEPT !.at = "api", !.id = i])
      BY <1>3, <2>2 DEF AwsFindForDelete
    <3>2. PICK q : q = [req[c] EXCEPT !.at = "api", !.id = i]
      OBVIOUS
    <3>3. IsGwReq(q) /\ Way(q, backend, apis, httpRoutes)
      BY <1>0, <3>2, GwMovesOn
    <3> QED BY <3>1, <3>2, <3>3, GwGoesSame
  <2> QED BY <2>1, <2>2
<1>4. CASE AwsDeleteGateway(c)
  <2>1. CASE StillThere(c)
    <3>1. PICK i : i = req[c].id
      OBVIOUS
    <3>2. Drops(i) /\ GwDeleted(c) /\ apis[i] # None
      BY <1>4, <2>1, <3>1 DEF AwsDeleteGateway, StillThere
    <3>3. GwEdits /\ httpRoutes' = httpRoutes /\ pending' = pending
      BY <3>2, GwDrops
    <3> QED BY <1>0, <3>2, <3>3, GwDeletedKeeps, GwCalmKeeps
  <2>2. CASE ~StillThere(c)
    BY <1>4, <2>2, GwRefusedKeeps DEF AwsDeleteGateway
  <2> QED BY <2>1, <2>2
<1>5. CASE GcpDeleteLive(c)
  <2>1. PICK q : q = [req[c] EXCEPT !.at = "api"]
    OBVIOUS
  <2>2. /\ Goes(c, q) /\ httpRoutes' = httpRoutes /\ pending' = pending
        /\ apis' = [i \in DOMAIN apis |-> IF i \in Named(req[c].name) THEN [apis[i] EXCEPT !.live = FALSE, !.table = NoRoutes]
                                          ELSE apis[i]]
    BY <1>5, <2>1 DEF GcpDeleteLive, OnlyApis
  <2>3. IsGwReq(q) /\ Way(q, backend, apis', httpRoutes')
    BY <1>0, <2>1, GwMovesOn
  <2>4. GwCalm /\ backend' = backend
    BY <2>2, <2>3, GwGoesKeeps
  <2>5. ASSUME NEW a \in ApiRecords
        PROVE  /\ [a EXCEPT !.live = FALSE, !.table = NoRoutes] \in ApiRecords
               /\ [a EXCEPT !.live = FALSE, !.table = NoRoutes].name = a.name
    <3>1. PICK b : b = [a EXCEPT !.live = FALSE]
      OBVIOUS
    <3>2. b \in ApiRecords /\ b.name = a.name
      BY <3>1, GwApiEdited
    <3>3. PICK d : d = [b EXCEPT !.table = NoRoutes]
      OBVIOUS
    <3>4. d \in ApiRecords /\ d.name = b.name
      BY <3>2, <3>3, GwNoRoutes, GwApiEdited
    <3>5. d = [a EXCEPT !.live = FALSE, !.table = NoRoutes]
      BY <3>1, <3>3, Zenon
    <3> QED BY <3>2, <3>4, <3>5, Zenon
  <2>6. GwEdits
    <3>1. ASSUME NEW i \in DOMAIN apis
          PROVE  /\ apis'[i] \in ApiRecords \cup {None}
                 /\ apis'[i] # None => apis[i] # None /\ apis'[i].name = apis[i].name
      <4>1. CASE i \in Named(req[c].name)
        <5>1. apis[i] \in ApiRecords /\ apis[i] # None
          BY <4>1, GwNamed, GwApisAre
        <5>2. apis'[i] = [apis[i] EXCEPT !.live = FALSE, !.table = NoRoutes]
          BY <2>2, <4>1
        <5> QED BY <2>5, <5>1, <5>2, Zenon
      <4>2. CASE i \notin Named(req[c].name)
        BY <2>2, <4>2, GwApisAre
      <4> QED BY <4>1, <4>2
    <3> QED BY <2>2, <3>1 DEF GwEdits
  <2> QED BY <2>2, <2>4, <2>6, GwCalmKeeps
<1>6. CASE GcpDeleteGatewayApi(c)
  BY <1>0, <1>6, GwRefusedKeeps, GwDeletes DEF GcpDeleteGatewayApi
<1> QED BY <1>1, <1>2, <1>3, <1>4, <1>5, <1>6

-----------------------------------------------------------------------------
(* Deployments in one step                                                  *)

\* An API with its table replaced, and its status or that it is live.
LEMMA GwApiMarked ==
    ASSUME NEW b \in ApiRecords, NEW d,
           d = [b EXCEPT !.status = "updating"] \/ \E v \in BOOLEAN : d = [b EXCEPT !.live = v]
    PROVE  d \in ApiRecords /\ d.name = b.name /\ d.table = b.table
<1>1. "updating" \in ApiStatuses
  BY DEF ApiStatuses
<1>2. CASE d = [b EXCEPT !.status = "updating"]
  BY <1>1, <1>2 DEF ApiRecords
<1>3. CASE \E v \in BOOLEAN : d = [b EXCEPT !.live = v]
  BY <1>3 DEF ApiRecords
<1> QED BY <1>2, <1>3

LEMMA GwTwoEdits ==
    ASSUME NEW f, f = [x \in DOMAIN f |-> f[x]], NEW i \in DOMAIN f, NEW b, NEW B, B = [f EXCEPT ![i] = b],
           NEW d, NEW g, g = [B EXCEPT ![i] = d]
    PROVE  g = [f EXCEPT ![i] = d]
OBVIOUS

\* A deployment that ends with API i replaced by d.
LEMMA GwReplacedKeeps ==
    ASSUME GwInv, NEW c \in Clients, req[c] # Idle, NEW i \in DOMAIN apis, apis[i] # None, Deployed(c, i),
           NEW d \in ApiRecords, d.name = apis[i].name, d.table = TableOf(req[c].routes),
           apis' = [apis EXCEPT ![i] = d],
           backend # "envoy", backend # "azure", httpRoutes' = httpRoutes, pending' = pending
    PROVE  GwInv'
<1>1. PICK routes \in RouteLists : routes = req[c].routes
  BY GwRequest
<1>2. \A s \in Slots : d.table[s] = IF s <= Len(routes) THEN routes[s] ELSE None
  BY <1>1, GwTableOf
<1>3. GwEdits /\ apis'[i] = d
  BY GwEditOne
<1>4. GwServes(i, routes, backend, apis', httpRoutes')
  BY <1>2, <1>3 DEF GwServes
<1>5. GwCalm /\ backend' = backend
  BY <1>1, <1>4, GwRequest, GwDeployedKeeps
<1> QED BY <1>3, <1>5, GwCalmKeeps

\* The replacement as the code writes it, field by field.
LEMMA GwReplaces ==
    ASSUME GwInv, NEW i \in DOMAIN apis, apis[i] # None, NEW t \in RouteTables,
           \/ apis' = [apis EXCEPT ![i].table = t, ![i].status = "updating"]
           \/ \E v \in BOOLEAN : apis' = [apis EXCEPT ![i].table = t, ![i].live = v]
    PROVE  \E d \in ApiRecords : d.name = apis[i].name /\ d.table = t /\ apis' = [apis EXCEPT ![i] = d]
<1>1. PICK a \in ApiRecords : a = apis[i]
  BY GwApisAre
<1>2. PICK b : b = [a EXCEPT !.table = t]
  OBVIOUS
<1>3. PICK B : B = [apis EXCEPT ![i] = b]
  OBVIOUS
<1>4. B = [apis EXCEPT ![i].table = t]
  BY <1>1, <1>2, <1>3, Zenon
<1>5. B[i] = b
  BY <1>3, GwApisAre
<1>6. PICK d : /\ d = [b EXCEPT !.status = "updating"] \/ \E v \in BOOLEAN : d = [b EXCEPT !.live = v]
               /\ apis' = [B EXCEPT ![i] = d]
  <2>1. CASE apis' = [apis EXCEPT ![i].table = t, ![i].status = "updating"]
    <3>1. apis' = [B EXCEPT ![i].status = "updating"]
      BY <1>4, <2>1, Zenon
    <3>2. apis' = [B EXCEPT ![i] = [b EXCEPT !.status = "updating"]]
      BY <1>5, <3>1, Zenon
    <3> QED BY <3>2, Zenon
  <2>2. CASE \E v \in BOOLEAN : apis' = [apis EXCEPT ![i].table = t, ![i].live = v]
    <3>1. PICK v \in BOOLEAN : apis' = [B EXCEPT ![i].live = v]
      BY <1>4, <2>2, Zenon
    <3>2. apis' = [B EXCEPT ![i] = [b EXCEPT !.live = v]]
      BY <1>5, <3>1, Zenon
    <3> QED BY <3>2, Zenon
  <2> QED BY <2>1, <2>2, Zenon
<1>7. d \in ApiRecords /\ d.name = a.name /\ d.table = t
  <2>1. b \in ApiRecords /\ b.name = a.name /\ b.table = t
    BY <1>2, GwApiEdited, Zenon
  <2>2. d \in ApiRecords /\ d.name = b.name /\ d.table = b.table
    BY <1>6, <2>1, GwApiMarked, Zenon
  <2> QED BY <2>1, <2>2, Zenon
<1>8. apis = [x \in DOMAIN apis |-> apis[x]]
  BY GwApisAre
<1>9. apis' = [apis EXCEPT ![i] = d]
  BY <1>3, <1>6, <1>8, GwTwoEdits, Zenon
<1> QED BY <1>1, <1>7, <1>9, Zenon

LEMMA GwInmemDeploys ==
    ASSUME GwInv, NEW c \in Clients, req[c] # Idle, InmemDeployGateway(c)
    PROVE  GwInv'
<1>1. CASE Named(req[c].name) = {}
  BY <1>1, GwRefusedKeeps DEF InmemDeployGateway
<1>2. CASE Named(req[c].name) # {}
  <2>1. PICK i \in Named(req[c].name) :
           /\ apis' = [apis EXCEPT ![i].table = TableOf(req[c].routes), ![i].status = "updating"]
           /\ Sleeps("updated", req[c].name)
           /\ Deployed(c, i)
    BY <1>2 DEF InmemDeployGateway
  <2>2. PICK t \in RouteTables : t = TableOf(req[c].routes)
    BY GwRequest, GwTableOf
  <2>3. httpRoutes' = httpRoutes /\ pending' = pending /\ backend # "envoy" /\ backend # "azure"
    BY <2>1 DEF Sleeps, InmemDeployGateway, Is
  <2>4. i \in DOMAIN apis /\ apis[i] # None
    BY <2>1, GwNamed
  <2>5. apis' = [apis EXCEPT ![i].table = t, ![i].status = "updating"]
    BY <2>1, <2>2, Zenon
  <2>6. PICK d \in ApiRecords : d.name = apis[i].name /\ d.table = t /\ apis' = [apis EXCEPT ![i] = d]
    <3>1. \/ apis' = [apis EXCEPT ![i].table = t, ![i].status = "updating"]
          \/ \E u \in BOOLEAN : apis' = [apis EXCEPT ![i].table = t, ![i].live = u]
      BY <2>5, Zenon
    <3> QED BY <2>4, <3>1, GwReplaces, Zenon
  <2>7. d.table = TableOf(req[c].routes) /\ Deployed(c, i)
    BY <2>1, <2>2, <2>6
  <2> QED BY <2>3, <2>4, <2>6, <2>7, GwReplacedKeeps
<1> QED BY <1>1, <1>2

LEMMA GwPoints ==
    ASSUME GwInv, NEW c \in Clients, req[c] # Idle, backend = "gcp", NEW i, apis[i] # None,
           alone = c /\ req[c].lost # TRUE => i \in DOMAIN apis, PointsAt(c, i)
    PROVE  GwInv'
<1>1. /\ apis' = [apis EXCEPT ![i].table = TableOf(req[c].routes), ![i].live = TRUE]
      /\ httpRoutes' = httpRoutes /\ pending' = pending /\ Deployed(c, i)
  BY DEF PointsAt, OnlyApis
<1>2. PICK t \in RouteTables : t = TableOf(req[c].routes)
  BY GwRequest, GwTableOf
<1>3. PICK v \in BOOLEAN : apis' = [apis EXCEPT ![i].table = t, ![i].live = v]
  BY <1>1, <1>2, Zenon
<1>4. CASE i \in DOMAIN apis
  <2>1. PICK d \in ApiRecords : d.name = apis[i].name /\ d.table = t /\ apis' = [apis EXCEPT ![i] = d]
    <3>1. \/ apis' = [apis EXCEPT ![i].table = t, ![i].status = "updating"]
          \/ \E u \in BOOLEAN : apis' = [apis EXCEPT ![i].table = t, ![i].live = u]
      BY <1>3, Zenon
    <3>2. i \in DOMAIN apis /\ apis[i] # None
      BY <1>4
    <3> QED BY <3>1, <3>2, GwReplaces, Zenon
  <2>2. backend # "envoy" /\ backend # "azure"
    OBVIOUS
  <2>3. d.table = TableOf(req[c].routes)
    BY <1>2, <2>1
  <2>4. httpRoutes' = httpRoutes /\ pending' = pending /\ Deployed(c, i)
    BY <1>1
  <2> QED BY <1>4, <2>1, <2>2, <2>3, <2>4, GwReplacedKeeps
<1>5. CASE i \notin DOMAIN apis
  <2>1. PICK B : B = [apis EXCEPT ![i].table = t]
    OBVIOUS
  <2>2. apis' = [B EXCEPT ![i].live = v]
    BY <1>3, <2>1, Zenon
  <2>3. B = apis
    BY <1>5, <2>1, GwApisAre
  <2>4. apis' = apis
    BY <1>5, <2>2, <2>3, GwApisAre
  <2>5. ~(alone = c /\ req[c].lost # TRUE)
    BY <1>5
  <2>6. GwCalm /\ backend' = backend
    BY <1>1, <2>5, GwRequest, GwDeployedKeeps
  <2>7. GwTypes' /\ OneOfAName'
    BY <1>1, <2>4, <2>6, GwApisKept DEF GwInv, GwTypes
  <2> QED BY <2>6, <2>7 DEF GwInv, GwCalm
<1> QED BY <1>4, <1>5

LEMMA GwConfigures ==
    ASSUME GwInv, NEW c \in Clients, req[c] # Idle, GcpCreateConfig(c)
    PROVE  GwInv'
<1>0. req[c].op = "deploy" /\ req[c].at = "first" /\ backend = "gcp"
  BY DEF GcpCreateConfig, Is
<1>1. CASE Named(req[c].name) = {}
  BY <1>1, GwRefusedKeeps DEF GcpCreateConfig
<1>2. CASE Named(req[c].name) # {}
  <2>1. PICK i \in Named(req[c].name) :
           /\ apis' = [apis EXCEPT ![i].configured = TRUE] /\ OnlyApis
           /\ Goes(c, [req[c] EXCEPT !.at = "gateway", !.id = i])
    BY <1>2 DEF GcpCreateConfig
  <2>2. PICK r : r = req[c]
    OBVIOUS
  <2>3. PICK q : q = [r EXCEPT !.at = "gateway", !.id = i]
    OBVIOUS
  <2>4. IsGwReq(r)
    BY <2>2, GwRequest
  <2>5. q = GwRec(r.op, "gateway", r.name, r.routes, r.left, r.operation, i, r.done, r.lost)
    BY <2>3, <2>4, GwAtId
  <2>6. IsGwReq(q) /\ q.at = "gateway" /\ q.id = i /\ q.name = r.name
    BY <1>0, <2>2, <2>4, <2>5 DEF GwRec, IsGwReq
  <2>7. i \in DOMAIN apis /\ apis[i] # None /\ apis[i].name = r.name
    BY <2>1, <2>2, GwNamed
  <2>8. PICK a : a = [apis[i] EXCEPT !.configured = TRUE]
    OBVIOUS
  <2>9. a \in ApiRecords /\ a.name = apis[i].name
    BY <2>7, <2>8, GwApisAre, GwApiEdited
  <2>10. apis' = [apis EXCEPT ![i] = a] /\ httpRoutes' = httpRoutes /\ pending' = pending
    BY <2>1, <2>8 DEF OnlyApis
  <2>11. GwEdits /\ DOMAIN apis' = DOMAIN apis /\ apis'[i] = a
    BY <2>7, <2>9, <2>10, GwEditOne
  <2>12. Way(q, backend, apis', httpRoutes')
    BY <1>0, <2>6, <2>7, <2>9, <2>11, ApisAreSome DEF Way
  <2>13. Goes(c, q)
    BY <2>1, <2>2, <2>3
  <2>14. GwCalm /\ backend' = backend
    BY <2>6, <2>12, <2>13, GwGoesKeeps
  <2> QED BY <2>10, <2>11, <2>14, GwCalmKeeps
<1> QED BY <1>1, <1>2

LEMMA GwGcpDeploys ==
    ASSUME GwInv, NEW c \in Clients, req[c] # Idle, GcpDeployGateway(c) \/ GcpPatchGateway(c)
    PROVE  GwInv'
<1>0. /\ req[c].op = "deploy" /\ backend = "gcp" /\ req[c].at \in {"gateway", "patch"}
  BY DEF GcpDeployGateway, GcpPatchGateway, Is
<1>1. PICK i : i = req[c].id
  OBVIOUS
<1>2. CASE GwRefused(c)
  BY <1>2, GwRefusedKeeps
<1>3. CASE StillThere(c) /\ PointsAt(c, i)
  <2>1. apis[i] # None
    BY <1>1, <1>3 DEF StillThere
  <2>2. alone = c /\ req[c].lost # TRUE => i \in DOMAIN apis
    BY <1>0, <1>1, GwOnItsWay
  <2> QED BY <1>0, <1>3, <2>1, <2>2, GwPoints
<1>4. CASE GwGoes(c, [req[c] EXCEPT !.at = "patch"])
  <2>2. PICK r : r = req[c]
    OBVIOUS
  <2>3. PICK q : q = [r EXCEPT !.at = "patch"]
    OBVIOUS
  <2>4. IsGwReq(r)
    BY <2>2, GwRequest
  <2>5. q = GwRec(r.op, "patch", r.name, r.routes, r.left, r.operation, r.id, r.done, r.lost)
    BY <2>3, <2>4, GwAt
  <2>6. IsGwReq(q) /\ q.at = "patch" /\ q.id = r.id /\ q.name = r.name /\ q.op = r.op /\ q.lost = r.lost
    BY <1>0, <2>2, <2>4, <2>5 DEF GwRec, IsGwReq
  <2>7. alone = c => Way(q, backend, apis, httpRoutes)
    BY <1>0, <2>2, <2>6, GwWay DEF Way
  <2> QED BY <1>4, <2>2, <2>3, <2>6, <2>7, GwGoesSame
<1> QED BY <1>1, <1>2, <1>3, <1>4 DEF GcpDeployGateway, GcpPatchGateway

-----------------------------------------------------------------------------
(* The goroutines of inmem, a restart, and all steps                        *)

\* On inmem a deployment is one step: nothing is known of it before.
LEMMA GwWakes ==
    ASSUME GwInv, NEW k, NEW g \in GatewayNames, Wakes(k, g), GwEdits
    PROVE  GwInv'
<1>1. /\ UNCHANGED <<backend, req, alone, httpRoutes, pending>> /\ answer' = None /\ backend = "inmem"
  BY DEF Wakes
<1>2. GwReqs'
  BY <1>1 DEF GwInv, GwReqs
<1>3. GwAlone'
  BY <1>1 DEF GwInv, GwAlone, Way
<1>4. DeployedInForce'
  BY <1>1 DEF DeployedInForce
<1> QED BY <1>1, <1>2, <1>3, <1>4, GwCalmKeeps DEF GwCalm

LEMMA GwTimers ==
    ASSUME GwInv, NEW g \in GatewayNames, ScheduleAvailable(g) \/ UpdateApplied(g) \/ DeleteApplied(g)
    PROVE  GwInv'
<1>1. PICK k : Wakes(k, g)
  BY DEF ScheduleAvailable, UpdateApplied, DeleteApplied
<1>2. ASSUME NEW st, BecomesAvailable(g, st) PROVE GwEdits
  <2>1. ASSUME NEW i \in DOMAIN apis
        PROVE  /\ apis'[i] \in ApiRecords \cup {None}
               /\ apis'[i] # None => apis[i] # None /\ apis'[i].name = apis[i].name
    <3>1. CASE i \in Named(g)
      <4>1. apis[i] \in ApiRecords /\ apis[i] # None
        BY <3>1, GwNamed, GwApisAre
      <4>2. PICK s \in ApiStatuses : s = IF apis[i].status \in st THEN "available" ELSE apis[i].status
        BY <4>1 DEF ApiRecords, ApiStatuses
      <4>3. apis'[i] = [apis[i] EXCEPT !.status = s]
        BY <1>2, <3>1, <4>2 DEF BecomesAvailable
      <4>4. PICK a \in ApiRecords : a = apis[i]
        BY <4>1
      <4>5. apis'[i] = [a EXCEPT !.status = s]
        BY <4>3, <4>4
      <4>6. apis'[i] \in ApiRecords /\ apis'[i].name = a.name
        BY <4>5 DEF ApiRecords
      <4> QED BY <4>1, <4>4, <4>6
    <3>2. CASE i \notin Named(g)
      BY <1>2, <3>2, GwApisAre DEF BecomesAvailable
    <3> QED BY <3>1, <3>2
  <2> QED BY <1>2, <2>1 DEF GwEdits, BecomesAvailable
<1>3. CASE ScheduleAvailable(g) \/ UpdateApplied(g)
  <2>1. GwEdits
    BY <1>2, <1>3 DEF ScheduleAvailable, UpdateApplied
  <2> QED BY <1>1, <2>1, GwWakes
<1>4. CASE DeleteApplied(g)
  <2>1. apis' = [i \in DOMAIN apis |-> IF i \in Named(g) THEN None ELSE apis[i]]
    BY <1>4 DEF DeleteApplied
  <2>2. GwEdits
    BY <2>1, GwApisAre DEF GwEdits
  <2> QED BY <1>1, <2>2, GwWakes
<1> QED BY <1>3, <1>4

LEMMA GwRestarts ==
    ASSUME GwInv, GatewayRestart
    PROVE  GwInv'
<1>1. /\ UNCHANGED <<backend, apis, httpRoutes>> /\ answer' = None /\ alone' = None
      /\ req' = [c \in Clients |-> Idle] /\ pending' = [g \in GatewayNames |-> <<>>]
  BY DEF GatewayRestart
<1>2. pending' \in [GatewayNames -> RouteLists]
  BY <1>1, GwShortLists
<1>3. GwTypes' /\ OneOfAName'
  BY <1>1, <1>2, GwApisKept DEF GwInv, GwTypes
<1>4. GwReqs' /\ GwAlone' /\ DeployedInForce'
  BY <1>1, NoneIsNoClient DEF GwReqs, GwAlone, DeployedInForce
<1> QED BY <1>3, <1>4 DEF GwInv

LEMMA GwDies ==
    ASSUME GwInv, NEW c \in Clients, Dies(c), SameGateways
    PROVE  GwInv'
<1>1. Ends(c, None)
  BY DEF Dies, Fails
<1> QED BY <1>1, GwSame, GwEndsKeeps DEF GwInv, GwCalm

LEMMA GwSteps ==
    ASSUME GwInv, NEW c \in Clients, GatewaySteps(c)
    PROVE  GwInv'
<1>0. req[c] # Idle
  BY DEF GatewaySteps
<1>1. CASE DescribesRoutes(c) \/ ForgetsApi(c) \/ WipesRoute(c) \/ Wiped(c)
  BY <1>0, <1>1, GwDescribes, GwForgets, GwWipes, GwWiped
<1>2. CASE InmemCreateGateway(c) \/ InmemDeleteGateway(c) \/ InmemDeployGateway(c)
  BY <1>0, <1>2, GwCreations, GwDeletions, GwInmemDeploys
<1>3. CASE \/ EnvoyGet(c) \/ EnvoyDeployRoutes(c) \/ EnvoyListRoutes(c)
           \/ EnvoyCreateGateway(c) \/ EnvoyDeleteGateway(c)
  <2>1. CASE EnvoyGet(c)
    BY <1>0, <2>1, GwFoundKeeps DEF EnvoyGet, Is
  <2>2. CASE EnvoyListRoutes(c)
    BY <1>0, <2>2, GwListsKeeps DEF EnvoyListRoutes, StepOf
  <2> QED BY <1>0, <1>3, <2>1, <2>2, GwEnvoyDeploys, GwCreations, GwDeletions
<1>4. CASE ApimListOps(c) \/ ApimDeployOps(c) \/ ApimCreateGateway(c) \/ ApimDeleteGateway(c)
  BY <1>0, <1>4, GwApimLists, GwApimDeploys, GwCreations, GwDeletions
<1>5. CASE \/ AwsApiIDByName(c) \/ AwsGetRoutes(c) \/ AwsPublishRoutes(c)
           \/ AwsCreateDeployment(c) \/ AwsCreateGateway(c) \/ AwsFindForDelete(c)
           \/ AwsDeleteGateway(c)
  <2>1. CASE AwsApiIDByName(c)
    BY <1>0, <2>1, GwFoundKeeps DEF AwsApiIDByName, Is
  <2>2. CASE AwsGetRoutes(c)
    BY <1>0, <2>2, GwListsKeeps, GwNoListKeeps DEF AwsGetRoutes, Is
  <2> QED BY <1>0, <1>5, <2>1, <2>2, GwAwsPublishes, GwAwsDeploys, GwCreations, GwDeletions
<1>6. CASE \/ GcpCreateConfig(c) \/ GcpDeployGateway(c) \/ GcpPatchGateway(c)
           \/ GcpCreateGatewayApi(c) \/ GcpDeleteLive(c) \/ GcpDeleteGatewayApi(c)
  BY <1>0, <1>6, GwConfigures, GwGcpDeploys, GwCreations, GwDeletions
<1> QED BY <1>1, <1>2, <1>3, <1>4, <1>5, <1>6 DEF GatewaySteps

LEMMA GwInvInit == ShimInit /\ GatewayInit => GwInv
<1> SUFFICES ASSUME ShimInit, GatewayInit PROVE GwInv
  OBVIOUS
<1>1. GwTypes
  BY GwShortLists, GwNoRoutes DEF GatewayInit, GwTypes
<1>2. GwReqs /\ GwAlone /\ DeployedInForce
  BY NoneIsNoClient DEF ShimInit, GwReqs, GwAlone, DeployedInForce
<1>3. OneOfAName
  BY DEF GatewayInit, OneOfAName
<1> QED BY <1>1, <1>2, <1>3 DEF GwInv

LEMMA GwInvStep == GwInv /\ [GatewayNext]_<<shimVars, gatewayVars>> => GwInv'
<1> SUFFICES ASSUME GwInv, [GatewayNext]_<<shimVars, gatewayVars>> PROVE GwInv'
  OBVIOUS
<1>1. CASE GatewayNext
  <2>1. CASE \E c \in Clients : GatewayRequests(c) \/ GatewaySteps(c) \/ (Dies(c) /\ SameGateways)
    BY <2>1, GwRequestsKeep, GwSteps, GwDies
  <2>2. CASE \E g \in GatewayNames : ScheduleAvailable(g) \/ UpdateApplied(g) \/ DeleteApplied(g)
    BY <2>2, GwTimers
  <2>3. CASE GatewayRestart
    BY <2>3, GwRestarts
  <2> QED BY <1>1, <2>1, <2>2, <2>3 DEF GatewayNext
<1>2. CASE UNCHANGED <<shimVars, gatewayVars>>
  <2>1. UNCHANGED <<service, backend, req, alone, answer, apis, httpRoutes, pending>>
    BY <1>2 DEF shimVars, gatewayVars
  <2>2. GwTypes' /\ OneOfAName' /\ GwReqs' /\ GwAlone'
    BY <2>1 DEF GwInv, GwTypes, OneOfAName, GwReqs, GwAlone
  <2>3. DeployedInForce'
    <3> SUFFICES ASSUME NEW r, r # None, service = "apigateway", answer # None,
                        \/ r \in Range(InForce(answer.gateway)')
                        \/ \E n \in DOMAIN answer.routes : r = Kept(answer.routes[n])'
                 PROVE  Cardinality({s \in Slots : InForce(answer.gateway)'[s] = r})
                          = Cardinality({n \in DOMAIN answer'.routes : Kept(answer.routes[n])' = r})
      BY <2>1 DEF DeployedInForce
    <3>1. InForce(answer.gateway)' = InForce(answer.gateway)
      BY <2>1 DEF InForce
    <3>2. \A n : Kept(answer.routes[n])' = Kept(answer.routes[n])
      BY <2>1 DEF Kept
    <3>3. Cardinality({s \in Slots : InForce(answer.gateway)[s] = r})
            = Cardinality({n \in DOMAIN answer.routes : Kept(answer.routes[n]) = r})
      <4>1. r \in Range(InForce(answer.gateway)) \cup {Kept(answer.routes[n]) : n \in DOMAIN answer.routes}
        BY <3>1, <3>2
      <4> QED BY <4>1 DEF GwInv, DeployedInForce
    <3>4. {n \in DOMAIN answer'.routes : Kept(answer.routes[n])' = r} = {n \in DOMAIN answer.routes : Kept(answer.routes[n]) = r}
      BY <2>1, <3>2
    <3> QED BY <3>1, <3>3, <3>4
  <2> QED BY <2>2, <2>3 DEF GwInv
<1> QED BY <1>1, <1>2

\* DeployGateway: a deployment answered with success, that no other request
\* overlapped and none of whose deletions failed, leaves exactly its routes
\* in force, for every number of gateways, routes and clients, on every
\* backend, whatever an earlier, broken off, deployment left.
THEOREM DeployedAlwaysInForce == GatewaySpec => []DeployedInForce
<1>1. GwInv => DeployedInForce
  BY DEF GwInv
<1> QED BY <1>1, GwInvInit, GwInvStep, PTL DEF GatewaySpec
=============================================================================
