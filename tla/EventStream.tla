----------------------------- MODULE EventStream -----------------------------
(***************************************************************************)
(* Event streams (services/eventstream): clusters and topics managed       *)
(* through the frontends aws_msk, gcp_managedkafka and azure_eventhubs,    *)
(* records written and read through the Kafka protocol server              *)
(* (kafkaserver), over the in-process log of inmem or the custom resources *)
(* of strimzi, which has no data plane.                                    *)
(*                                                                         *)
(* A topic is one partition here.  A request of the Kafka server names     *)
(* several topics and makes one call, under the lock of the log, for each. *)
(* Records carry the timestamps of their producers, so that any record may *)
(* be too old to be kept, whatever its offset.                             *)
(***************************************************************************)
EXTENDS Shim, Sequences

CONSTANTS
    StreamClusters,
    KafkaCluster,   \* the cluster the Kafka server is configured with
    StreamTopics,
    MaxRecords,     \* bound: records ever produced
    MaxTopicCalls   \* bound: requests to create a topic

VARIABLES
    clusters,   \* the clusters there are
    log,        \* per cluster and topic, retained records and the next offset, or None
    committed,  \* per cluster and topic, the offset a group committed, or None
    produced,   \* how many records were sent
    asked,      \* how many topics were asked for
    written     \* history: per cluster and topic, the values acknowledged so far

streamVars == <<clusters, log, committed, produced, asked, written>>

Keys == StreamClusters \X StreamTopics
EmptyLog == [recs |-> <<>>, next |-> 0]
Records == [off : Nat, val : Nat, old : BOOLEAN]
Logs == [recs : Seq(Records), next : Nat]

ASSUME KafkaClusterIsOne == KafkaCluster \in StreamClusters
ASSUME NoneIsNoLog == None \notin Logs

StreamInit ==
    /\ clusters = {} /\ produced = 0 /\ asked = 0
    /\ log = [k \in Keys |-> None]
    /\ committed = [k \in Keys |-> None]
    /\ written = [k \in Keys |-> <<>>]

-----------------------------------------------------------------------------
(* The log of a partition *)

\* A sequence from the first of some positions on.
From(s, I) ==
    SubSeq(s, IF I = {} THEN Len(s) + 1 ELSE CHOOSE i \in I : \A j \in I : i <= j, Len(s))
\* The longest run of records that are too old is dropped.
\* Mutation: every record that is too old is dropped.
PrunedAnywhere(l) == [l EXCEPT !.recs = SelectSeq(@, LAMBDA r : ~r.old)]
Pruned(l) == [l EXCEPT !.recs = From(@, {i \in 1..Len(@) : ~@[i].old})]
Appended(l, v, old) ==
    [recs |-> Append(l.recs, [off |-> l.next, val |-> v, old |-> old]), next |-> l.next + 1]

\* What Fetch answers for an offset: an error, or the records from it on; the
\* loop passes over those below it, which come first, and ends at the maximum (0: none).
OutOfRange == "out of range"
Fetched(l, o, max) ==
    IF (l.recs # <<>> /\ o < l.recs[1].off) \/ o > l.next THEN OutOfRange
    ELSE LET rest == From(l.recs, {i \in 1..Len(l.recs) : l.recs[i].off >= o}) IN
         SubSeq(rest, 1, IF max > 0 /\ max < Len(rest) THEN max ELSE Len(rest))
EarliestOffset(l) == IF l.recs = <<>> THEN l.next ELSE l.recs[1].off

\* The batches of a fetch response: a batch holds records of consecutive
\* offsets and names the first of them only.
GroupStarts(rs) == {i \in 1..Len(rs) : i = 1 \/ rs[i].off # rs[i - 1].off + 1}
GroupOf(rs, i) ==
    CHOOSE g \in GroupStarts(rs) : g <= i /\ \A h \in GroupStarts(rs) : h <= i => h <= g
\* What the reader makes of them: the offset is that of the batch and a count.
Decoded(rs) == [i \in 1..Len(rs) |->
                  [off |-> rs[GroupOf(rs, i)].off + (i - GroupOf(rs, i)), val |-> rs[i].val]]

-----------------------------------------------------------------------------
(* Requests *)

StreamSame == UNCHANGED streamVars
StreamFails(c) == Fails(c) /\ StreamSame
StreamAsks(c, r) == Begin(c, r) /\ StreamSame

ClusterReq(op, k, idem) == [op |-> op, at |-> "first", cluster |-> k, idem |-> idem]
\* msk: the cluster is named by an ARN, whose last segment is no cluster's name
TopicReq(op, at, k, ts, msk, idem) ==
    [op |-> op, at |-> at, cluster |-> k, left |-> ts, msk |-> msk, idem |-> idem]

MskCreateCluster(c) ==
    \E k \in StreamClusters : StreamAsks(c, ClusterReq("createCluster", k, FALSE))
AzureCreateNamespace(c) ==
    \E k \in StreamClusters : StreamAsks(c, ClusterReq("createCluster", k, TRUE))
\* An existing namespace is described instead.
AzureDescribeNamespace(c) == /\ req[c].op = "describeCluster" /\ Ends(c, "ok") /\ StreamSame
StreamDeleteCluster(c) == \E k \in StreamClusters, msk \in BOOLEAN :
    StreamAsks(c, TopicReq("deleteCluster", "first", k, {}, msk, FALSE))

CreatesTopics(c, r) ==
    /\ asked < MaxTopicCalls
    /\ Begin(c, r)
    /\ asked' = asked + 1
    /\ UNCHANGED <<clusters, log, committed, produced, written>>
\* MSK and Event Hubs look for the cluster first, Managed Kafka does not.
MskCreateTopic(c) == \E k \in StreamClusters, t \in StreamTopics :
    CreatesTopics(c, TopicReq("createTopic", "describe", k, {t}, TRUE, FALSE))
AzureCreateEventHub(c) == \E k \in StreamClusters, t \in StreamTopics :
    CreatesTopics(c, TopicReq("createTopic", "describe", k, {t}, FALSE, TRUE))
GcpCreateTopicStream(c) == \E k \in StreamClusters, t \in StreamTopics :
    CreatesTopics(c, TopicReq("createTopic", "first", k, {t}, FALSE, FALSE))
StreamDeleteTopic(c) == \E k \in StreamClusters, t \in StreamTopics :
    StreamAsks(c, TopicReq("deleteTopic", "first", k, {t}, FALSE, FALSE))

\* Kafka: sets of topics of the one cluster.
KafkaReq(op, ts) == TopicReq(op, "first", KafkaCluster, ts, FALSE, FALSE)
SomeTopics == (SUBSET StreamTopics) \ {{}}
KafkaCreateTopics(c) == \E ts \in SomeTopics : CreatesTopics(c, KafkaReq("createTopic", ts))
KafkaDeleteTopics(c) == \E ts \in SomeTopics : StreamAsks(c, KafkaReq("deleteTopic", ts))
KafkaProduce(c) ==
    \E ts \in SomeTopics : produced < MaxRecords /\ StreamAsks(c, KafkaReq("produce", ts))
\* The offset a fetch asks for changes nothing: FetchContinues is about all of them.
KafkaFetch(c) == \E ts \in SomeTopics :
    StreamAsks(c, TopicReq("fetch", "bounds", KafkaCluster, ts, FALSE, FALSE))
KafkaOffsetCommit(c) == \E ts \in SomeTopics, o \in 0..MaxRecords : StreamAsks(c,
    [op |-> "commit", at |-> "first", cluster |-> KafkaCluster, left |-> ts, off |-> o])

StreamRequests(c) ==
    /\ req[c] = Idle
    /\ \/ MskCreateCluster(c) \/ AzureCreateNamespace(c) \/ StreamDeleteCluster(c)
       \/ MskCreateTopic(c) \/ AzureCreateEventHub(c) \/ GcpCreateTopicStream(c)
       \/ StreamDeleteTopic(c)
       \/ KafkaCreateTopics(c) \/ KafkaDeleteTopics(c) \/ KafkaProduce(c) \/ KafkaFetch(c)
       \/ KafkaOffsetCommit(c)

\* The call for one topic is over, whatever came of it; on to the next.
NextTopic(c, t, at) ==
    IF req[c].left = {t} THEN Ends(c, "ok")
    ELSE Goes(c, [req[c] EXCEPT !.left = @ \ {t}, !.at = at])
SkipsTopic(c, t, at) == NextTopic(c, t, at) /\ StreamSame

-----------------------------------------------------------------------------
(* Clusters *)

InmemCreateCluster(c) ==
    /\ Is(c, "createCluster", "first", "inmem")
    /\ IF req[c].cluster \notin clusters
       THEN /\ clusters' = clusters \cup {req[c].cluster}
            /\ UNCHANGED <<log, committed, produced, asked, written>>
            /\ Ends(c, "ok")
       ELSE IF req[c].idem THEN Goes(c, [op |-> "describeCluster"]) /\ StreamSame
            ELSE StreamFails(c)
\* inmem: the topics of the cluster and their offsets go with it.
InmemDeleteCluster(c) ==
    /\ Is(c, "deleteCluster", "first", "inmem")
    /\ LET k == req[c].cluster  gone == {k} \X StreamTopics IN
       IF k \notin clusters THEN StreamFails(c)
       ELSE /\ clusters' = clusters \ {k}
            /\ log' = [x \in Keys |-> IF x \in gone THEN None ELSE log[x]]
            /\ committed' = [x \in Keys |-> IF x \in gone THEN None ELSE committed[x]]
            /\ written' = [x \in Keys |-> IF x \in gone THEN <<>> ELSE written[x]]
            /\ UNCHANGED <<produced, asked>>
            /\ Ends(c, "ok")
InmemDescribeCluster(c) ==
    /\ Is(c, "createTopic", "describe", "inmem")
    /\ IF req[c].cluster \in clusters THEN Goes(c, [req[c] EXCEPT !.at = "first"]) /\ StreamSame
       ELSE StreamFails(c)

StrimziCreateCluster(c) ==
    /\ Is(c, "createCluster", "first", "strimzi")
    /\ IF req[c].cluster \notin clusters
       THEN /\ clusters' = clusters \cup {req[c].cluster}
            /\ UNCHANGED <<log, committed, produced, asked, written>>
            /\ Ends(c, "ok")
       ELSE IF req[c].idem THEN Goes(c, [op |-> "describeCluster"]) /\ StreamSame
            ELSE StreamFails(c)
\* strimzi: an ARN resolves to its last segment; the topics stay.
StrimziDeleteCluster(c) ==
    /\ Is(c, "deleteCluster", "first", "strimzi")
    /\ IF req[c].msk \/ req[c].cluster \notin clusters THEN StreamFails(c)
       ELSE /\ clusters' = clusters \ {req[c].cluster}
            /\ UNCHANGED <<log, committed, produced, asked, written>>
            /\ Ends(c, "ok")
StrimziDescribeCluster(c) ==
    /\ Is(c, "createTopic", "describe", "strimzi")
    /\ IF ~req[c].msk /\ req[c].cluster \in clusters
       THEN Goes(c, [req[c] EXCEPT !.at = "first"]) /\ StreamSame ELSE StreamFails(c)

-----------------------------------------------------------------------------
(* Topics *)

TopicStarts(c, k, t) ==
    /\ log' = [log EXCEPT ![k] = EmptyLog]
    /\ written' = [written EXCEPT ![k] = <<>>]
    /\ UNCHANGED <<clusters, committed, produced, asked>>
    /\ NextTopic(c, t, "first")
InmemCreateStreamTopic(c) ==
    /\ Is(c, "createTopic", "first", "inmem")
    /\ \E t \in req[c].left : LET k == <<req[c].cluster, t>> IN
         IF log[k] = None THEN TopicStarts(c, k, t) ELSE SkipsTopic(c, t, "first")
\* strimzi: the name is that of the custom resource, in whichever cluster.
NameTaken(t) == \E k \in StreamClusters : log[<<k, t>>] # None
StrimziCreateStreamTopic(c) ==
    /\ Is(c, "createTopic", "first", "strimzi")
    /\ \E t \in req[c].left :
         IF ~NameTaken(t) THEN TopicStarts(c, <<req[c].cluster, t>>, t)
         ELSE SkipsTopic(c, t, "first")

\* Mutation: the committed offsets of the topic stay.
OffsetsStay(k) == committed
OffsetsDropped(k) == [committed EXCEPT ![k] = None]
InmemDeleteStreamTopic(c) ==
    /\ Is(c, "deleteTopic", "first", "inmem")
    /\ \E t \in req[c].left : LET k == <<req[c].cluster, t>> IN
         IF log[k] = None THEN SkipsTopic(c, t, "first")
         ELSE /\ log' = [log EXCEPT ![k] = None]
              /\ committed' = OffsetsDropped(k)
              /\ written' = [written EXCEPT ![k] = <<>>]
              /\ UNCHANGED <<clusters, produced, asked>>
              /\ NextTopic(c, t, "first")
\* strimzi: whichever cluster it belongs to.
StrimziDeleteStreamTopic(c) ==
    /\ Is(c, "deleteTopic", "first", "strimzi")
    /\ \E t \in req[c].left :
         /\ log' = [x \in Keys |-> IF x[2] = t THEN None ELSE log[x]]
         /\ UNCHANGED <<clusters, committed, produced, asked, written>>
         /\ NextTopic(c, t, "first")

-----------------------------------------------------------------------------
(* Records and offsets *)

\* A produce prunes, then appends; the timestamp may be too old already.
InmemProduce(c) ==
    /\ Is(c, "produce", "first", "inmem")
    /\ \E t \in req[c].left : LET k == <<req[c].cluster, t>>  v == produced + 1 IN
         IF log[k] = None \/ v > MaxRecords THEN SkipsTopic(c, t, "first")
         ELSE /\ \E old \in BOOLEAN : log' = [log EXCEPT ![k] = Appended(Pruned(@), v, old)]
              /\ written' = [written EXCEPT ![k] = Append(@, v)]
              /\ produced' = v
              /\ UNCHANGED <<clusters, committed, asked>>
              /\ NextTopic(c, t, "first")
\* A fetch reads the bounds and then, with another call, the records; both prune.
Prunes(k) ==
    /\ log' = [log EXCEPT ![k] = Pruned(@)]
    /\ UNCHANGED <<clusters, committed, produced, asked, written>>
InmemListOffsets(c) ==
    /\ Is(c, "fetch", "bounds", "inmem")
    /\ \E t \in req[c].left : LET k == <<req[c].cluster, t>> IN
         IF log[k] = None THEN SkipsTopic(c, t, "bounds")
         ELSE Prunes(k) /\ Goes(c, [req[c] EXCEPT !.at = t])
InmemFetch(c) ==
    /\ req[c].op = "fetch" /\ backend = "inmem" /\ req[c].at \in StreamTopics
    /\ LET t == req[c].at  k == <<req[c].cluster, t>> IN
       IF log[k] = None THEN SkipsTopic(c, t, "bounds")
       ELSE Prunes(k) /\ NextTopic(c, t, "bounds")
InmemCommitOffset(c) ==
    /\ Is(c, "commit", "first", "inmem")
    /\ \E t \in req[c].left : LET k == <<req[c].cluster, t>> IN
         IF log[k] = None \/ req[c].off > log[k].next THEN SkipsTopic(c, t, "first")
         ELSE /\ committed' = [committed EXCEPT ![k] = req[c].off]
              /\ UNCHANGED <<clusters, log, produced, asked, written>>
              /\ NextTopic(c, t, "first")
\* strimzi has no data plane.
StrimziDataPlane(c) == /\ req[c].op \in {"produce", "fetch", "commit"} /\ backend = "strimzi"
                       /\ StreamFails(c)

\* Time goes by: a record is too old.
RecordAges ==
    /\ \E k \in Keys : /\ log[k] # None
                       /\ \E i \in 1..Len(log[k].recs) :
                            /\ ~log[k].recs[i].old
                            /\ log' = [log EXCEPT ![k].recs[i].old = TRUE]
    /\ UNCHANGED <<clusters, committed, produced, asked, written, shimVars>>

-----------------------------------------------------------------------------
StreamStep(c) ==
    \/ InmemCreateCluster(c) \/ InmemDeleteCluster(c) \/ InmemDescribeCluster(c)
    \/ AzureDescribeNamespace(c)
    \/ StrimziCreateCluster(c) \/ StrimziDeleteCluster(c) \/ StrimziDescribeCluster(c)
    \/ InmemCreateStreamTopic(c) \/ StrimziCreateStreamTopic(c)
    \/ InmemDeleteStreamTopic(c) \/ StrimziDeleteStreamTopic(c)
    \/ InmemProduce(c) \/ InmemListOffsets(c) \/ InmemFetch(c) \/ InmemCommitOffset(c)
    \/ StrimziDataPlane(c)

StreamNext ==
    /\ service = "eventstream"
    /\ \/ \E c \in Clients : StreamRequests(c) \/ StreamStep(c) \/ (Dies(c) /\ StreamSame)
       \/ RecordAges

StreamSpec == ShimInit /\ StreamInit /\ [][StreamNext]_<<shimVars, streamVars>>

-----------------------------------------------------------------------------
\* Whenever a fetch is made, from whichever offset and of at most however many
\* records, its response decodes to the values that were acknowledged at that
\* offset and after it, without a gap; an empty response means that nothing from
\* that offset on is kept.  Retention, the timestamps of producers, and topics
\* and clusters deleted and made again do not change this.
FetchContinues ==
    \A k \in Keys : log[k] # None /\ backend = "inmem" =>
        \A o \in 0..log[k].next, max \in 0..MaxRecords :
            LET l == Pruned(log[k])  rs == Fetched(l, o, max) IN
            rs # OutOfRange =>
                LET got == Decoded(rs) IN
                /\ \A i \in 1..Len(rs) : got[i] = [off |-> o + i - 1, val |-> written[k][o + i]]
                /\ rs = <<>> => o = l.next \/ EarliestOffset(l) = l.next

\* A committed offset is one of the log it was committed for: it is not
\* beyond the end, and goes with its topic, also when the topic or the
\* cluster is made again.
CommittedWithinLog ==
    \A k \in Keys : committed[k] # None => log[k] # None /\ committed[k] <= log[k].next
=============================================================================
