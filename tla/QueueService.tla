---------------------------- MODULE QueueService ----------------------------
(***************************************************************************)
(* What the domain interface `Queues' promises about messages, without     *)
(* time, attributes or batching: a message sent to a queue is owed to some *)
(* consumer until it is acknowledged or the queue is deleted; while it is  *)
(* leased, only the handle of the current lease acknowledges, extends or   *)
(* releases it; and a handle names at most one delivery, ever.             *)
(***************************************************************************)
CONSTANTS
    Queues,     \* queue names
    Msgs,       \* messages, each sent at most once
    Handles,    \* receipt handles
    NoHandle    \* a message that is not leased

VARIABLES
    live,       \* the queues that exist
    sent,       \* the messages accepted so far
    owed,       \* per queue, the messages sent and not yet acknowledged
    lease,      \* per message, the handle of its current delivery
    spent       \* the handles ever given out

vars == <<live, sent, owed, lease, spent>>

Init ==
    /\ live = {}
    /\ sent = {}
    /\ owed = [q \in Queues |-> {}]
    /\ lease = [m \in Msgs |-> NoHandle]
    /\ spent = {}

CreateQueue(q) ==
    /\ q \notin live
    /\ live' = live \cup {q}
    /\ UNCHANGED <<sent, owed, lease, spent>>

\* A queue takes its messages, and their leases, with it.
DeleteQueue(q) ==
    /\ q \in live
    /\ live' = live \ {q}
    /\ owed' = [owed EXCEPT ![q] = {}]
    /\ lease' = [m \in Msgs |-> IF m \in owed[q] THEN NoHandle ELSE lease[m]]
    /\ UNCHANGED <<sent, spent>>

SendMessage(q, m) ==
    /\ q \in live
    /\ m \notin sent
    /\ sent' = sent \cup {m}
    /\ owed' = [owed EXCEPT ![q] = @ \cup {m}]
    /\ UNCHANGED <<live, lease, spent>>

\* The leases of E end; the messages of S, none of which is leased any
\* longer, are handed out under handles nobody has seen.
Deliver(q, E, S, f) ==
    /\ q \in live
    /\ E \subseteq owed[q]
    /\ S \subseteq {m \in owed[q] : lease[m] = NoHandle \/ m \in E}
    /\ f \in [S -> Handles \ spent]
    /\ \A m, n \in S : f[m] = f[n] => m = n
    /\ lease' = [m \in Msgs |-> IF m \in S THEN f[m]
                                ELSE IF m \in E THEN NoHandle ELSE lease[m]]
    /\ spent' = spent \cup {f[m] : m \in S}
    /\ UNCHANGED <<live, sent, owed>>

\* DeleteMessage: only the current lease of an owed message acknowledges it.
Acknowledge(q, m) ==
    /\ m \in owed[q]
    /\ lease[m] # NoHandle
    /\ owed' = [owed EXCEPT ![q] = @ \ {m}]
    /\ lease' = [lease EXCEPT ![m] = NoHandle]
    /\ UNCHANGED <<live, sent, spent>>

Next ==
    \E q \in Queues :
        \/ CreateQueue(q)
        \/ DeleteQueue(q)
        \/ \E m \in Msgs : SendMessage(q, m) \/ Acknowledge(q, m)
        \/ \E E, S \in SUBSET Msgs : \E f \in [S -> Handles] : Deliver(q, E, S, f)

Spec == Init /\ [][Next]_vars
=============================================================================
