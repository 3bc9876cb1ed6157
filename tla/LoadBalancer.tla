---------------------------- MODULE LoadBalancer ----------------------------
(***************************************************************************)
(* Load balancers, target groups, listeners and routing rules              *)
(* (services/loadbalancer): the backends inmem, k8s and aws, behind the    *)
(* frontends aws_elbv2, gcp_lb and azure_lb.                               *)
(*                                                                         *)
(* A handler is the sequence of backend calls it has still to make (todo). *)
(* A lookup or a create fills in the identifiers the later calls use: that *)
(* of the load balancer, of the listener, and of a target group in the     *)
(* calls that name the group.  A call whose error the handler discards has *)
(* the mode "may"; "assembly", if the rules that follow are then given up. *)
(* A lookup has the mode "put" if what it finds is the answer, "opt" if it *)
(* may find nothing, and "skip" if the next call is then left out.         *)
(*                                                                         *)
(* Health checks, certificates, protocols and tags are left out.  Only     *)
(* inmem keeps blobs: the resources of gcp and azure that the domain does  *)
(* not know.                                                               *)
(***************************************************************************)
EXTENDS Shim
LOCAL INSTANCE SequencesExt

CONSTANTS
    LbNames,    \* names of load balancers (numbers, unlike generated ids)
    PoolNames,  \* names of target groups
    LbPorts, LbTargets, Paths, Priorities,
    MaxLbIds    \* bound: identifiers of a kind that inmem and aws generate

ASSUME LbNamesAreNotGenerated == (LbNames \cup PoolNames) \cap 0..MaxLbIds = {}
\* None stands for the empty string, which is never generated.
ASSUME NoneIsNoNumber == None \notin Nat

VARIABLES
    lbs,        \* records of id, name and whether of type application
    pools,      \* target groups: records of id, name and targets
    listeners,  \* records of id, lb (and its type), port, pool and (gcp) proxy
    routes,     \* rules: records of id, listener, priority and pool
    blobs,      \* records of kind, name and body
    lbSeq,      \* identifiers generated so far
    assured     \* history: targets, listeners and rules that were added and not removed

lbVars == <<lbs, pools, listeners, routes, blobs, lbSeq, assured>>

BalancerInit ==
    /\ lbs = {}
    /\ pools = {}
    /\ listeners = {}
    /\ routes = {}
    /\ blobs = {}
    /\ lbSeq = [lb |-> 0, pool |-> 0, listener |-> 0, route |-> 0]
    /\ assured = {}

LbById(id) == {l \in lbs : l.id = id}
PoolById(id) == {p \in pools : p.id = id}
ListenerById(id) == {l \in listeners : l.id = id}
RouteById(id) == {r \in routes : r.id = id}
Blobs(kind, n) == {b \in blobs : b.kind = kind /\ b.name = n}
TargetsOf(id, T) == {<<"target", id, t>> : t \in T}

-----------------------------------------------------------------------------
(* Requests *)

AnyPool == 0
LbCall(do, mode) ==
    [do |-> do, mode |-> mode, lb |-> None, lsn |-> None, pool |-> None, group |-> None,
     name |-> None, port |-> 0, arg |-> None]
CreateLb(n, app) == [LbCall("CreateLb", "must") EXCEPT !.name = n, !.arg = app]
FindLb(n, mode) == [LbCall("FindLb", mode) EXCEPT !.name = n]
CreatePool(n, mode) == [LbCall("CreatePool", mode) EXCEPT !.name = n, !.group = n]
FindPool(n, mode) == [LbCall("FindPool", mode) EXCEPT !.name = n]
DeletePool(n, mode) == [LbCall("DeletePool", mode) EXCEPT !.group = n]
\* A listener that forwards to a group and has a tag (gcp).
Listen(p, g, tag) ==
    [LbCall("CreateListener", "assembly") EXCEPT !.port = p, !.group = g, !.name = tag, !.arg = {}]
\* The i-th rule of a list: the path and the group.
Route(r, i) ==
    [LbCall("CreateRule", "may") EXCEPT !.group = r[2], !.name = r[1], !.port = i]
PutBlob(kind, n, body, mode) ==
    [LbCall("PutBlob", mode) EXCEPT !.group = kind, !.name = n, !.arg = body]
GetBlob(do, kind, n, mode) == [LbCall(do, mode) EXCEPT !.group = kind, !.name = n]
DeleteBlob(kind, n, mode) == [LbCall("DeleteBlob", mode) EXCEPT !.group = kind, !.name = n]

SendsFor(c, says, calls) ==
    /\ Begin(c, [op |-> "balancing", todo |-> calls, says |-> says])
    /\ UNCHANGED lbVars
Sends(c, calls) == SendsFor(c, None, calls)
RouteLists == {SetToSeq(R) : R \in SUBSET (Paths \X PoolNames)}
LbIdsOf(things) == {x.id : x \in things}

\* aws_elbv2: one call each, by identifier.
CreateLoadBalancer(c) ==
    \E n \in LbNames, app \in BOOLEAN : Sends(c, <<CreateLb(n, app)>>)
DeleteLoadBalancer(c) ==
    \E i \in LbIdsOf(lbs) : Sends(c, <<[LbCall("DeleteLb", "must") EXCEPT !.lb = i]>>)
CreateTargetGroup(c) == \E n \in PoolNames : Sends(c, <<CreatePool(n, "must")>>)
DeleteTargetGroup(c) ==
    \E i \in LbIdsOf(pools) : Sends(c, <<[LbCall("DeletePool", "must") EXCEPT !.pool = i]>>)
RegisterTargets(c) ==
    \E i \in LbIdsOf(pools), T \in SUBSET LbTargets :
        Sends(c, <<[LbCall("Register", "must") EXCEPT !.pool = i, !.arg = T]>>)
DeregisterTargets(c) ==
    \E i \in LbIdsOf(pools), T \in SUBSET LbTargets :
        Sends(c, <<[LbCall("Deregister", "must") EXCEPT !.pool = i, !.arg = T]>>)
CreateListener(c) ==
    \E i \in LbIdsOf(lbs), p \in LbPorts, g \in LbIdsOf(pools) \cup {None} :
        Sends(c, <<[Listen(p, None, None) EXCEPT !.mode = "must", !.lb = i, !.pool = g]>>)
DeleteListener(c) ==
    \E i \in LbIdsOf(listeners) : Sends(c, <<[LbCall("DeleteListener", "must") EXCEPT !.lsn = i]>>)
ModifyListener(c) ==
    \E i \in LbIdsOf(listeners), p \in LbPorts \cup {0}, g \in LbIdsOf(pools) \cup {None} :
        Sends(c, <<[LbCall("UpdateListener", "must") EXCEPT !.lsn = i, !.port = p, !.pool = g]>>)
CreateRule(c) ==
    \E i \in LbIdsOf(listeners), path \in Paths, k \in Priorities, g \in LbIdsOf(pools) :
        Sends(c, <<[LbCall("CreateRule", "must") EXCEPT !.lsn = i, !.name = path, !.port = k, !.pool = g]>>)
DeleteRule(c) ==
    \E i \in LbIdsOf(routes) : Sends(c, <<[LbCall("DeleteRule", "must") EXCEPT !.lsn = i]>>)
ModifyRule(c) ==
    \E i \in LbIdsOf(routes), g \in LbIdsOf(pools) :
        Sends(c, <<[LbCall("UpdateRule", "must") EXCEPT !.lsn = i, !.pool = g]>>)
SetRulePriorities(c) ==
    \E R \in (SUBSET LbIdsOf(routes)) \ {{}}, k \in Priorities :
        Sends(c, <<[LbCall("SetPriorities", "must") EXCEPT !.arg = [i \in R |-> k]]>>)

\* gcp_lb, regional: a forwarding rule is a load balancer with a listener.
insertForwardingRule(c) ==
    \E n \in LbNames, p \in LbPorts, g \in PoolNames \cup {None} :
        Sends(c, <<CreateLb(n, FALSE)>>
                 \o IF g = None THEN <<>> ELSE <<FindPool(g, "skip"), Listen(p, g, None)>>)
deleteForwardingRule(c) ==
    \E n \in LbNames : Sends(c, <<FindLb(n, "must"), LbCall("DeleteLb", "must")>>)
insertBackendService(c) == \E n \in PoolNames : Sends(c, <<CreatePool(n, "must")>>)
deleteBackendService(c) ==
    \E n \in PoolNames : Sends(c, <<FindPool(n, "must"), DeletePool(n, "must")>>)
\* Looked up, and answered as done.
addBackend(c) == \E n \in PoolNames : Sends(c, <<FindPool(n, "must")>>)
removeBackend(c) == \E n \in PoolNames : Sends(c, <<FindPool(n, "must")>>)
\* gcp_lb, global: proxies, URL maps and certificates are blobs.
insertGlobalBackendService(c) ==
    \E n \in PoolNames : Sends(c, <<CreatePool(n, "must"), PutBlob("service", n, None, "may")>>)
deleteGlobalBackendService(c) ==
    \E n \in PoolNames :
        Sends(c, <<FindPool(n, "must"), DeletePool(n, "must"), DeleteBlob("service", n, "may")>>)
insertGlobalSslCertificate(c) ==
    \E n \in LbNames : Sends(c, <<PutBlob("certificate", n, None, "must")>>)
deleteGlobalSslCertificate(c) ==
    \E n \in LbNames : Sends(c, <<DeleteBlob("certificate", n, "must")>>)
insertGlobalUrlMap(c) ==
    \E n \in LbNames, g \in PoolNames \cup {None}, list \in RouteLists :
        Sends(c, <<PutBlob("map", n, [group |-> g, list |-> list], "must")>>)
patchGlobalUrlMap(c) ==
    \E n \in LbNames, g \in PoolNames \cup {None}, list \in RouteLists :
        Sends(c, <<[GetBlob("ReadPatched", "map", n, "must") EXCEPT !.arg = [group |-> g, list |-> list]]>>)
deleteGlobalUrlMap(c) == \E n \in LbNames : Sends(c, <<DeleteBlob("map", n, "must")>>)
insertGlobalTargetHttpsProxy(c) ==
    \E n \in LbNames, map \in LbNames : Sends(c, <<PutBlob("proxy", n, map, "must")>>)
deleteGlobalTargetHttpsProxy(c) ==
    \E n \in LbNames :
        Sends(c, <<[LbCall("ListTagged", "may") EXCEPT !.name = n], DeleteBlob("proxy", n, "must")>>)
insertGlobalForwardingRule(c) ==
    \E n \in LbNames, p \in LbPorts, proxy \in LbNames \cup {None} :
        Sends(c, <<CreateLb(n, TRUE)>>
                 \o (IF proxy = None THEN <<>>
                     ELSE <<[GetBlob("ReadProxy", "proxy", proxy, "may") EXCEPT !.port = p]>>)
                 \o <<PutBlob("rule", n, None, "may")>>)
\* The listeners of the load balancer with their rules, then itself.
deleteGlobalForwardingRule(c) ==
    \E n \in LbNames :
        SendsFor(c, [lb |-> None, lsns |-> {}],
            <<FindLb(n, "opt"), LbCall("ListListeners", "may"), LbCall("DeleteLb", "may"),
              DeleteBlob("rule", n, "must")>>)

\* azure_lb
createOrUpdateLB(c) ==
    \E n \in LbNames, p \in LbPorts, g \in PoolNames \cup {None}, rule \in BOOLEAN :
        Sends(c, <<FindLb(n, "put"), CreateLb(n, FALSE)>>
                 \o (IF rule /\ g # None THEN <<FindPool(g, "opt")>> ELSE <<>>)
                 \o (IF rule THEN <<Listen(p, g, None)>> ELSE <<>>))
deleteLB(c) == \E n \in LbNames : Sends(c, <<FindLb(n, "must"), LbCall("DeleteLb", "must")>>)
createOrUpdatePool(c) ==
    \E n \in PoolNames : Sends(c, <<FindPool(n, "put"), CreatePool(n, "must")>>)
deletePool(c) == \E n \in PoolNames : Sends(c, <<FindPool(n, "must"), DeletePool(n, "must")>>)
\* What an application gateway's body asks for: pools, one listener or none, rules.
assembleAppGWEntities(groups, listens, p, list) ==
    [i \in DOMAIN groups |-> CreatePool(groups[i], "may")]
    \o (IF listens THEN <<Listen(p, AnyPool, None)>> \o [i \in DOMAIN list |-> Route(list[i], 10 * i)]
        ELSE <<>>)
createOrUpdateAppGateway(c) ==
    \E n \in LbNames, G \in SUBSET PoolNames, p \in LbPorts, listens \in BOOLEAN, list \in RouteLists :
        Sends(c, <<GetBlob("ReadExisting", "gateway", n, "put"),
                   PutBlob("gateway", n, SetToSeq(G), "must"),
                   [CreateLb(n, TRUE) EXCEPT !.mode = "undo"]>>
                 \o assembleAppGWEntities(SetToSeq(G), listens, p, list))
deleteAppGateway(c) ==
    \E n \in LbNames : Sends(c, <<GetBlob("ReadGateway", "gateway", n, "must")>>)

\* A shim serves all of them; the requests explored together are those that
\* meet in the same resources.  Nothing can be assembled from blobs, which k8s
\* and aws do not keep: there, rules are for listeners made one by one.
BalancerRequests(c) ==
    /\ service = "balancer"
    /\ req[c] = Idle
    /\ \/ CreateLoadBalancer(c) \/ DeleteLoadBalancer(c) \/ CreateTargetGroup(c) \/ DeleteTargetGroup(c)
       \/ RegisterTargets(c) \/ DeregisterTargets(c) \/ CreateListener(c) \/ DeleteListener(c)
       \/ insertForwardingRule(c) \/ deleteForwardingRule(c)
       \/ insertBackendService(c) \/ deleteBackendService(c) \/ addBackend(c) \/ removeBackend(c)
       \/ createOrUpdateLB(c) \/ deleteLB(c) \/ createOrUpdatePool(c) \/ deletePool(c)
RoutingRequests(c) ==
    /\ service = "routing"
    /\ req[c] = Idle
    /\ \/ CreateRule(c) \/ DeleteRule(c) \/ ModifyRule(c) \/ SetRulePriorities(c) \/ ModifyListener(c)
       \/ insertGlobalBackendService(c) \/ deleteGlobalBackendService(c)
       \/ insertGlobalUrlMap(c) \/ patchGlobalUrlMap(c) \/ deleteGlobalUrlMap(c)
       \/ insertGlobalTargetHttpsProxy(c) \/ deleteGlobalTargetHttpsProxy(c)
       \/ insertGlobalForwardingRule(c) \/ deleteGlobalForwardingRule(c)
       \/ backend # "inmem" /\ (CreateLoadBalancer(c) \/ CreateTargetGroup(c) \/ CreateListener(c))
GatewayRequests(c) ==
    /\ service = "appgateway"
    /\ req[c] = Idle
    /\ \/ createOrUpdateAppGateway(c) \/ deleteAppGateway(c)
       \/ insertGlobalSslCertificate(c) \/ deleteGlobalSslCertificate(c)

-----------------------------------------------------------------------------
(* How a handler goes on after a call *)

Later(c) == Tail(req[c].todo)
LbGoesOn(c, calls) ==
    IF calls = <<>> THEN Ends(c, req[c].says) ELSE Goes(c, [req[c] EXCEPT !.todo = calls])
LbDone(c) == LbGoesOn(c, Later(c))
\* The rules of an assembly whose listener was not made are not tried.
LbRefused(c) ==
    /\ UNCHANGED lbVars
    /\ CASE Now(c).mode = "may" -> LbDone(c)
         [] Now(c).mode = "assembly" ->
                LbGoesOn(c, SelectSeq(Later(c), LAMBDA k : k.do \notin {"CreateRule", "FindPool"}))
         [] Now(c).mode = "undo" ->
                Goes(c, [req[c] EXCEPT !.todo = <<DeleteBlob("gateway", Now(c).name, "may")>>])
         [] OTHER -> Fails(c)
LbCallIgnored(c) ==
    /\ backend # "inmem"
    /\ req[c] # Idle
    /\ Now(c).mode \in {"may", "assembly"}
    /\ LbRefused(c)
Each(calls, with(_)) == [i \in DOMAIN calls |-> with(calls[i])]
LbMade(c, id) == LbGoesOn(c, Each(Later(c), LAMBDA k : [k EXCEPT !.lb = id]))
ListenerMade(c, id) ==
    LbGoesOn(c, Each(Later(c), LAMBDA k : IF k.do = "CreateRule" THEN [k EXCEPT !.lsn = id] ELSE k))
InPool(k, n, id) ==
    CASE k.group = n -> [k EXCEPT !.pool = id]
      [] k.group = AnyPool -> [k EXCEPT !.arg = @ \cup {id}]
      [] OTHER -> k
NamesPool(k) == k.do \in {"CreateListener", "CreateRule", "DeletePool"}
PoolKnown(c, n, id) ==
    LbGoesOn(c, Each(Later(c), LAMBDA k : IF NamesPool(k) THEN InPool(k, n, id) ELSE k))

\* A lookup by name.  Where its error is not told, an error is taken for
\* absence; DescribeLoadBalancers of aws has absence for an error.  A deletion
\* of a load balancer that is not found goes on with its last call, the blob's.
FindsNothing(c) ==
    CASE Now(c).mode = "put" -> LbDone(c)
      [] Now(c).do = "FindLb" /\ Now(c).mode = "opt" /\ backend # "aws" ->
            LbGoesOn(c, <<Later(c)[Len(Later(c))]>>)
      [] Now(c).do = "FindPool" /\ Now(c).mode = "opt" -> LbDone(c)
      [] Now(c).mode = "skip" -> LbGoesOn(c, Tail(Later(c)))
      [] OTHER -> Fails(c)
\* Services come before ingresses.
FirstLb(n) ==
    LET found == {l \in lbs : l.name = n} IN
    IF \E l \in found : ~l.app THEN {l \in found : ~l.app} ELSE found
FindsLb(c) ==
    /\ Doing(c, "FindLb", backend)
    /\ UNCHANGED lbVars
    /\ \/ \E l \in FirstLb(Now(c).name) :
            IF Now(c).mode = "put" THEN Ends(c, None)
            ELSE Goes(c, [req[c] EXCEPT
                    !.todo = Each(Later(c), LAMBDA k : [k EXCEPT !.lb = l.id]),
                    !.says = IF @ = None THEN @
                             ELSE [@ EXCEPT !.lb = l.id, !.lsns = {x.id : x \in {y \in listeners : y.lb = l.id}}]])
       \/ FirstLb(Now(c).name) = {} /\ FindsNothing(c)
       \/ FirstLb(Now(c).name) # {} /\ backend # "inmem" /\ Now(c).mode = "put" /\ FindsNothing(c)
FindsPool(c) ==
    LET found == {p \in pools : p.name = Now(c).name} IN
    /\ Doing(c, "FindPool", backend)
    /\ UNCHANGED lbVars
    /\ \/ \E p \in found :
            IF Now(c).mode = "put" THEN Ends(c, None) ELSE PoolKnown(c, Now(c).name, p.id)
       \/ found = {} /\ FindsNothing(c)
       \/ found # {} /\ backend # "inmem" /\ Now(c).mode \in {"put", "opt", "skip"} /\ FindsNothing(c)

-----------------------------------------------------------------------------
(* Blobs, and the assembly of a load balancer from them *)

HasBlobs == backend = "inmem"
PutsBlob(c) ==
    /\ Doing(c, "PutBlob", backend)
    /\ IF ~HasBlobs THEN LbRefused(c)
       ELSE /\ blobs' = (blobs \ Blobs(Now(c).group, Now(c).name))
                        \cup {[kind |-> Now(c).group, name |-> Now(c).name, body |-> Now(c).arg]}
            /\ UNCHANGED <<lbs, pools, listeners, routes, lbSeq, assured>>
            /\ LbDone(c)
DeletesBlob(c) ==
    /\ Doing(c, "DeleteBlob", backend)
    /\ IF ~HasBlobs \/ Blobs(Now(c).group, Now(c).name) = {} THEN LbRefused(c)
       ELSE /\ blobs' = blobs \ Blobs(Now(c).group, Now(c).name)
            /\ UNCHANGED <<lbs, pools, listeners, routes, lbSeq, assured>>
            /\ LbDone(c)
\* A blob is read: what the handler does next depends on its body.
Reads(c, do, next(_)) ==
    /\ Doing(c, do, backend)
    /\ UNCHANGED lbVars
    /\ \/ \E b \in Blobs(Now(c).group, Now(c).name) : LbGoesOn(c, next(b.body))
       \/ /\ Blobs(Now(c).group, Now(c).name) = {}
          /\ IF Now(c).mode = "put" THEN LbDone(c) ELSE LbRefused(c)
ReadsExisting(c) ==
    Reads(c, "ReadExisting", LAMBDA body : <<>>)
\* The patch is put over what was read.
ReadsPatched(c) ==
    Reads(c, "ReadPatched", LAMBDA body :
        <<PutBlob("map", Now(c).name,
                  [group |-> IF Now(c).arg.group = None THEN body.group ELSE Now(c).arg.group,
                   list |-> IF Now(c).arg.list = <<>> THEN body.list
                            ELSE Now(c).arg.list], "may")>>)
ReadsProxy(c) ==
    Reads(c, "ReadProxy", LAMBDA map :
        <<[GetBlob("ReadMap", "map", map, "opt") EXCEPT !.lb = Now(c).lb, !.port = Now(c).port, !.arg = Now(c).name]>>
        \o Later(c))
\* The default group, the listener, and each rule whose group is found.
assembleListenerAndRules(k, group, list) ==
    (IF group = None THEN <<>> ELSE <<FindPool(group, "opt")>>)
    \o <<[Listen(k.port, group, k.arg) EXCEPT !.lb = k.lb]>>
    \o FlattenSeq([i \in DOMAIN list |-> <<FindPool(list[i][2], "skip"), Route(list[i], i)>>])
ReadsMap(c) ==
    /\ Doing(c, "ReadMap", backend)
    /\ UNCHANGED lbVars
    /\ \/ \E b \in Blobs("map", Now(c).name) :
            LbGoesOn(c, assembleListenerAndRules(Now(c), b.body.group, b.body.list) \o Later(c))
       \/ /\ Blobs("map", Now(c).name) = {}
          /\ LbGoesOn(c, assembleListenerAndRules(Now(c), None, <<>>) \o Later(c))
\* The listeners are looked up by the name of the gateway.
ReadsGateway(c) ==
    Reads(c, "ReadGateway", LAMBDA groups :
        <<[LbCall("ListListeners", "may") EXCEPT !.lb = Now(c).name]>>
        \o FlattenSeq([i \in DOMAIN groups |-> <<FindPool(groups[i], "skip"), DeletePool(groups[i], "may")>>])
        \o <<FindLb(Now(c).name, "opt"), LbCall("DeleteLb", "may"), DeleteBlob("gateway", Now(c).name, "may")>>)

-----------------------------------------------------------------------------
(* The parts of a load balancer, one after the other *)

\* The lists that hold every member of S once.
ListsOf(S) == {s \in UNION {[1..n -> S] : n \in 0..Cardinality(S)} : S = {s[i] : i \in DOMAIN s}}
\* Mutant: the rules of a listener are left.
ListenerOnly(id) == [LbCall("DeleteListener", "may") EXCEPT !.lsn = id]
RulesThenListener(id) == [LbCall("ListRules", "opt") EXCEPT !.lsn = id]
\* k8s: those of the ingress, if there is one.
ListenersOf(id) ==
    LET of == {l \in listeners : l.lb = id} IN
    IF backend = "k8s" THEN {l \in of : l.app = (\E x \in LbById(id) : x.app)} ELSE of
ListsListeners(c) ==
    /\ Doing(c, "ListListeners", backend)
    /\ UNCHANGED lbVars
    /\ \E ids \in ListsOf({l.id : l \in ListenersOf(Now(c).lb)}) :
         LbGoesOn(c, [i \in DOMAIN ids |-> RulesThenListener(ids[i])] \o Later(c))
\* An error is taken for no rules; they are not supported on aws.
ListsRules(c) ==
    LET its == {r.id : r \in {x \in routes : x.lsn = Now(c).lsn}} IN
    /\ Doing(c, "ListRules", backend)
    /\ UNCHANGED lbVars
    /\ \E found \in {its} \cup (IF backend = "inmem" THEN {} ELSE {{}}) :
       \E ids \in ListsOf(found) :
         LbGoesOn(c, [i \in DOMAIN ids |-> [LbCall("DeleteRule", "may") EXCEPT !.lsn = ids[i]]]
                     \o <<[LbCall("DeleteListener", "may") EXCEPT !.lsn = Now(c).lsn]>> \o Later(c))
\* One listener the proxy was assembled into; k8s and aws list none without a load balancer.
ListsTagged(c) ==
    LET found == {l \in listeners : l.proxy = Now(c).name} IN
    /\ Doing(c, "ListTagged", backend)
    /\ UNCHANGED lbVars
    /\ \/ \E l \in found :
            /\ HasBlobs
            /\ LbGoesOn(c, <<[LbCall("DeleteListener", "may") EXCEPT !.lsn = l.id]>> \o Later(c))
       \/ (found = {} \/ ~HasBlobs) /\ LbDone(c)

-----------------------------------------------------------------------------
(* What a call leaves *)

Fresh(kind) == lbSeq[kind] + 1
Counts(kind) == lbSeq[kind] < MaxLbIds /\ lbSeq' = [lbSeq EXCEPT ![kind] = @ + 1]
AddsLb(c, id) ==
    /\ lbs' = lbs \cup {[id |-> id, name |-> Now(c).name, app |-> Now(c).arg]}
    /\ UNCHANGED <<pools, listeners, routes, blobs, assured>>
    /\ LbMade(c, id)
AddsPool(c, id) ==
    /\ pools' = pools \cup {[id |-> id, name |-> Now(c).name, targets |-> {}]}
    /\ UNCHANGED <<lbs, listeners, routes, blobs, assured>>
    /\ PoolKnown(c, Now(c).name, id)
DropsPool(c) ==
    /\ pools' = pools \ PoolById(Now(c).pool)
    /\ assured' = {a \in assured : ~(a[1] = "target" /\ a[2] = Now(c).pool)}
    /\ UNCHANGED <<lbs, listeners, routes, blobs, lbSeq>>
    /\ LbDone(c)
SetsTargets(c, p, T, history) ==
    /\ pools' = (pools \ PoolById(p.id)) \cup {[p EXCEPT !.targets = T]}
    /\ assured' = history
    /\ UNCHANGED <<lbs, listeners, routes, blobs, lbSeq>>
    /\ LbDone(c)
Registers(c, p) ==
    SetsTargets(c, p, p.targets \cup Now(c).arg, assured \cup TargetsOf(p.id, Now(c).arg))
Deregisters(c, p) ==
    SetsTargets(c, p, p.targets \ Now(c).arg, assured \ TargetsOf(p.id, Now(c).arg))
NewListener(c, id, app, pool) ==
    [id |-> id, lb |-> Now(c).lb, app |-> app, port |-> Now(c).port, pool |-> pool, proxy |-> Now(c).name]
NewRoute(c, id) == [id |-> id, lsn |-> Now(c).lsn, priority |-> Now(c).port, pool |-> Now(c).pool]
\* Any of the pools that were made is an application gateway's default.
DefaultPools(c) == IF Now(c).group = AnyPool /\ Now(c).arg # {} THEN Now(c).arg ELSE {Now(c).pool}

-----------------------------------------------------------------------------
(* inmem: nothing that is deleted takes along what refers to it *)

InmemCreateLoadBalancer(c) ==
    /\ Doing(c, "CreateLb", "inmem")
    /\ IF \E l \in lbs : l.name = Now(c).name THEN LbRefused(c)
       ELSE Counts("lb") /\ AddsLb(c, Fresh("lb"))
InmemDeleteLoadBalancer(c) ==
    /\ Doing(c, "DeleteLb", "inmem")
    /\ IF LbById(Now(c).lb) = {} THEN LbRefused(c)
       ELSE /\ lbs' = lbs \ LbById(Now(c).lb)
            /\ UNCHANGED <<pools, listeners, routes, blobs, lbSeq, assured>>
            /\ LbDone(c)
InmemCreateTargetGroup(c) ==
    /\ Doing(c, "CreatePool", "inmem")
    /\ IF \E p \in pools : p.name = Now(c).name THEN LbRefused(c)
       ELSE Counts("pool") /\ AddsPool(c, Fresh("pool"))
InmemDeleteTargetGroup(c) ==
    /\ Doing(c, "DeletePool", "inmem")
    /\ IF PoolById(Now(c).pool) = {} THEN LbRefused(c) ELSE DropsPool(c)
InmemRegisterTargets(c) ==
    /\ Doing(c, "Register", "inmem")
    /\ \/ PoolById(Now(c).pool) = {} /\ LbRefused(c)
       \/ \E p \in PoolById(Now(c).pool) : Registers(c, p)
InmemDeregisterTargets(c) ==
    /\ Doing(c, "Deregister", "inmem")
    /\ \/ PoolById(Now(c).pool) = {} /\ LbRefused(c)
       \/ \E p \in PoolById(Now(c).pool) : Deregisters(c, p)
InmemCreateListener(c) ==
    /\ Doing(c, "CreateListener", "inmem")
    /\ IF LbById(Now(c).lb) = {} THEN LbRefused(c)
       ELSE /\ Counts("listener")
            /\ \E p \in DefaultPools(c) :
                 listeners' = listeners \cup {NewListener(c, Fresh("listener"), FALSE, p)}
            /\ assured' = assured \cup {<<"listener", Fresh("listener")>>}
            /\ UNCHANGED <<lbs, pools, routes, blobs>>
            /\ ListenerMade(c, Fresh("listener"))
InmemDeleteListener(c) ==
    /\ Doing(c, "DeleteListener", "inmem")
    /\ IF ListenerById(Now(c).lsn) = {} THEN LbRefused(c)
       ELSE /\ listeners' = listeners \ ListenerById(Now(c).lsn)
            /\ assured' = assured \ {<<"listener", Now(c).lsn>>}
            /\ UNCHANGED <<lbs, pools, routes, blobs, lbSeq>>
            /\ LbDone(c)
InmemUpdateListener(c) ==
    /\ Doing(c, "UpdateListener", "inmem")
    /\ \/ ListenerById(Now(c).lsn) = {} /\ LbRefused(c)
       \/ \E l \in ListenerById(Now(c).lsn) :
            /\ listeners' = (listeners \ {l}) \cup {[l EXCEPT !.port = IF Now(c).port = 0 THEN @ ELSE Now(c).port,
                                                              !.pool = IF Now(c).pool = None THEN @
                                                                       ELSE Now(c).pool]}
            /\ UNCHANGED <<lbs, pools, routes, blobs, lbSeq, assured>>
            /\ LbDone(c)
\* A priority is taken once per listener.
InmemCreateRule(c) ==
    /\ Doing(c, "CreateRule", "inmem")
    /\ IF \/ ListenerById(Now(c).lsn) = {}
          \/ \E r \in routes : r.lsn = Now(c).lsn /\ r.priority = Now(c).port
       THEN LbRefused(c)
       ELSE /\ Counts("route")
            /\ routes' = routes \cup {NewRoute(c, Fresh("route"))}
            /\ assured' = assured \cup {<<"route", Fresh("route")>>}
            /\ UNCHANGED <<lbs, pools, listeners, blobs>>
            /\ LbDone(c)
InmemDeleteRule(c) ==
    /\ Doing(c, "DeleteRule", "inmem")
    /\ IF RouteById(Now(c).lsn) = {} THEN LbRefused(c)
       ELSE /\ routes' = routes \ RouteById(Now(c).lsn)
            /\ assured' = assured \ {<<"route", Now(c).lsn>>}
            /\ UNCHANGED <<lbs, pools, listeners, blobs, lbSeq>>
            /\ LbDone(c)
InmemUpdateRule(c) ==
    /\ Doing(c, "UpdateRule", "inmem")
    /\ \/ RouteById(Now(c).lsn) = {} /\ LbRefused(c)
       \/ \E r \in RouteById(Now(c).lsn) :
            /\ routes' = (routes \ {r}) \cup {[r EXCEPT !.pool = Now(c).pool]}
            /\ UNCHANGED <<lbs, pools, listeners, blobs, lbSeq, assured>>
            /\ LbDone(c)
\* One after the other up to the first that is missing; priorities may coincide.
InmemSetRulePriorities(c) ==
    LET asked == DOMAIN Now(c).arg
        there == asked \cap LbIdsOf(routes) IN
    /\ Doing(c, "SetPriorities", "inmem")
    /\ \E done \in (IF there = asked THEN {asked} ELSE SUBSET there) :
         routes' = {IF r.id \in done THEN [r EXCEPT !.priority = Now(c).arg[r.id]] ELSE r : r \in routes}
    /\ UNCHANGED <<lbs, pools, listeners, blobs, lbSeq, assured>>
    /\ IF there = asked THEN LbDone(c) ELSE Fails(c)

-----------------------------------------------------------------------------
(* k8s: a network load balancer is a service, one for applications an        *)
(* ingress, which also keeps its listeners and rules; a group is an          *)
(* endpoints object.  Changes are written back to what was read; Kubernetes  *)
(* refuses them if the object has changed since.                             *)

Object(n, app) ==
    [lsns |-> {l \in listeners : l.lb = n /\ l.app = app},
     rules |-> IF app THEN {r \in routes : r.id[1] = n} ELSE {}]
Exists(n, app) == \E l \in lbs : l.id = n /\ l.app = app
\* Mutant: the version is not compared.
AnyObject(n, app, read) == Exists(n, app)
\* Contents stand for the version.
SameObject(n, app, read) == Exists(n, app) /\ Object(n, app) = read
WritesObject(n, app, lsns, rules, history) ==
    /\ listeners' = (listeners \ Object(n, app).lsns) \cup lsns
    /\ routes' = (routes \ Object(n, app).rules) \cup rules
    /\ assured' = history
    /\ UNCHANGED <<lbs, pools, blobs, lbSeq>>
Turns(c, do, read) == Goes(c, [req[c] EXCEPT !.todo[1] = [@ EXCEPT !.do = do, !.arg = read]])

K8sCreateLoadBalancer(c) ==
    /\ Doing(c, "CreateLb", "k8s")
    /\ IF Exists(Now(c).name, Now(c).arg) THEN LbRefused(c)
       ELSE UNCHANGED lbSeq /\ AddsLb(c, Now(c).name)
DropsObject(c, app) ==
    /\ lbs' = {l \in lbs : ~(l.id = Now(c).lb /\ l.app = app)}
    /\ listeners' = listeners \ Object(Now(c).lb, app).lsns
    /\ routes' = routes \ Object(Now(c).lb, app).rules
    /\ assured' = assured \ ({<<"listener", l.id>> : l \in Object(Now(c).lb, app).lsns}
                             \cup {<<"route", r.id>> : r \in Object(Now(c).lb, app).rules})
    /\ UNCHANGED <<pools, blobs, lbSeq>>
    /\ LbDone(c)
\* The service of that name, or else the ingress.
K8sDeleteLoadBalancer(c) ==
    /\ Doing(c, "DeleteLb", "k8s")
    /\ IF Exists(Now(c).lb, FALSE) THEN DropsObject(c, FALSE)
       ELSE Turns(c, "DeleteIngress", None) /\ UNCHANGED lbVars
K8sDeleteIngress(c) ==
    /\ Doing(c, "DeleteIngress", "k8s")
    /\ IF Exists(Now(c).lb, TRUE) THEN DropsObject(c, TRUE) ELSE LbRefused(c)
K8sCreateTargetGroup(c) ==
    /\ Doing(c, "CreatePool", "k8s")
    /\ IF PoolById(Now(c).name) # {} THEN LbRefused(c)
       ELSE UNCHANGED lbSeq /\ AddsPool(c, Now(c).name)
K8sDeleteTargetGroup(c) ==
    /\ Doing(c, "DeletePool", "k8s")
    /\ IF PoolById(Now(c).pool) = {} THEN LbRefused(c) ELSE DropsPool(c)
\* The endpoints are read; if there is nothing to add, that is all.
TurnsPool(c, p, do) ==
    Goes(c, [req[c] EXCEPT !.todo[1] = [do |-> do, mode |-> Now(c).mode, pool |-> p.id, arg |-> Now(c).arg, read |-> p]])
K8sRegisterTargets(c) ==
    /\ Doing(c, "Register", "k8s")
    /\ UNCHANGED lbVars
    /\ \/ PoolById(Now(c).pool) = {} /\ LbRefused(c)
       \/ \E p \in PoolById(Now(c).pool) :
            IF Now(c).arg \subseteq p.targets THEN LbDone(c) ELSE TurnsPool(c, p, "UpdateAdding")
K8sDeregisterTargets(c) ==
    /\ Doing(c, "Deregister", "k8s")
    /\ UNCHANGED lbVars
    /\ \/ PoolById(Now(c).pool) = {} /\ LbRefused(c)
       \/ \E p \in PoolById(Now(c).pool) : TurnsPool(c, p, "UpdateRemoving")
SamePool(c) == PoolById(Now(c).pool) = {Now(c).read}
K8sUpdateAdding(c) ==
    /\ Doing(c, "UpdateAdding", "k8s")
    /\ IF SamePool(c) THEN Registers(c, Now(c).read) ELSE LbRefused(c)
K8sUpdateRemoving(c) ==
    /\ Doing(c, "UpdateRemoving", "k8s")
    /\ IF SamePool(c) THEN Deregisters(c, Now(c).read) ELSE LbRefused(c)
\* The ingress of that name, or else the service.
K8sCreateListener(c) ==
    LET id == <<Now(c).lb, Now(c).port>> IN
    /\ Doing(c, "CreateListener", "k8s")
    /\ UNCHANGED lbVars
    /\ CASE ~Exists(Now(c).lb, TRUE) -> Turns(c, "GetService", None)
         [] \E l \in Object(Now(c).lb, TRUE).lsns : l.id = id -> ListenerMade(c, id)
         [] OTHER -> Turns(c, "UpdateIngress", Object(Now(c).lb, TRUE))
createIngressListener(c) ==
    LET id == <<Now(c).lb, Now(c).port>> IN
    /\ Doing(c, "UpdateIngress", "k8s")
    /\ IF ~SameObject(Now(c).lb, TRUE, Now(c).arg) THEN LbRefused(c)
       ELSE /\ WritesObject(Now(c).lb, TRUE,
                   Now(c).arg.lsns \cup {[NewListener(c, id, TRUE, Now(c).pool) EXCEPT !.proxy = None]},
                   Now(c).arg.rules, assured \cup {<<"listener", id>>})
            /\ ListenerMade(c, id)
K8sGetService(c) ==
    /\ Doing(c, "GetService", "k8s")
    /\ IF Exists(Now(c).lb, FALSE) THEN Turns(c, "UpdateService", Object(Now(c).lb, FALSE)) /\ UNCHANGED lbVars
       ELSE LbRefused(c)
\* A port of the service, which Kubernetes takes once; the group is not kept.
createServiceListener(c) ==
    LET id == <<Now(c).lb, Now(c).port>> IN
    /\ Doing(c, "UpdateService", "k8s")
    /\ IF ~SameObject(Now(c).lb, FALSE, Now(c).arg) \/ (\E l \in Now(c).arg.lsns : l.id = id) THEN LbRefused(c)
       ELSE /\ WritesObject(Now(c).lb, FALSE,
                   Now(c).arg.lsns \cup {[NewListener(c, id, FALSE, None) EXCEPT !.proxy = None]}, {},
                   assured \cup {<<"listener", id>>})
            /\ ListenerMade(c, id)
K8sDeleteListener(c) == Doing(c, "DeleteListener", "k8s") /\ LbDone(c) /\ UNCHANGED lbVars
\* The name of the ingress is part of the listener's; the listener is not looked for.
K8sCreateRule(c) ==
    LET n == Now(c).lsn[1] IN
    /\ Doing(c, "CreateRule", "k8s")
    /\ IF ~Exists(n, TRUE) THEN LbRefused(c)
       ELSE /\ UNCHANGED lbVars
            /\ IF \E r \in Object(n, TRUE).rules : r.id = <<n, Now(c).name>> THEN LbDone(c)
               ELSE Turns(c, "UpdateRules", Object(n, TRUE))
K8sUpdateRules(c) ==
    LET n == Now(c).lsn[1]
        id == <<n, Now(c).name>> IN
    /\ Doing(c, "UpdateRules", "k8s")
    /\ IF ~SameObject(n, TRUE, Now(c).arg) THEN LbRefused(c)
       ELSE /\ WritesObject(n, TRUE, Now(c).arg.lsns, Now(c).arg.rules \cup {NewRoute(c, id)},
                            assured \cup {<<"route", id>>})
            /\ LbDone(c)
K8sDeleteRule(c) ==
    LET n == Now(c).lsn[1] IN
    /\ Doing(c, "DeleteRule", "k8s")
    /\ IF ~Exists(n, TRUE) \/ Now(c).lsn \notin LbIdsOf(Object(n, TRUE).rules) THEN LbRefused(c)
       ELSE Turns(c, "UpdateWithout", Object(n, TRUE)) /\ UNCHANGED lbVars
K8sUpdateWithout(c) ==
    LET n == Now(c).lsn[1] IN
    /\ Doing(c, "UpdateWithout", "k8s")
    /\ IF ~SameObject(n, TRUE, Now(c).arg) THEN LbRefused(c)
       ELSE /\ WritesObject(n, TRUE, Now(c).arg.lsns, {r \in Now(c).arg.rules : r.id # Now(c).lsn},
                            assured \ {<<"route", Now(c).lsn>>})
            /\ LbDone(c)
K8sUpdates(c) ==
    /\ \E do \in {"UpdateListener", "UpdateRule", "SetPriorities"} : Doing(c, do, "k8s")
    /\ LbRefused(c)

-----------------------------------------------------------------------------
(* aws: every call is one of the service.  It answers the creation of what    *)
(* there is, with the same settings, and the deletion of a load balancer that *)
(* is gone with success.                                                      *)

AwsCreateLoadBalancer(c) ==
    /\ Doing(c, "CreateLb", "aws")
    /\ IF Now(c).arg \/ (\E l \in lbs : l.name = Now(c).name)
       THEN \/ LbRefused(c)
            \/ \E l \in lbs : ~Now(c).arg /\ l.name = Now(c).name /\ UNCHANGED lbVars /\ LbMade(c, l.id)
       ELSE Counts("lb") /\ AddsLb(c, Fresh("lb"))
\* The service deletes the listeners of a load balancer with it.
AwsDeleteLoadBalancer(c) ==
    LET its == {l \in listeners : l.lb = Now(c).lb} IN
    /\ Doing(c, "DeleteLb", "aws")
    /\ IF LbById(Now(c).lb) = {} THEN LbRefused(c) \/ (UNCHANGED lbVars /\ LbDone(c))
       ELSE /\ lbs' = lbs \ LbById(Now(c).lb)
            /\ listeners' = listeners \ its
            /\ assured' = assured \ {<<"listener", l.id>> : l \in its}
            /\ UNCHANGED <<pools, routes, blobs, lbSeq>>
            /\ LbDone(c)
AwsCreateTargetGroup(c) ==
    /\ Doing(c, "CreatePool", "aws")
    /\ IF \E p \in pools : p.name = Now(c).name
       THEN \/ LbRefused(c)
            \/ \E p \in pools : p.name = Now(c).name /\ UNCHANGED lbVars /\ PoolKnown(c, p.name, p.id)
       ELSE Counts("pool") /\ AddsPool(c, Fresh("pool"))
\* Refused while a listener forwards to it.
AwsDeleteTargetGroup(c) ==
    /\ Doing(c, "DeletePool", "aws")
    /\ IF PoolById(Now(c).pool) = {} \/ (\E l \in listeners : l.pool = Now(c).pool) THEN LbRefused(c)
       ELSE DropsPool(c)
AwsRegisterTargets(c) ==
    /\ Doing(c, "Register", "aws")
    /\ \/ PoolById(Now(c).pool) = {} /\ LbRefused(c)
       \/ \E p \in PoolById(Now(c).pool) : Registers(c, p)
AwsDeregisterTargets(c) ==
    /\ Doing(c, "Deregister", "aws")
    /\ \/ PoolById(Now(c).pool) = {} /\ LbRefused(c)
       \/ \E p \in PoolById(Now(c).pool) : Deregisters(c, p)
\* A listener needs a default action, and a port of its own.
AwsCreateListener(c) ==
    /\ Doing(c, "CreateListener", "aws")
    /\ IF \/ LbById(Now(c).lb) = {} \/ PoolById(Now(c).pool) = {}
          \/ \E l \in listeners : l.lb = Now(c).lb /\ l.port = Now(c).port
       THEN \/ LbRefused(c)
            \/ \E l \in listeners :
                 /\ l.lb = Now(c).lb /\ l.port = Now(c).port /\ l.pool = Now(c).pool
                 /\ UNCHANGED lbVars
                 /\ ListenerMade(c, l.id)
       ELSE /\ Counts("listener")
            /\ listeners' = listeners \cup
                    {[NewListener(c, Fresh("listener"), FALSE, Now(c).pool) EXCEPT !.proxy = None]}
            /\ assured' = assured \cup {<<"listener", Fresh("listener")>>}
            /\ UNCHANGED <<lbs, pools, routes, blobs>>
            /\ ListenerMade(c, Fresh("listener"))
AwsDeleteListener(c) ==
    /\ Doing(c, "DeleteListener", "aws")
    /\ IF ListenerById(Now(c).lsn) = {} THEN LbRefused(c)
       ELSE /\ listeners' = listeners \ ListenerById(Now(c).lsn)
            /\ assured' = assured \ {<<"listener", Now(c).lsn>>}
            /\ UNCHANGED <<lbs, pools, routes, blobs, lbSeq>>
            /\ LbDone(c)
AwsUpdates(c) ==
    /\ \E do \in {"CreateRule", "DeleteRule", "UpdateListener", "UpdateRule", "SetPriorities"} : Doing(c, do, "aws")
    /\ LbRefused(c)

-----------------------------------------------------------------------------

BalancerServices == {"balancer", "routing", "appgateway"}
BalancerSteps(c) ==
    /\ req[c] # Idle
    /\ \/ FindsLb(c) \/ FindsPool(c) \/ PutsBlob(c) \/ DeletesBlob(c)
       \/ ReadsExisting(c) \/ ReadsPatched(c) \/ ReadsProxy(c) \/ ReadsMap(c)
       \/ ReadsGateway(c) \/ ListsListeners(c) \/ ListsRules(c) \/ ListsTagged(c)
       \/ LbCallIgnored(c)
       \/ /\ backend = "inmem"
          /\ \/ InmemCreateLoadBalancer(c) \/ InmemDeleteLoadBalancer(c)
             \/ InmemCreateTargetGroup(c) \/ InmemDeleteTargetGroup(c)
             \/ InmemRegisterTargets(c) \/ InmemDeregisterTargets(c)
             \/ InmemCreateListener(c) \/ InmemDeleteListener(c)
             \/ InmemUpdateListener(c) \/ InmemCreateRule(c) \/ InmemDeleteRule(c)
             \/ InmemUpdateRule(c) \/ InmemSetRulePriorities(c)
       \/ /\ backend = "k8s"
          /\ \/ K8sCreateLoadBalancer(c) \/ K8sDeleteLoadBalancer(c)
             \/ K8sDeleteIngress(c) \/ K8sCreateTargetGroup(c)
             \/ K8sDeleteTargetGroup(c) \/ K8sRegisterTargets(c)
             \/ K8sDeregisterTargets(c) \/ K8sUpdateAdding(c)
             \/ K8sUpdateRemoving(c) \/ K8sCreateListener(c)
             \/ createIngressListener(c) \/ K8sGetService(c)
             \/ createServiceListener(c) \/ K8sDeleteListener(c) \/ K8sCreateRule(c)
             \/ K8sUpdateRules(c) \/ K8sDeleteRule(c) \/ K8sUpdateWithout(c)
             \/ K8sUpdates(c)
       \/ /\ backend = "aws"
          /\ \/ AwsCreateLoadBalancer(c) \/ AwsDeleteLoadBalancer(c)
             \/ AwsCreateTargetGroup(c) \/ AwsDeleteTargetGroup(c)
             \/ AwsRegisterTargets(c) \/ AwsDeregisterTargets(c)
             \/ AwsCreateListener(c) \/ AwsDeleteListener(c) \/ AwsUpdates(c)
BalancerNext ==
    /\ service \in BalancerServices
    /\ \E c \in Clients :
         \/ BalancerRequests(c) \/ RoutingRequests(c) \/ GatewayRequests(c)
         \/ BalancerSteps(c)
         \/ Dies(c) /\ UNCHANGED lbVars

BalancerSpec == ShimInit /\ BalancerInit /\ [][BalancerNext]_<<shimVars, lbVars>>

-----------------------------------------------------------------------------
(* Properties *)

\* A target, listener or rule whose addition a backend has accepted is there
\* until a call removes it or what it belongs to, whatever other requests
\* read and write meanwhile.  A target is its identifier, whatever its port.
AssuredKept ==
    assured \subseteq (UNION {TargetsOf(p.id, p.targets) : p \in pools})
                      \cup {<<"listener", l.id>> : l \in listeners}
                      \cup {<<"route", r.id>> : r \in routes}

\* A deleteGlobalForwardingRule that nothing overlapped takes the load balancer,
\* its listeners and their rules with it, however they were assembled.  (Only
\* inmem keeps the blob of the rule; the others answer with an error.)
ForwardingRuleDeletesParts ==
    service \in BalancerServices /\ answer # None =>
        /\ LbById(answer.lb) = {}
        /\ \A l \in listeners : l.lb # answer.lb
        /\ \A r \in routes : r.lsn \notin answer.lsns
=============================================================================
