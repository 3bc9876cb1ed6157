------------------------------- MODULE Network -------------------------------
(***************************************************************************)
(* Networks, subnets, security groups and public addresses                 *)
(* (services/compute): the backends inmem, k8s, gcp, azure and aws, behind *)
(* the frontends aws_ec2, gcp_compute and azure_network.                   *)
(*                                                                         *)
(* A handler is the sequence of backend calls it has still to make (todo). *)
(* A lookup by name fills in the identifier the later calls use, a create  *)
(* the identifier of what it made.  A call whose error a handler discards  *)
(* has the mode "may"; a lookup that may find nothing has "opt", and "put"  *)
(* if what it finds is the answer.                                         *)
(*                                                                         *)
(* A rule is a pair of what it matches (direction, protocol and ports, 0   *)
(* for no port) and a range of addresses.  The backends inmem and aws      *)
(* number what they create; k8s, gcp and azure use the name.               *)
(***************************************************************************)
EXTENDS Shim
LOCAL INSTANCE SequencesExt

CONSTANTS
    NetNames,       \* names that callers give (numbers, unlike generated ids)
    Matches, Cidrs, \* the two parts of a rule
    AllowLists, RangeLists, \* what bodies allow (protocols, each with its ports), and from where
    AnyRange,       \* 0.0.0.0/0
    NetHosts,          \* instances an address is associated with
    MaxIds,         \* bound: identifiers inmem and aws generate
    MaxRules        \* bound: rules of a group

ASSUME AnyRangeIsARange == AnyRange \in Cidrs
ASSUME MatchesAreRecords == Matches \subseteq [dir : {"in", "out"}, proto : STRING, from : Nat, to : Nat]
ASSUME BodiesAreLists ==
    AllowLists \subseteq Seq([proto : STRING, ports : Seq(Nat \X Nat)]) /\ RangeLists \subseteq Seq(Cidrs)
ASSUME NamesAreNotGenerated == NetNames \cap 0..MaxIds = {}

VARIABLES
    nets,       \* records of id and name
    subnets,    \* records of id, net and name
    groups,     \* records of id, name, net, rules in order and (gcp) source ranges in order
    addresses,  \* records of id, name and host
    netSeq,     \* identifiers generated so far
    granted     \* history (inmem, k8s, aws): group and rule of acknowledged additions nobody has undone

netVars == <<nets, subnets, groups, addresses, netSeq, granted>>

Rules == Matches \X Cidrs
Inbound(r) == r[1].dir = "in"
ByName == backend \in {"k8s", "gcp", "azure"}

NetworkInit ==
    /\ nets = {}
    /\ subnets = {}
    /\ groups = {}
    /\ addresses = {}
    /\ netSeq = 0
    /\ granted = {}

Members(s) == {s[i] : i \in DOMAIN s}
\* The members of s that stay, in their order (the one list of them).
Kept(s, stays(_)) ==
    LET kept == {i \in DOMAIN s : stays(s[i])}
        orders == {f \in UNION {[1..n -> kept] : n \in 0..Len(s)} :
                     Members(f) = kept /\ \A i, j \in DOMAIN f : i < j => f[i] < f[j]}
    IN  {[i \in DOMAIN f |-> s[f[i]]] : f \in orders}
Without(s, r) == Kept(s, LAMBDA x : x # r)
\* r in its place: k8s and aws tell the inbound rules before the others.
Placed(s, r) ==
    LET last == IF Inbound(r) THEN {n \in 0..Len(s) : \A i \in DOMAIN s : Inbound(s[i]) <=> i <= n} ELSE {Len(s)}
    IN  {[i \in 1..Len(s) + 1 |-> IF i <= n THEN s[i] ELSE IF i = n + 1 THEN r ELSE s[i - 1]] : n \in last}
\* gcp keeps what is allowed and from where as two lists: every pair is in force.
InForce(g) ==
    IF backend = "gcp" THEN Members(g.rules) \X Members(g.ranges) ELSE Members(g.rules)
\* The rules of a group as the backend tells them: azure leaves out the ports,
\* gcp the end of a range of ports.
WithoutPorts(k) == [k EXCEPT !.from = 0, !.to = 0, !.proto = IF @ \in {"tcp", "udp"} THEN @ ELSE "-1"]
Told(g) ==
    CASE backend = "gcp" -> SetToSeq({<<[r[1] EXCEPT !.to = r[1].from], r[2]>> : r \in InForce(g)})
      [] backend = "azure" -> [i \in DOMAIN g.rules |-> <<WithoutPorts(g.rules[i][1]), g.rules[i][2]>>]
      [] OTHER -> g.rules
GroupById(id) == {g \in groups : g.id = id}
Named(things, n) == {x \in things : x.name = n}

-----------------------------------------------------------------------------
(* Requests *)

NetCall(do) == [do |-> do, mode |-> "must", net |-> 0, of |-> 0, name |-> 0, rule |-> None]
AddCall(id, rule, mode) == [NetCall("AddRule") EXCEPT !.of = id, !.rule = rule, !.mode = mode]
RemoveCall(id, rule, mode) == [NetCall("RemoveRule") EXCEPT !.of = id, !.rule = rule, !.mode = mode]
Find(what, n, mode) == [NetCall(what) EXCEPT !.name = n, !.mode = mode]
\* The body of a firewall request is kept for its answer.
Requested(c, op, want, calls) ==
    /\ Begin(c, [op |-> op, todo |-> calls, clean |-> TRUE, want |-> want])
    /\ UNCHANGED netVars
AsksNetwork(c, calls) == Requested(c, "net", {}, calls)
AsksFirewall(c, want, calls) == Requested(c, "firewall", want, calls)
\* gcpAllowedToDomainRule: the first port of an entry, and no other.
DomainRule(allow, cidr) ==
    LET port == IF allow.ports = <<>> THEN <<0, 0>> ELSE allow.ports[1] IN
    <<[dir |-> "in", proto |-> allow.proto, from |-> port[1], to |-> port[2]], cidr>>
\* The rules made of a body: every allowed entry, from every source range.
FirewallBody(ps, as) ==
    [i \in 1..Len(ps) * Len(as) |-> DomainRule(ps[((i - 1) \div Len(as)) + 1], as[((i - 1) % Len(as)) + 1])]
Bodies == {FirewallBody(ps, as) : ps \in AllowLists, as \in RangeLists}
AddsAll(rules) == [i \in DOMAIN rules |-> AddCall(0, rules[i], "may")]
Ids(things) == {x.id : x \in things}

CreateVpc(c) == \E n \in NetNames : AsksNetwork(c, <<Find("CreateNetwork", n, "must")>>)
DeleteVpc(c) == \E i \in Ids(nets) : AsksNetwork(c, <<[NetCall("DeleteNetwork") EXCEPT !.net = i]>>)
CreateSubnet(c) ==
    \E n \in NetNames, i \in Ids(nets) :
        AsksNetwork(c, <<[Find("CreateSubnet", n, "must") EXCEPT !.net = i]>>)
DeleteSubnet(c) ==
    \E s \in subnets :
        AsksNetwork(c, <<[NetCall("DeleteSubnet") EXCEPT !.net = s.net, !.of = s.id]>>)
CreateSecurityGroup(c) ==
    \E n \in NetNames, i \in Ids(nets) \cup {0} :
        AsksNetwork(c, <<[Find("CreateGroup", n, "must") EXCEPT !.net = i]>>)
DeleteSecurityGroup(c) ==
    \E i \in Ids(groups) : AsksNetwork(c, <<[NetCall("DeleteGroup") EXCEPT !.of = i]>>)
\* One rule of the request after the other, up to the first error.
AuthorizeSecurityGroupIngress(c) ==
    \E i \in Ids(groups), body \in Bodies \ {<<>>} :
        AsksNetwork(c, [k \in DOMAIN body |-> AddCall(i, body[k], "must")])
RevokeSecurityGroupIngress(c) ==
    \E i \in Ids(groups), r \in Rules : r[1].dir = "in" /\ AsksNetwork(c, <<RemoveCall(i, r, "must")>>)
AuthorizeSecurityGroupEgress(c) ==
    \E i \in Ids(groups), r \in Rules : r[1].dir = "out" /\ AsksNetwork(c, <<AddCall(i, r, "must")>>)
RevokeSecurityGroupEgress(c) ==
    \E i \in Ids(groups), r \in Rules : r[1].dir = "out" /\ AsksNetwork(c, <<RemoveCall(i, r, "must")>>)
AllocateAddress(c) == AsksNetwork(c, <<NetCall("Allocate")>>)
AddressCall(c, do) ==
    \E i \in Ids(addresses) : AsksNetwork(c, <<[NetCall(do) EXCEPT !.of = i]>>)
ReleaseAddress(c) == AddressCall(c, "Release")
AssociateAddress(c) ==
    \E i \in Ids(addresses), h \in NetHosts :
        AsksNetwork(c, <<[NetCall("Associate") EXCEPT !.of = i, !.name = h]>>)
DisassociateAddress(c) == AddressCall(c, "Disassociate")

\* gcp_compute: what exists is addressed by name.
insertNetwork(c) == \E n \in NetNames : AsksNetwork(c, <<Find("CreateNetwork", n, "must")>>)
deleteNetwork(c) ==
    \E n \in NetNames : AsksNetwork(c, <<Find("FindNetwork", n, "must"), NetCall("DeleteNetwork")>>)
insertSubnetwork(c) ==
    \E n \in NetNames :
        AsksNetwork(c, <<Find("FindNetwork", n, "may"), Find("CreateSubnet", n, "must")>>)
deleteSubnetwork(c) ==
    \E n \in NetNames : AsksNetwork(c, <<Find("FindSubnet", n, "must"), NetCall("DeleteSubnet")>>)
\* No range stands for any; a patch without ranges adds nothing.
insertFirewall(c) ==
    \E n \in NetNames, ps \in AllowLists, as \in RangeLists :
        LET body == FirewallBody(ps, IF as = <<>> THEN <<AnyRange>> ELSE as) IN
        AsksFirewall(c, <<ps, IF as = <<>> THEN <<AnyRange>> ELSE as>>,
            <<Find("FindNetwork", n, "opt"), Find("CreateGroup", n, "must")>> \o AddsAll(body))
deleteFirewall(c) ==
    \E n \in NetNames : AsksNetwork(c, <<Find("FindGroup", n, "must"), NetCall("DeleteGroup")>>)
\* Current rules are read and removed, then those of the body are added.
patchFirewall(c) ==
    \E n \in NetNames, ps \in AllowLists, as \in RangeLists :
        AsksFirewall(c, <<ps, as>>,
            <<Find("FindGroup", n, "must"), [NetCall("Replace") EXCEPT !.mode = "may"]>>
            \o AddsAll(FirewallBody(ps, as)))
insertAddress(c) == AsksNetwork(c, <<NetCall("Allocate")>>)
deleteAddress(c) ==
    \E x \in addresses : AsksNetwork(c, <<Find("FindAddress", x.name, "must"), NetCall("Release")>>)
\* azure_network: a PUT of what is found changes nothing.
createOrUpdateVNet(c) ==
    \E n \in NetNames : AsksNetwork(c, <<Find("FindNetwork", n, "put"), Find("CreateNetwork", n, "must")>>)
deleteVNet(c) ==
    \E n \in NetNames : AsksNetwork(c, <<Find("FindNetwork", n, "must"), NetCall("DeleteNetwork")>>)
createOrUpdateSubnet(c) ==
    \E n \in NetNames :
        AsksNetwork(c, <<Find("FindNetwork", n, "must"), Find("CreateSubnet", n, "must")>>)
deleteVNetSubnet(c) ==
    \E n \in NetNames :
        AsksNetwork(c,
            <<Find("FindNetwork", n, "must"), Find("FindSubnet", n, "must"), NetCall("DeleteSubnet")>>)
createOrUpdateNSG(c) ==
    \E n \in NetNames, body \in Bodies :
        AsksNetwork(c,
            <<Find("FindGroup", n, "put"), Find("ReadGroup", n, "put"), Find("CreateGroup", n, "must")>>
            \o AddsAll(body))
deleteNSG(c) ==
    \E n \in NetNames :
        AsksNetwork(c,
            <<Find("FindGroup", n, "must"), Find("ReadGroup", n, "must"), NetCall("DeleteGroup")>>)
createOrUpdateSecurityRule(c) ==
    \E n \in NetNames, r \in Rules :
        AsksNetwork(c,
            <<Find("FindGroup", n, "must"), Find("ReadGroup", n, "must"), AddCall(0, r, "must")>>)
\* The name of a rule is its position.
deleteSecurityRule(c) ==
    \E n \in NetNames, i \in 1..MaxRules :
        AsksNetwork(c,
            <<Find("FindGroup", n, "must"), [Find("PickRule", n, "must") EXCEPT !.rule = i]>>)
createOrUpdatePublicIP(c) ==
    \E n \in NetNames :
        AsksNetwork(c, <<Find("FindAddress", n, "put"), Find("Allocate", n, "must")>>)
deletePublicIP(c) ==
    \E n \in NetNames : AsksNetwork(c, <<Find("FindAddress", n, "must"), NetCall("Release")>>)

\* A shim serves all of them; the requests explored together are those that
\* meet in the same resources.
NetworkRequests(c) ==
    /\ service = "network"
    /\ req[c] = Idle
    /\ \/ CreateVpc(c) \/ DeleteVpc(c) \/ CreateSubnet(c) \/ DeleteSubnet(c)
       \/ insertNetwork(c) \/ deleteNetwork(c) \/ insertSubnetwork(c) \/ deleteSubnetwork(c)
       \/ createOrUpdateVNet(c) \/ deleteVNet(c) \/ createOrUpdateSubnet(c) \/ deleteVNetSubnet(c)
AddressRequests(c) ==
    /\ service = "address"
    /\ req[c] = Idle
    /\ \/ AllocateAddress(c) \/ ReleaseAddress(c) \/ AssociateAddress(c) \/ DisassociateAddress(c)
       \/ insertAddress(c) \/ deleteAddress(c) \/ createOrUpdatePublicIP(c) \/ deletePublicIP(c)
FirewallRequests(c) ==
    /\ service = "firewall"
    /\ req[c] = Idle
    /\ \/ AuthorizeSecurityGroupIngress(c) \/ RevokeSecurityGroupIngress(c)
       \/ insertFirewall(c) \/ deleteFirewall(c) \/ patchFirewall(c)
GroupRequests(c) ==
    /\ service = "group"
    /\ req[c] = Idle
    /\ \/ CreateSecurityGroup(c) \/ DeleteSecurityGroup(c)
       \/ AuthorizeSecurityGroupEgress(c) \/ RevokeSecurityGroupEgress(c)
       \/ createOrUpdateNSG(c) \/ deleteNSG(c) \/ createOrUpdateSecurityRule(c) \/ deleteSecurityRule(c)

-----------------------------------------------------------------------------
(* How a handler goes on after a call *)

\* With the calls left to make, or with its answer.
NetSays(c, id, clean) ==
    IF req[c].op = "firewall" /\ clean THEN [of |-> id, want |-> req[c].want] ELSE None
NetContinues(c, calls, clean) ==
    IF calls = <<>> THEN Ends(c, NetSays(c, Now(c).of, clean))
    ELSE Goes(c, [req[c] EXCEPT !.todo = calls, !.clean = clean])
NetDone(c) == NetContinues(c, Tail(req[c].todo), req[c].clean)
NetRefused(c) ==
    /\ UNCHANGED netVars
    /\ IF Now(c).mode = "may" THEN NetContinues(c, Tail(req[c].todo), FALSE) ELSE Fails(c)
\* A create tells the later calls what it made.
NetMade(c, id) ==
    LET rest == Tail(req[c].todo) IN
    IF rest = <<>> THEN Ends(c, NetSays(c, id, TRUE))
    ELSE Goes(c, [req[c] EXCEPT !.todo = [i \in DOMAIN rest |-> [rest[i] EXCEPT !.of = id]]])
\* One of the calls a handler does not check fails, and the handler goes on.
NetCallIgnored(c) ==
    /\ backend # "inmem"
    /\ req[c] # Idle
    /\ Now(c).mode = "may"
    /\ NetRefused(c)

\* A lookup by name: the error of a listing is taken for absence by the azure
\* frontend, and a PUT of what exists ends here.
LooksUp(c, found, with(_, _)) ==
    LET rest == Tail(req[c].todo) IN
    /\ UNCHANGED netVars
    /\ \/ /\ found # {}
          /\ \E x \in found :
                IF Now(c).mode = "put" /\ Now(c).do # "FindGroup" THEN Ends(c, None)
                ELSE Goes(c, [req[c] EXCEPT !.todo = [i \in DOMAIN rest |-> with(rest[i], x)]])
       \/ /\ found = {} \/ (backend # "inmem" /\ Now(c).mode = "put")
          /\ IF Now(c).mode = "must" THEN Fails(c)
             ELSE Goes(c, [req[c] EXCEPT !.todo = IF Now(c).do = "FindGroup" THEN Tail(rest) ELSE rest])
FindNetwork(c) ==
    /\ Doing(c, "FindNetwork", backend)
    /\ LooksUp(c, Named(nets, Now(c).name), LAMBDA call, x : [call EXCEPT !.net = x.id])
\* azure lists the subnets of a network only.
FindSubnet(c) ==
    /\ Doing(c, "FindSubnet", backend)
    /\ LooksUp(c, {s \in Named(subnets, Now(c).name) : s.net = Now(c).net \/ (Now(c).net = 0 /\ backend # "azure")},
               LAMBDA call, x : [call EXCEPT !.of = x.id, !.net = x.net])
FindGroup(c) ==
    /\ Doing(c, "FindGroup", backend)
    /\ LooksUp(c, Named(groups, Now(c).name), LAMBDA call, x : [call EXCEPT !.of = x.id])
FindAddress(c) ==
    /\ Doing(c, "FindAddress", backend)
    /\ LooksUp(c, Named(addresses, Now(c).name), LAMBDA call, x : [call EXCEPT !.of = x.id])
ReadGroup(c) ==
    /\ Doing(c, "ReadGroup", backend)
    /\ LooksUp(c, GroupById(Now(c).of), LAMBDA call, x : call)
PickRule(c) ==
    /\ Doing(c, "PickRule", backend)
    /\ UNCHANGED netVars
    /\ \/ /\ GroupById(Now(c).of) = {}
          /\ Fails(c)
       \/ \E g \in GroupById(Now(c).of) :
            IF Now(c).rule \in DOMAIN Told(g)
            THEN Goes(c, [req[c] EXCEPT !.todo = <<RemoveCall(g.id, Told(g)[Now(c).rule], "must")>>])
            ELSE Fails(c)

\* Mutant: the new rules are added before the old ones are removed.
AddsFirst(id, told, adds) == adds \o [i \in DOMAIN told |-> RemoveCall(id, told[i], "may")]
RemovesFirst(id, told, adds) == [i \in DOMAIN told |-> RemoveCall(id, told[i], "may")] \o adds
Replace(c) ==
    /\ Doing(c, "Replace", backend)
    /\ UNCHANGED netVars
    /\ \/ /\ GroupById(Now(c).of) = {}
          /\ NetContinues(c, Tail(req[c].todo), FALSE)
       \/ \E g \in GroupById(Now(c).of) :
            NetContinues(c, RemovesFirst(g.id, Told(g), Tail(req[c].todo)), req[c].clean)

-----------------------------------------------------------------------------
(* What a call leaves *)

OnlyNets == UNCHANGED <<subnets, groups, addresses, netSeq, granted>>
OnlySubnets == UNCHANGED <<nets, groups, addresses, netSeq, granted>>
OnlyGroups == UNCHANGED <<nets, subnets, addresses, netSeq>>
OnlyAddresses == UNCHANGED <<nets, subnets, groups, granted>>

NewId(c) == IF ByName THEN Now(c).name ELSE netSeq + 1
Numbers == IF ByName THEN UNCHANGED netSeq ELSE netSeq < MaxIds /\ netSeq' = netSeq + 1
MakesNet(c) ==
    /\ Numbers
    /\ nets' = nets \cup {[id |-> NewId(c), name |-> Now(c).name]}
    /\ UNCHANGED <<subnets, groups, addresses, granted>>
    /\ NetMade(c, NewId(c))
MakesSubnet(c) ==
    /\ Numbers
    /\ subnets' = subnets \cup {[id |-> NewId(c), net |-> Now(c).net, name |-> Now(c).name]}
    /\ UNCHANGED <<nets, groups, addresses, granted>>
    /\ NetMade(c, NewId(c))
\* A new group; one of the same id is replaced.
MakesGroup(c) ==
    /\ Numbers
    /\ groups' = (groups \ GroupById(NewId(c)))
                 \cup {[id |-> NewId(c), name |-> Now(c).name, net |-> Now(c).net, rules |-> <<>>, ranges |-> <<>>]}
    /\ UNCHANGED <<nets, subnets, addresses, granted>>
    /\ NetMade(c, NewId(c))
MakesAddress(c, name) ==
    /\ netSeq < MaxIds
    /\ netSeq' = netSeq + 1
    /\ addresses' = addresses \cup {[id |-> netSeq + 1, name |-> name, host |-> None]}
    /\ OnlyAddresses
NetIs(c) == Now(c).net \in Ids(nets)
GroupTaken(c) == {g \in Named(groups, Now(c).name) : g.net = Now(c).net} # {}
SubnetTaken(c) == {s \in Named(subnets, Now(c).name) : s.net = Now(c).net} # {}
DropsNet(c) ==
    IF ~NetIs(c) THEN NetRefused(c)
    ELSE nets' = {n \in nets : n.id # Now(c).net} /\ OnlyNets /\ NetDone(c)
DropsSubnet(c) ==
    IF Now(c).of \notin Ids(subnets) THEN NetRefused(c)
    ELSE subnets' = {s \in subnets : s.id # Now(c).of} /\ OnlySubnets /\ NetDone(c)
DropsGroup(c) ==
    IF GroupById(Now(c).of) = {} THEN NetRefused(c)
    ELSE /\ groups' = groups \ GroupById(Now(c).of)
         /\ granted' = {gr \in granted : gr[1] # Now(c).of}
         /\ OnlyGroups
         /\ NetDone(c)
DropsAddress(c) ==
    IF Now(c).of \notin Ids(addresses) THEN NetRefused(c)
    ELSE /\ addresses' = {x \in addresses : x.id # Now(c).of}
         /\ OnlyAddresses
         /\ UNCHANGED netSeq
         /\ NetDone(c)
SetsHost(c, host) ==
    IF Now(c).of \notin Ids(addresses) THEN NetRefused(c)
    ELSE /\ addresses' = {IF x.id = Now(c).of THEN [x EXCEPT !.host = host] ELSE x : x \in addresses}
         /\ OnlyAddresses
         /\ UNCHANGED netSeq
         /\ NetDone(c)

Writes(c, g, rules, ranges) ==
    /\ Len(rules) <= MaxRules
    /\ Len(ranges) <= MaxRules
    /\ groups' = (groups \ GroupById(g.id)) \cup {[g EXCEPT !.rules = rules, !.ranges = ranges]}
    /\ OnlyGroups
    /\ NetDone(c)
\* What the history keeps: the rule an acknowledged call added, and not what one removes.
Grants(c, rule) == granted' = granted \cup {<<Now(c).of, rule>>}
Withdraws(c, matches(_)) == granted' = {gr \in granted : gr[1] = Now(c).of => ~matches(gr[2])}

-----------------------------------------------------------------------------
(* inmem: names are unique, among networks and within a network. *)

InmemCreateNetwork(c) ==
    /\ Doing(c, "CreateNetwork", "inmem")
    /\ IF Named(nets, Now(c).name) # {} THEN NetRefused(c) ELSE MakesNet(c)
InmemDeleteNetwork(c) == Doing(c, "DeleteNetwork", "inmem") /\ DropsNet(c)
InmemCreateSubnet(c) ==
    /\ Doing(c, "CreateSubnet", "inmem")
    /\ IF ~NetIs(c) \/ SubnetTaken(c) THEN NetRefused(c) ELSE MakesSubnet(c)
InmemDeleteSubnet(c) == Doing(c, "DeleteSubnet", "inmem") /\ DropsSubnet(c)
InmemCreateSecurityGroup(c) ==
    /\ Doing(c, "CreateGroup", "inmem")
    /\ IF GroupTaken(c) THEN NetRefused(c) ELSE MakesGroup(c)
InmemDeleteSecurityGroup(c) == Doing(c, "DeleteGroup", "inmem") /\ DropsGroup(c)
InmemAddRule(c) ==
    /\ Doing(c, "AddRule", "inmem")
    /\ \/ GroupById(Now(c).of) = {} /\ NetRefused(c)
       \/ \E g \in GroupById(Now(c).of) : Writes(c, g, Append(g.rules, Now(c).rule), <<>>) /\ Grants(c, Now(c).rule)
InmemRemoveRule(c) ==
    /\ Doing(c, "RemoveRule", "inmem")
    /\ \/ GroupById(Now(c).of) = {} /\ NetRefused(c)
       \/ \E g \in GroupById(Now(c).of) :
            /\ \E rules \in Without(g.rules, Now(c).rule) : Writes(c, g, rules, <<>>)
            /\ Withdraws(c, LAMBDA r : r = Now(c).rule)
\* The counter is also the name of an address nobody named.
InmemAllocatePublicIP(c) ==
    /\ Doing(c, "Allocate", "inmem")
    /\ MakesAddress(c, IF Now(c).name = 0 THEN netSeq + 1 ELSE Now(c).name)
    /\ NetMade(c, netSeq + 1)
InmemReleasePublicIP(c) == Doing(c, "Release", "inmem") /\ DropsAddress(c)
InmemAssociatePublicIP(c) == Doing(c, "Associate", "inmem") /\ SetsHost(c, Now(c).name)
InmemDisassociatePublicIP(c) == Doing(c, "Disassociate", "inmem") /\ SetsHost(c, None)

-----------------------------------------------------------------------------
(* k8s: a network is a namespace, a group a network policy, which is read    *)
(* and written back; the write is refused if the policy changed since.       *)

K8sCreateNetwork(c) ==
    /\ Doing(c, "CreateNetwork", "k8s")
    /\ IF Named(nets, Now(c).name) # {} THEN NetRefused(c) ELSE MakesNet(c)
K8sDeleteNetwork(c) == Doing(c, "DeleteNetwork", "k8s") /\ DropsNet(c)
K8sCreateSecurityGroup(c) ==
    /\ Doing(c, "CreateGroup", "k8s")
    /\ IF GroupById(Now(c).name) # {} THEN NetRefused(c) ELSE MakesGroup(c)
K8sDeleteSecurityGroup(c) == Doing(c, "DeleteGroup", "k8s") /\ DropsGroup(c)
GetsGroup(c, next) ==
    /\ UNCHANGED netVars
    /\ \/ GroupById(Now(c).of) = {} /\ NetRefused(c)
       \/ \E g \in GroupById(Now(c).of) :
            Goes(c, [req[c] EXCEPT !.todo = <<[do |-> next, mode |-> Now(c).mode, net |-> 0, of |-> Now(c).of,
                                               name |-> Now(c).name, rule |-> Now(c).rule, read |-> g]>> \o Tail(@)])
K8sAddRule(c) == Doing(c, "AddRule", "k8s") /\ GetsGroup(c, "UpdateAdding")
K8sRemoveRule(c) == Doing(c, "RemoveRule", "k8s") /\ GetsGroup(c, "UpdateRemoving")
\* A version that only contents tell apart: an object that came back to the
\* contents that were read is accepted here and refused by Kubernetes.
\* Mutant: the version is not compared.
AnyVersion(c) == GroupById(Now(c).of) # {}
SameVersion(c) == GroupById(Now(c).of) = {Now(c).read}
\* A policy knows tcp, udp and all of them (""); what is neither udp nor all is tcp.
domainRuleToNPPort(k) ==
    IF k.proto \in {"", "-1"} THEN [dir |-> k.dir, proto |-> "", from |-> 0, to |-> 0]
    ELSE [dir |-> k.dir, proto |-> IF k.proto = "udp" THEN "udp" ELSE "tcp", from |-> k.from,
          to |-> IF k.from = 0 \/ k.to = 0 THEN k.from ELSE k.to]
PolicyRule(r) == <<domainRuleToNPPort(r[1]), r[2]>>
addDomainRule(c) ==
    /\ Doing(c, "UpdateAdding", "k8s")
    /\ IF ~SameVersion(c) THEN NetRefused(c)
       ELSE /\ \E rules \in Placed(Now(c).read.rules, PolicyRule(Now(c).rule)) : Writes(c, Now(c).read, rules, <<>>)
            /\ Grants(c, PolicyRule(Now(c).rule))
\* ingressMatchesDomain, egressMatchesDomain: of the rule asked for only its port
\* counts, and not at all if the existing rule names its protocol and no port.
MatchesDomain(existing, asked) ==
    /\ existing[1].dir = asked[1].dir
    /\ IF existing[1].proto = "" THEN asked[1].from = 0
       ELSE existing[1].from \in {0, asked[1].from}
\* The first rule that matches.
WithoutFirst(s, r) ==
    LET first == {i \in DOMAIN s : MatchesDomain(s[i], r) /\ \A j \in 1..i - 1 : ~MatchesDomain(s[j], r)} IN
    IF first = {} THEN {s} ELSE {[k \in 1..Len(s) - 1 |-> s[IF k < i THEN k ELSE k + 1]] : i \in first}
removeDomainRule(c) ==
    /\ Doing(c, "UpdateRemoving", "k8s")
    /\ IF ~SameVersion(c) THEN NetRefused(c)
       ELSE /\ \E rules \in WithoutFirst(Now(c).read.rules, Now(c).rule) : Writes(c, Now(c).read, rules, <<>>)
            /\ Withdraws(c, LAMBDA r : MatchesDomain(r, Now(c).rule))
K8sNoSubnets(c) ==
    (Doing(c, "CreateSubnet", "k8s") \/ Doing(c, "DeleteSubnet", "k8s")) /\ NetRefused(c)
K8sNoAddresses(c) ==
    /\ Doing(c, "Allocate", "k8s") \/ Doing(c, "Release", "k8s") \/ Doing(c, "Associate", "k8s")
        \/ Doing(c, "Disassociate", "k8s")
    /\ NetRefused(c)

-----------------------------------------------------------------------------
(* gcp: a group is a firewall, read and patched without its fingerprint.     *)

GcpCreateNetwork(c) ==
    /\ Doing(c, "CreateNetwork", "gcp")
    /\ IF Named(nets, Now(c).name) # {} THEN NetRefused(c) ELSE MakesNet(c)
GcpDeleteNetwork(c) ==
    /\ Doing(c, "DeleteNetwork", "gcp")
    /\ IF \E x \in subnets \cup groups : x.net = Now(c).net THEN NetRefused(c) ELSE DropsNet(c)
GcpCreateSubnet(c) ==
    /\ Doing(c, "CreateSubnet", "gcp")
    /\ IF ~NetIs(c) \/ Now(c).name \in Ids(subnets) THEN NetRefused(c) ELSE MakesSubnet(c)
GcpDeleteSubnet(c) == Doing(c, "DeleteSubnet", "gcp") /\ DropsSubnet(c)
GcpCreateSecurityGroup(c) ==
    /\ Doing(c, "CreateGroup", "gcp")
    /\ IF GroupById(Now(c).name) # {} THEN NetRefused(c) ELSE MakesGroup(c)
GcpDeleteSecurityGroup(c) == Doing(c, "DeleteGroup", "gcp") /\ DropsGroup(c)
GcpAddRule(c) == Doing(c, "AddRule", "gcp") /\ GetsGroup(c, "PatchAdding")
GcpRemoveRule(c) == Doing(c, "RemoveRule", "gcp") /\ GetsGroup(c, "PatchRemoving")
GcpPatchAdding(c) ==
    /\ Doing(c, "PatchAdding", "gcp")
    /\ \/ GroupById(Now(c).of) = {} /\ NetRefused(c)
       \/ \E g \in GroupById(Now(c).of) :
            /\ Writes(c, g, Append(Now(c).read.rules, [Now(c).rule[1] EXCEPT !.dir = "in"]), Append(Now(c).read.ranges, Now(c).rule[2]))
            /\ UNCHANGED granted
\* Every entry of the protocol goes, the ranges stay; a patch that names no entry
\* leaves them as they are.
GcpPatchRemoving(c) ==
    /\ Doing(c, "PatchRemoving", "gcp")
    /\ \/ GroupById(Now(c).of) = {} /\ NetRefused(c)
       \/ \E g \in GroupById(Now(c).of) :
            /\ \E kept \in Kept(Now(c).read.rules, LAMBDA k : k.proto # Now(c).rule[1].proto) :
                  Writes(c, g, IF kept = <<>> THEN g.rules ELSE kept, Now(c).read.ranges)
            /\ UNCHANGED granted
\* Inserted, then read for its address.
GcpAllocatePublicIP(c) ==
    /\ Doing(c, "Allocate", "gcp")
    /\ MakesAddress(c, netSeq + 1)
    /\ Goes(c, [req[c] EXCEPT !.todo = <<[NetCall("GetAddress") EXCEPT !.of = netSeq + 1, !.name = Now(c).name]>>])
GcpGetsAddress(c) ==
    /\ Doing(c, "GetAddress", "gcp")
    /\ IF Now(c).of \in Ids(addresses) THEN NetDone(c) /\ UNCHANGED netVars ELSE NetRefused(c)
GcpReleasePublicIP(c) == Doing(c, "Release", "gcp") /\ DropsAddress(c)
GcpAssociatePublicIP(c) == Doing(c, "Associate", "gcp") /\ NetDone(c) /\ UNCHANGED netVars
GcpDisassociatePublicIP(c) == Doing(c, "Disassociate", "gcp") /\ NetDone(c) /\ UNCHANGED netVars

-----------------------------------------------------------------------------
(* azure: a create is a PUT, which replaces what has that name.              *)

AzureCreateNetwork(c) ==
    /\ Doing(c, "CreateNetwork", "azure")
    /\ nets' = nets \cup {[id |-> Now(c).name, name |-> Now(c).name]}
    /\ subnets' = {s \in subnets : s.net # Now(c).name}
    /\ UNCHANGED <<groups, addresses, netSeq, granted>>
    /\ NetMade(c, Now(c).name)
AzureDeleteNetwork(c) ==
    /\ Doing(c, "DeleteNetwork", "azure")
    /\ IF ~NetIs(c) THEN NetRefused(c)
       ELSE /\ nets' = {n \in nets : n.id # Now(c).net}
            /\ subnets' = {s \in subnets : s.net # Now(c).net}
            /\ UNCHANGED <<groups, addresses, netSeq, granted>>
            /\ NetDone(c)
AzureCreateSubnet(c) ==
    /\ Doing(c, "CreateSubnet", "azure")
    /\ IF ~NetIs(c) THEN NetRefused(c) ELSE MakesSubnet(c)
AzureDeleteSubnet(c) == Doing(c, "DeleteSubnet", "azure") /\ DropsSubnet(c)
AzureCreateSecurityGroup(c) == Doing(c, "CreateGroup", "azure") /\ MakesGroup(c)
AzureDeleteSecurityGroup(c) == Doing(c, "DeleteGroup", "azure") /\ DropsGroup(c)
\* A rule is an object of its own, named after its contents.
AzureAddRule(c) ==
    /\ Doing(c, "AddRule", "azure")
    /\ \/ GroupById(Now(c).of) = {} /\ NetRefused(c)
       \/ \E g \in GroupById(Now(c).of) :
            /\ \E rules \in Without(g.rules, Now(c).rule) : Writes(c, g, Append(rules, Now(c).rule), <<>>)
            /\ UNCHANGED granted
AzureRemoveRule(c) ==
    /\ Doing(c, "RemoveRule", "azure")
    /\ \/ GroupById(Now(c).of) = {} /\ NetRefused(c)
       \/ \E g \in GroupById(Now(c).of) :
            /\ \E rules \in Without(g.rules, Now(c).rule) : Writes(c, g, rules, <<>>)
            /\ UNCHANGED granted
\* The name asked for is not sent.
AzureAllocatePublicIP(c) ==
    /\ Doing(c, "Allocate", "azure")
    /\ MakesAddress(c, netSeq + 1)
    /\ NetMade(c, netSeq + 1)
AzureReleasePublicIP(c) == Doing(c, "Release", "azure") /\ DropsAddress(c)
AzureAssociatePublicIP(c) == Doing(c, "Associate", "azure") /\ NetDone(c) /\ UNCHANGED netVars
AzureDisassociatePublicIP(c) == Doing(c, "Disassociate", "azure") /\ NetDone(c) /\ UNCHANGED netVars

-----------------------------------------------------------------------------
(* aws: a network is found by its Name tag, which need not be unique.        *)

AwsCreateNetwork(c) == Doing(c, "CreateNetwork", "aws") /\ MakesNet(c)
AwsDeleteNetwork(c) ==
    /\ Doing(c, "DeleteNetwork", "aws")
    /\ IF \E x \in subnets \cup groups : x.net = Now(c).net THEN NetRefused(c) ELSE DropsNet(c)
AwsCreateSubnet(c) ==
    /\ Doing(c, "CreateSubnet", "aws")
    /\ IF ~NetIs(c) THEN NetRefused(c) ELSE MakesSubnet(c)
AwsDeleteSubnet(c) == Doing(c, "DeleteSubnet", "aws") /\ DropsSubnet(c)
AwsCreateSecurityGroup(c) ==
    /\ Doing(c, "CreateGroup", "aws")
    /\ IF GroupTaken(c) THEN NetRefused(c) ELSE MakesGroup(c)
AwsDeleteSecurityGroup(c) == Doing(c, "DeleteGroup", "aws") /\ DropsGroup(c)
\* EC2 refuses a rule that is there, and the removal of one that is not.
AwsAddRule(c) ==
    /\ Doing(c, "AddRule", "aws")
    /\ \/ ~(\E g \in GroupById(Now(c).of) : Now(c).rule \notin Members(g.rules)) /\ NetRefused(c)
       \/ \E g \in GroupById(Now(c).of) :
            /\ Now(c).rule \notin Members(g.rules)
            /\ \E rules \in Placed(g.rules, Now(c).rule) : Writes(c, g, rules, <<>>)
            /\ Grants(c, Now(c).rule)
AwsRemoveRule(c) ==
    /\ Doing(c, "RemoveRule", "aws")
    /\ \/ ~(\E g \in GroupById(Now(c).of) : Now(c).rule \in Members(g.rules)) /\ NetRefused(c)
       \/ \E g \in GroupById(Now(c).of) :
            /\ Now(c).rule \in Members(g.rules)
            /\ \E rules \in Without(g.rules, Now(c).rule) : Writes(c, g, rules, <<>>)
            /\ Withdraws(c, LAMBDA r : r = Now(c).rule)
AwsAllocatePublicIP(c) ==
    /\ Doing(c, "Allocate", "aws")
    /\ MakesAddress(c, netSeq + 1)
    /\ NetMade(c, netSeq + 1)
AwsReleasePublicIP(c) == Doing(c, "Release", "aws") /\ DropsAddress(c)
AwsAssociatePublicIP(c) == Doing(c, "Associate", "aws") /\ SetsHost(c, Now(c).name)
\* The association is looked up and then removed: another instance's by then, no more.
AwsDisassociatePublicIP(c) ==
    /\ Doing(c, "Disassociate", "aws")
    /\ UNCHANGED netVars
    /\ \/ Now(c).of \notin Ids(addresses) /\ Fails(c)
       \/ \E x \in addresses :
            /\ x.id = Now(c).of
            /\ IF x.host = None THEN NetDone(c)
               ELSE Goes(c, [req[c] EXCEPT !.todo = <<[NetCall("Dissolve") EXCEPT !.of = x.id, !.name = x.host]>>])
AwsDissolves(c) ==
    /\ Doing(c, "Dissolve", "aws")
    /\ IF \E x \in addresses : x.id = Now(c).of /\ x.host = Now(c).name THEN SetsHost(c, None)
       ELSE NetRefused(c)

-----------------------------------------------------------------------------
NetworkCall(c) ==
    /\ req[c] # Idle
    /\ \/ FindNetwork(c) \/ FindSubnet(c) \/ FindGroup(c) \/ FindAddress(c)
       \/ ReadGroup(c) \/ PickRule(c) \/ Replace(c) \/ NetCallIgnored(c)
       \/ /\ backend = "inmem"
          /\ \/ InmemCreateNetwork(c) \/ InmemDeleteNetwork(c)
             \/ InmemCreateSubnet(c) \/ InmemDeleteSubnet(c)
             \/ InmemCreateSecurityGroup(c) \/ InmemDeleteSecurityGroup(c)
             \/ InmemAddRule(c) \/ InmemRemoveRule(c) \/ InmemAllocatePublicIP(c)
             \/ InmemReleasePublicIP(c) \/ InmemAssociatePublicIP(c)
             \/ InmemDisassociatePublicIP(c)
       \/ /\ backend = "k8s"
          /\ \/ K8sCreateNetwork(c) \/ K8sDeleteNetwork(c)
             \/ K8sCreateSecurityGroup(c) \/ K8sDeleteSecurityGroup(c)
             \/ K8sAddRule(c) \/ K8sRemoveRule(c) \/ addDomainRule(c)
             \/ removeDomainRule(c) \/ K8sNoSubnets(c) \/ K8sNoAddresses(c)
       \/ /\ backend = "gcp"
          /\ \/ GcpCreateNetwork(c) \/ GcpDeleteNetwork(c) \/ GcpCreateSubnet(c)
             \/ GcpDeleteSubnet(c) \/ GcpCreateSecurityGroup(c)
             \/ GcpDeleteSecurityGroup(c) \/ GcpAddRule(c) \/ GcpRemoveRule(c)
             \/ GcpPatchAdding(c) \/ GcpPatchRemoving(c) \/ GcpAllocatePublicIP(c)
             \/ GcpGetsAddress(c) \/ GcpReleasePublicIP(c)
             \/ GcpAssociatePublicIP(c) \/ GcpDisassociatePublicIP(c)
       \/ /\ backend = "azure"
          /\ \/ AzureCreateNetwork(c) \/ AzureDeleteNetwork(c)
             \/ AzureCreateSubnet(c) \/ AzureDeleteSubnet(c)
             \/ AzureCreateSecurityGroup(c) \/ AzureDeleteSecurityGroup(c)
             \/ AzureAddRule(c) \/ AzureRemoveRule(c) \/ AzureAllocatePublicIP(c)
             \/ AzureReleasePublicIP(c) \/ AzureAssociatePublicIP(c)
             \/ AzureDisassociatePublicIP(c)
       \/ /\ backend = "aws"
          /\ \/ AwsCreateNetwork(c) \/ AwsDeleteNetwork(c) \/ AwsCreateSubnet(c)
             \/ AwsDeleteSubnet(c) \/ AwsCreateSecurityGroup(c)
             \/ AwsDeleteSecurityGroup(c) \/ AwsAddRule(c) \/ AwsRemoveRule(c)
             \/ AwsAllocatePublicIP(c) \/ AwsReleasePublicIP(c)
             \/ AwsAssociatePublicIP(c) \/ AwsDisassociatePublicIP(c)
             \/ AwsDissolves(c)

NetworkNext ==
    /\ service \in {"network", "address", "firewall", "group"}
    /\ \E c \in Clients :
        \/ NetworkRequests(c) \/ AddressRequests(c) \/ FirewallRequests(c) \/ GroupRequests(c)
        \/ NetworkCall(c)
        \/ Dies(c) /\ UNCHANGED netVars

NetworkSpec == ShimInit /\ NetworkInit /\ [][NetworkNext]_<<shimVars, netVars>>

-----------------------------------------------------------------------------
(* Properties *)

\* What the body of a firewall request asks for: every port of every entry.
AskedPorts(allow) == IF allow.ports = <<>> THEN {<<0, 0>>} ELSE Members(allow.ports)
AskedFor(allow, as) ==
    {<<[dir |-> "in", proto |-> allow.proto, from |-> port[1], to |-> port[2]], a>> :
        port \in AskedPorts(allow), a \in Members(as)}
WholeBody(body) == UNION {AskedFor(body[1][i], body[2]) : i \in DOMAIN body[1]}
OnePortEach(body) == \A i \in DOMAIN body[1] : Len(body[1][i].ports) <= 1
\* A policy keeps these rules as they are asked for.
Expressible(rules) == backend = "k8s" => \A r \in rules : PolicyRule(r) = r
\* A Compute Engine firewall that a request which ran alone has inserted or
\* patched, no discarded call having failed, allows nothing that its body does
\* not ask for, whatever requests came before, and all it asks for if no entry
\* names several ports (of which the frontend reads the first).  Claimed of
\* inmem, aws and k8s, where a policy can express what is asked for: on gcp and
\* azure a patch leaves old rules in force.
FirewallAsAsked ==
    /\ service = "firewall"
    /\ answer # None
    /\ backend \in {"inmem", "k8s", "aws"}
    /\ Expressible(WholeBody(answer.want))
    => \A g \in GroupById(answer.of) :
         LET allows == {r \in InForce(g) : Inbound(r)} IN
         /\ allows \subseteq WholeBody(answer.want)
         /\ OnePortEach(answer.want) => allows = WholeBody(answer.want)

\* A rule whose addition was acknowledged is in force, as the backend keeps it,
\* until a call removes it or the group goes, whoever changes the group
\* meanwhile.  On k8s a removal ends the claim for every rule of the direction
\* and port, since the code takes the first of them.  Claimed of inmem, k8s and
\* aws.
GrantsKept ==
    backend \in {"inmem", "k8s", "aws"} =>
        \A gr \in granted : \E g \in GroupById(gr[1]) : gr[2] \in InForce(g)
=============================================================================
