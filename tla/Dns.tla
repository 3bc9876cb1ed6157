--------------------------------- MODULE Dns ---------------------------------
(***************************************************************************)
(* Zones and record sets (services/dns): the frontends aws_route53,        *)
(* gcp_clouddns and azure_dns over the backends inmem, coredns (one master *)
(* file a zone, edited under a lock of the zone and served by a CoreDNS    *)
(* that reloads a file when its serial changed), gcp, azure and aws.       *)
(*                                                                         *)
(* A batch of changes becomes a sequence of calls, one record set each.    *)
(* No frontend asks for a forced deletion of a zone, so that the sweep of  *)
(* its records is left out.                                                *)
(***************************************************************************)
EXTENDS Shim, Sequences

CONSTANTS
    Zones,
    UserSets,       \* record sets, named by name and type, that are not at the apex
    Delegation,     \* the one of them that is of type NS
    SetValues,      \* what a record set may hold
    MaxClock,       \* bound: seconds that pass
    MaxSerial       \* bound: the serial of a zone file

ASSUME DelegationIsUserSet == Delegation \in UserSets

VARIABLES
    hosted,     \* per zone and slot, the record sets and the serial of a hosted zone, or None
    served,     \* the copy of each zone file that CoreDNS has loaded, or None
    lineage,    \* history: the copy was loaded from the file there is now, as it was then
    clock

dnsVars == <<hosted, served, lineage, clock>>

\* Azure keeps public and private zones of one name apart, Route 53 any number of them.
Slots == 1..2
SetKeys == UserSets \cup {"NS", "SOA"}
Zone == [recs : [SetKeys -> SetValues \cup {None, "made"}], serial : Nat]

ASSUME NoneIsNoZone == None \notin Zone /\ None \notin Slots

DnsInit ==
    /\ hosted = [z \in Zones |-> [s \in Slots |-> None]]
    /\ served = [z \in Zones |-> None]
    /\ lineage = [z \in Zones |-> FALSE]
    /\ clock = 1

-----------------------------------------------------------------------------
(* What the backends keep *)

\* A new zone: the sets at the apex are there from the start.
NewZone(apex) ==
    [recs |-> [k \in SetKeys |-> IF k \in UserSets \/ ~apex THEN None ELSE "made"], serial |-> clock]
\* The zone a name stands for: the first one found.
FirstSlot(z) ==
    IF \E s \in Slots : hosted[z][s] # None
    THEN CHOOSE s \in Slots : hosted[z][s] # None /\ \A r \in Slots : hosted[z][r] # None => s <= r
    ELSE None
Changed(h, ch) == [h EXCEPT !.recs[ch.key] = ch.val]
Missing(h, ch) == h = None \/ h.recs[ch.key] = None
EmptyOf(h, user) == \A k \in user : h.recs[k] = None

\* The file is written with the next serial, or with the time if that is later.
\* Mutation: the time alone decides.
SerialIsTime(h) == IF h.recs["SOA"] = None THEN h ELSE [h EXCEPT !.serial = clock]
BumpSOASerial(h) ==
    IF h.recs["SOA"] = None THEN h
    ELSE [h EXCEPT !.serial = IF clock > @ + 1 THEN clock ELSE @ + 1]

-----------------------------------------------------------------------------
(* Requests *)

DnsSame == UNCHANGED dnsVars
DnsFails(c) == Fails(c) /\ DnsSame
DnsGoes(c, r) == Goes(c, r) /\ DnsSame
\* The hosted zone a request has resolved its name to is r.slot.
ZoneReq(op, at, z, private) ==
    [op |-> op, at |-> at, zone |-> z, private |-> private, slot |-> None]
ChangeReq(at, z, todo, wants) ==
    [op |-> "change", at |-> at, zone |-> z, todo |-> todo, wants |-> wants, slot |-> None, found |-> None]

AsksCreateZone(c) == \E z \in Zones, p \in BOOLEAN :
    Begin(c, ZoneReq("createZone", "first", z, p)) /\ DnsSame
CreateHostedZone(c) == AsksCreateZone(c)
CloudDnsCreateZone(c) == AsksCreateZone(c)
AzurePutZone(c) == AsksCreateZone(c)
\* Route 53 names a zone by an identifier, looked up among all zones first.
AsksDeleteZone(c, at) == \E z \in Zones : Begin(c, ZoneReq("deleteZone", at, z, FALSE)) /\ DnsSame
DeleteHostedZone(c) == AsksDeleteZone(c, "names")
CloudDnsDeleteZone(c) == AsksDeleteZone(c, "first")
AzureDnsDeleteZone(c) == AsksDeleteZone(c, "first")

OneChange == [key : UserSets, val : SetValues \cup {None}]
LastOf(todo) ==
    LET keys == {todo[i].key : i \in 1..Len(todo)}
        last(k) == CHOOSE i \in 1..Len(todo) :
                     todo[i].key = k /\ \A j \in 1..Len(todo) : todo[j].key = k => j <= i
    IN [k \in keys |-> todo[last(k)].val]
\* The changes of a batch in their order.
ChangeResourceRecordSets(c) ==
    \E z \in Zones, a \in OneChange, b \in OneChange \cup {None} :
      LET todo == IF b = None THEN <<a>> ELSE <<a, b>>
      IN Begin(c, ChangeReq("names", z, todo, LastOf(todo))) /\ DnsSame
\* The additions of a change, then the deletions that no addition replaces.
\* Mutation: every deletion.
EveryDeletion(add, del) == <<add, [key |-> del, val |-> None]>>
CreateChange(add, del) == IF add.key = del THEN <<add>> ELSE <<add, [key |-> del, val |-> None]>>
CloudDnsCreateChange(c) ==
    \E z \in Zones, add \in [key : UserSets, val : SetValues], del \in UserSets :
      LET wants == [k \in {add.key, del} |-> IF k = add.key THEN add.val ELSE None]
      IN Begin(c, ChangeReq("first", z, CreateChange(add, del), wants)) /\ DnsSame
\* One record set at a time: rrsets of Cloud DNS and record sets of Azure.
AsksChange(c, z, a) == Begin(c, ChangeReq("first", z, <<a>>, LastOf(<<a>>))) /\ DnsSame
Puts == [key : UserSets, val : SetValues]
Removals == [key : UserSets \cup {"SOA"}, val : {None}]
CloudDnsPutRecordSet(c) == \E z \in Zones, a \in Puts : AsksChange(c, z, a)
AzurePutRecordSet(c) == \E z \in Zones, a \in Puts : AsksChange(c, z, a)
CloudDnsDeleteRecordSet(c) == \E z \in Zones, a \in Removals : AsksChange(c, z, a)
AzureDeleteRecordSet(c) == \E z \in Zones, a \in Removals : AsksChange(c, z, a)

DnsRequests(c) ==
    /\ req[c] = Idle
    /\ \/ CreateHostedZone(c) \/ CloudDnsCreateZone(c) \/ AzurePutZone(c)
       \/ DeleteHostedZone(c) \/ CloudDnsDeleteZone(c) \/ AzureDnsDeleteZone(c)
       \/ ChangeResourceRecordSets(c) \/ CloudDnsCreateChange(c)
       \/ CloudDnsPutRecordSet(c) \/ CloudDnsDeleteRecordSet(c)
       \/ AzurePutRecordSet(c) \/ AzureDeleteRecordSet(c)

NameFromHostedZoneID(c) ==
    /\ req[c].op \in {"deleteZone", "change"} /\ req[c].at = "names"
    /\ IF FirstSlot(req[c].zone) = None THEN DnsFails(c)
       ELSE DnsGoes(c, [req[c] EXCEPT !.at = "first"])

\* A zone appears, is changed or goes.
Hosts(z, s, h) == hosted' = [hosted EXCEPT ![z][s] = h] /\ UNCHANGED <<served, lineage, clock>>
Creates(c, s, h) == Hosts(req[c].zone, s, h) /\ Ends(c, None)
Deletes(c, s) ==
    /\ hosted' = [hosted EXCEPT ![req[c].zone][s] = None]
    /\ lineage' = [lineage EXCEPT ![req[c].zone] = FALSE]
    /\ UNCHANGED <<served, clock>>
    /\ Ends(c, None)

\* The change at the head of a batch, and the rest of it.
This(c) == Head(req[c].todo)
NextChange(c) ==
    IF Len(req[c].todo) = 1 THEN Ends(c, [zone |-> req[c].zone, wants |-> req[c].wants])
    ELSE Goes(c, [req[c] EXCEPT !.todo = Tail(@), !.at = "first", !.slot = None, !.found = None])
Applies(c, s, h) == Hosts(req[c].zone, s, h) /\ NextChange(c)

-----------------------------------------------------------------------------
(* inmem and coredns: each call under a lock *)

Home(c) == hosted[req[c].zone][1]
InmemCreateZone(c) ==
    /\ Is(c, "createZone", "first", "inmem")
    /\ IF Home(c) # None THEN DnsFails(c) ELSE Creates(c, 1, NewZone(~req[c].private))
\* A delegation, being of type NS, does not keep the zone from being deleted.
InmemDeleteZone(c) ==
    /\ Is(c, "deleteZone", "first", "inmem")
    /\ IF Home(c) = None THEN DnsFails(c)
       ELSE IF EmptyOf(Home(c), UserSets \ {Delegation}) THEN Deletes(c, 1) ELSE DnsFails(c)
InmemPutRecordSet(c) ==
    /\ Is(c, "change", "first", "inmem") /\ This(c).val # None
    /\ IF Home(c) = None THEN DnsFails(c) ELSE Applies(c, 1, Changed(Home(c), This(c)))
InmemDeleteRecordSet(c) ==
    /\ Is(c, "change", "first", "inmem") /\ This(c).val = None
    /\ IF Missing(Home(c), This(c)) THEN DnsFails(c) ELSE Applies(c, 1, Changed(Home(c), This(c)))

CorednsCreateZone(c) ==
    /\ Is(c, "createZone", "first", "coredns")
    /\ IF Home(c) # None THEN DnsFails(c) ELSE Creates(c, 1, NewZone(TRUE))
CorednsDeleteZone(c) ==
    /\ Is(c, "deleteZone", "first", "coredns")
    /\ IF Home(c) = None THEN DnsFails(c)
       ELSE IF EmptyOf(Home(c), UserSets) THEN Deletes(c, 1) ELSE DnsFails(c)
Rewrites(c) ==
    /\ Home(c).serial < MaxSerial
    /\ Applies(c, 1, BumpSOASerial(Changed(Home(c), This(c))))
CorednsPutRecordSet(c) ==
    /\ Is(c, "change", "first", "coredns") /\ This(c).val # None
    /\ IF Home(c) = None THEN DnsFails(c) ELSE Rewrites(c)
\* The SOA may go as well: the file then has no serial.
CorednsDeleteRecordSet(c) ==
    /\ Is(c, "change", "first", "coredns") /\ This(c).val = None
    /\ IF Missing(Home(c), This(c)) THEN DnsFails(c) ELSE Rewrites(c)

\* CoreDNS looks at a file: one that is gone is not served, one whose serial
\* it has not loaded is loaded, one without an SOA is not.
Reload ==
    /\ backend = "coredns"
    /\ \E z \in Zones :
         LET h == hosted[z][1] IN
         /\ served' = [served EXCEPT ![z] = h]
         /\ lineage' = [lineage EXCEPT ![z] = h # None]
         /\ \/ h = None /\ served[z] # None
            \/ /\ h # None /\ h.recs["SOA"] # None
               /\ served[z] # None => served[z].serial # h.serial
    /\ UNCHANGED <<hosted, clock>>
Tick ==
    /\ backend = "coredns"
    /\ clock < MaxClock
    /\ clock' = clock + 1
    /\ UNCHANGED <<hosted, served, lineage>>

-----------------------------------------------------------------------------
(* The clouds *)

\* Cloud DNS has one zone of a name; Azure creates or updates; Route 53 always
\* creates and tags the zone afterwards.
GcpCreateZone(c) ==
    /\ Is(c, "createZone", "first", "gcp")
    /\ IF hosted[req[c].zone][1] # None THEN DnsFails(c) ELSE Creates(c, 1, NewZone(TRUE))
AzureCreateZone(c) ==
    /\ Is(c, "createZone", "first", "azure")
    /\ LET s == IF req[c].private THEN 2 ELSE 1  h == hosted[req[c].zone][s] IN
       Creates(c, s, IF h = None THEN NewZone(TRUE) ELSE h)
AwsCreateZone(c) ==
    /\ Is(c, "createZone", "first", "aws")
    /\ \E s \in Slots :
         /\ hosted[req[c].zone][s] = None
         /\ Hosts(req[c].zone, s, NewZone(TRUE))
         /\ Goes(c, [req[c] EXCEPT !.at = "tag"])
AwsApplyTags(c) == /\ Is(c, "createZone", "tag", "aws") /\ Ends(c, None) /\ DnsSame

\* A name is resolved to a zone by a call of its own, in Azure by up to two.
ResolveZoneID(c) ==
    /\ backend = "aws" /\ req[c].op \in {"deleteZone", "change"} /\ req[c].at = "first"
    /\ LET s == FirstSlot(req[c].zone)
           find == req[c].op = "change" /\ This(c).val = None
       IN IF s = None THEN DnsFails(c)
          ELSE DnsGoes(c, [req[c] EXCEPT !.slot = s, !.at = IF find THEN "find" ELSE "apply"])
AzureProbe(c, at, s) ==
    /\ backend = "azure" /\ req[c].op \in {"deleteZone", "change"} /\ req[c].at = at
    /\ IF hosted[req[c].zone][s] # None \/ (s = 2 /\ req[c].op = "deleteZone")
       THEN DnsGoes(c, [req[c] EXCEPT !.slot = s, !.at = "apply"])
       ELSE IF s = 1 THEN DnsGoes(c, [req[c] EXCEPT !.at = "private"]) ELSE DnsFails(c)
IsPrivate(c) == AzureProbe(c, "first", 1) \/ AzureProbe(c, "private", 2)

\* The clouds refuse to delete a zone that has records; Azure deletes it with them.
GcpDeleteZone(c) ==
    /\ Is(c, "deleteZone", "first", "gcp")
    /\ IF Home(c) = None THEN DnsFails(c)
       ELSE IF EmptyOf(Home(c), UserSets) THEN Deletes(c, 1) ELSE DnsFails(c)
Resolved(c) == hosted[req[c].zone][req[c].slot]
AwsDeleteZone(c) ==
    /\ Is(c, "deleteZone", "apply", "aws")
    /\ IF Resolved(c) = None THEN DnsFails(c)
       ELSE IF EmptyOf(Resolved(c), UserSets) THEN Deletes(c, req[c].slot) ELSE DnsFails(c)
AzureDeleteZone(c) ==
    /\ Is(c, "deleteZone", "apply", "azure")
    /\ IF Resolved(c) = None THEN DnsFails(c) ELSE Deletes(c, req[c].slot)

\* findRecordSet: gcp before every change, aws before a deletion, so that the
\* change can name what it replaces.
Finds(c, s) ==
    LET h == hosted[req[c].zone][s] IN
    IF h = None \/ (This(c).val = None /\ Missing(h, This(c))) THEN DnsFails(c)
    ELSE DnsGoes(c, [req[c] EXCEPT !.slot = s, !.found = h.recs[This(c).key], !.at = "apply"])
GcpFindRecordSet(c) == Is(c, "change", "first", "gcp") /\ Finds(c, 1)
AwsFindRecordSet(c) == Is(c, "change", "find", "aws") /\ Finds(c, req[c].slot)

\* The change itself.  A cloud refuses to take the sets at the apex away and,
\* where the change names what it replaces, to replace anything else.
CloudApplies(c, named) ==
    LET h == Resolved(c)  k == This(c).key IN
    IF h = None THEN DnsFails(c)
    ELSE IF (This(c).val = None /\ k \notin UserSets) \/ (named /\ h.recs[k] # req[c].found)
    THEN DnsFails(c)
    ELSE Applies(c, req[c].slot, Changed(h, This(c)))
GcpPutRecordSet(c) ==
    Is(c, "change", "apply", "gcp") /\ This(c).val # None /\ CloudApplies(c, TRUE)
GcpDeleteRecordSet(c) ==
    Is(c, "change", "apply", "gcp") /\ This(c).val = None /\ CloudApplies(c, TRUE)
AwsPutRecordSet(c) ==
    Is(c, "change", "apply", "aws") /\ This(c).val # None /\ CloudApplies(c, FALSE)
AwsDeleteRecordSet(c) ==
    Is(c, "change", "apply", "aws") /\ This(c).val = None /\ CloudApplies(c, TRUE)
\* Azure answers the deletion of a set that is not there with success.
AzureRecordSetPut(c) ==
    Is(c, "change", "apply", "azure") /\ This(c).val # None /\ CloudApplies(c, FALSE)
AzureRecordSetDelete(c) ==
    Is(c, "change", "apply", "azure") /\ This(c).val = None /\ CloudApplies(c, FALSE)

-----------------------------------------------------------------------------
DnsSteps(c) ==
    /\ req[c] # Idle
    /\ \/ NameFromHostedZoneID(c) \/ ResolveZoneID(c) \/ IsPrivate(c)
       \/ /\ backend = "inmem"
          /\ \/ InmemCreateZone(c) \/ InmemDeleteZone(c) \/ InmemPutRecordSet(c)
             \/ InmemDeleteRecordSet(c)
       \/ /\ backend = "coredns"
          /\ \/ CorednsCreateZone(c) \/ CorednsDeleteZone(c)
             \/ CorednsPutRecordSet(c) \/ CorednsDeleteRecordSet(c)
       \/ /\ backend = "gcp"
          /\ \/ GcpCreateZone(c) \/ GcpDeleteZone(c) \/ GcpFindRecordSet(c)
             \/ GcpPutRecordSet(c) \/ GcpDeleteRecordSet(c)
       \/ /\ backend = "aws"
          /\ \/ AwsCreateZone(c) \/ AwsApplyTags(c) \/ AwsDeleteZone(c)
             \/ AwsFindRecordSet(c) \/ AwsPutRecordSet(c) \/ AwsDeleteRecordSet(c)
       \/ /\ backend = "azure"
          /\ \/ AzureCreateZone(c) \/ AzureDeleteZone(c) \/ AzureRecordSetPut(c)
             \/ AzureRecordSetDelete(c)
DnsNext ==
    /\ service = "dns"
    /\ \/ \E c \in Clients : DnsRequests(c) \/ DnsSteps(c) \/ (Dies(c) /\ DnsSame)
       \/ (Reload \/ Tick) /\ UNCHANGED shimVars

DnsSpec == ShimInit /\ DnsInit /\ [][DnsNext]_<<shimVars, dnsVars>>

-----------------------------------------------------------------------------
(* Properties *)

\* CoreDNS reloads a zone only when the serial of its file changed
\* (bumpSOASerial).  As long as the file is not removed in between, a copy
\* that has the serial of the file has its records as well: no change is
\* ever hidden from CoreDNS by two writes in one second or by a serial that
\* has run ahead of the clock.  This is about the files of one shim process: two
\* would not see each other's mutex and could write one serial twice.
ServedFollows == \A z \in Zones :
    LET h == hosted[z][1] IN
    (lineage[z] /\ h # None /\ h.recs["SOA"] # None /\ served[z].serial = h.serial)
      => served[z].recs = h.recs

\* A batch that was answered with success, and that no other request
\* overlapped, is in force as a whole, on every backend: the sets it adds are
\* there, an addition is not undone by the deletion it replaces, and the
\* other sets it deletes are gone (createChange, ChangeResourceRecordSets).  The
\* zone is the first of its name, which is the one the shim finds: if there is a
\* public and a private one, a change asked of the other lands there too.
ChangeInForce ==
    (service = "dns" /\ answer # None)
      => LET s == FirstSlot(answer.zone) IN
         /\ s # None
         /\ \A k \in DOMAIN answer.wants : hosted[answer.zone][s].recs[k] = answer.wants[k]
=============================================================================
