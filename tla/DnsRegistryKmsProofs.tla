------------------------- MODULE DnsRegistryKmsProofs -------------------------
(***************************************************************************)
(* Theorems about zones, about images and about keys, each for every       *)
(* number of clients.                                                      *)
(***************************************************************************)
EXTENDS Dns, Registry, Kms, FiniteSetTheorems, TLAPS

-----------------------------------------------------------------------------
(***************************************************************************)
(* ServedFollows and ChangeInForce for every set of zones and record sets, *)
(* on every backend.                                                       *)
(*                                                                         *)
(* What CoreDNS serves of a file is never ahead of it, and the same when   *)
(* the serials are (Follows). What an undisturbed batch has still to do,   *)
(* together with what is in force, amounts to what it was asked for        *)
(* (Promised), and the zone it has found is the one its name stands for.   *)
(***************************************************************************)

Change == [key : SetKeys, val : SetValues \cup {None}]
Todo == {<<a>> : a \in Change} \cup {<<a, b>> : a \in Change, b \in Change}
ZoneReqs == [op : {"createZone", "deleteZone"}, at : {"names", "first", "private", "apply", "tag"},
             zone : Zones, private : BOOLEAN, slot : Slots \cup {None}]
ChangeReqs == [op : {"change"}, at : {"names", "first", "find", "private", "apply"}, zone : Zones,
               todo : Todo, wants : UNION {[K -> SetValues \cup {None}] : K \in SUBSET SetKeys},
               slot : Slots \cup {None}, found : SetValues \cup {None, "made"}]

DnsTypes ==
    /\ hosted \in [Zones -> [Slots -> Zone \cup {None}]]
    /\ served \in [Zones -> Zone \cup {None}]
    /\ lineage \in [Zones -> BOOLEAN]
    /\ clock \in Nat

\* A request that has got to its last call knows its zone.
DnsReqs ==
    /\ req \in [Clients -> {Idle} \cup ZoneReqs \cup ChangeReqs]
    /\ \A c \in Clients : req[c] # Idle /\ req[c].at \in {"find", "apply"} => req[c].slot \in Slots

\* Nobody else runs while somebody is alone.
Sole == alone # None => alone \in Clients /\ \A d \in Clients : d # alone => req[d] = Idle

\* A copy that stems from the file is never ahead of it, and where it is not
\* behind it is the same, unless the file has lost its SOA.
Follows == \A z \in Zones : lineage[z] =>
    /\ backend = "coredns"
    /\ hosted[z][1] # None /\ served[z] # None
    /\ served[z].serial <= hosted[z][1].serial
    /\ (served[z].serial = hosted[z][1].serial /\ hosted[z][1].recs["SOA"] # None)
         => served[z].recs = hosted[z][1].recs

\* The zone that counts among those of one name, and a set as it is in force.
First(hz) == IF hz[1] # None THEN 1 ELSE IF hz[2] # None THEN 2 ELSE None
InForce(hz, k, v) == First(hz) # None /\ hz[First(hz)].recs[k] = v

\* What a batch wants of a set is what its last change of the set does, or
\* has done.
Owed(todo, hz, wants) == \A k \in DOMAIN wants :
    IF Len(todo) = 2 /\ todo[2].key = k THEN todo[2].val = wants[k]
    ELSE IF todo[1].key = k THEN todo[1].val = wants[k]
    ELSE InForce(hz, k, wants[k])
Keeps(r, hz) == r # Idle /\ r.op = "change" =>
    /\ Owed(r.todo, hz, r.wants)
    /\ r.at \in {"find", "apply"} => First(hz) = r.slot
    /\ r.at = "private" => hz[1] = None
Promised == \A c \in Clients : alone = c => Keeps(req[c], hosted[req[c].zone])

Answered == answer # None =>
    /\ answer.zone \in Zones
    /\ First(hosted[answer.zone]) # None
    /\ \A k \in DOMAIN answer.wants : InForce(hosted[answer.zone], k, answer.wants[k])

DnsInv == DnsTypes /\ DnsReqs /\ Sole /\ Follows /\ Promised /\ Answered

-----------------------------------------------------------------------------
(* The zone a name stands for is the public one, or the other if there is   *)
(* only that.                                                               *)
LEMMA FirstSlotIs ==
    ASSUME NEW z
    PROVE  /\ hosted[z][1] # None => FirstSlot(z) = 1
           /\ hosted[z][1] = None /\ hosted[z][2] # None => FirstSlot(z) = 2
           /\ hosted[z][1] = None /\ hosted[z][2] = None => FirstSlot(z) = None
<1> DEFINE P(s) == hosted[z][s] # None /\ \A r \in Slots : hosted[z][r] # None => s <= r
<1>0. Slots = {1, 2}
  BY DEF Slots
<1>1. FirstSlot(z) = IF \E s \in Slots : hosted[z][s] # None THEN CHOOSE s \in Slots : P(s) ELSE None
  BY DEF FirstSlot
<1>2. ASSUME hosted[z][1] # None PROVE FirstSlot(z) = 1
  <2>1. P(1) /\ ~P(2)
    BY <1>0, <1>2
  <2> HIDE DEF P
  <2>2. (CHOOSE s \in Slots : P(s)) = 1
    BY <1>0, <2>1
  <2> QED BY <1>0, <1>1, <1>2, <2>2
<1>3. ASSUME hosted[z][1] = None, hosted[z][2] # None PROVE FirstSlot(z) = 2
  <2>1. ~P(1) /\ P(2)
    BY <1>0, <1>3
  <2> HIDE DEF P
  <2>2. (CHOOSE s \in Slots : P(s)) = 2
    BY <1>0, <2>1
  <2> QED BY <1>0, <1>1, <1>3, <2>2
<1>4. ASSUME hosted[z][1] = None, hosted[z][2] = None PROVE FirstSlot(z) = None
  BY <1>0, <1>1, <1>4
<1> QED BY <1>2, <1>3, <1>4

LEMMA FirstSlotIsFirst ==
    ASSUME NEW z PROVE FirstSlot(z) = First(hosted[z])
BY FirstSlotIs DEF First

LEMMA FirstFound ==
    ASSUME NEW hz
    PROVE  /\ First(hz) # None => First(hz) \in Slots /\ hz[First(hz)] # None
           /\ \A s \in Slots : hz[s] # None => First(hz) # None
BY NoneIsNoZone DEF First, Slots

(* Requests of both kinds. *)
DnsReq == ZoneReqs \cup ChangeReqs
LEMMA DnsReqKinds ==
    ASSUME DnsReqs, NEW c \in Clients, req[c] # Idle
    PROVE  /\ req[c] \in DnsReq /\ req[c].zone \in Zones
           /\ req[c].op = "change" => req[c] \in ChangeReqs
           /\ req[c].op # "change" => req[c] \in ZoneReqs
<1>1. req[c] \in DnsReq
  BY DEF DnsReqs, DnsReq
<1> QED BY <1>1 DEF DnsReq, ZoneReqs, ChangeReqs
LEMMA DnsReqNotIdle == \A r \in DnsReq : r # Idle
BY DEF DnsReq, ZoneReqs, ChangeReqs, Idle

(* The request of one client changes, and nobody becomes alone. *)
LEMMA DnsReqChanges ==
    ASSUME DnsReqs, Sole, NEW c \in Clients, NEW r \in {Idle} \cup DnsReq,
           r # Idle /\ r.at \in {"find", "apply"} => r.slot \in Slots,
           req' = [req EXCEPT ![c] = r], alone' \in {alone, None}, req[c] # Idle
    PROVE  DnsReqs' /\ Sole'
<1>1. req'[c] = r /\ \A d \in Clients : d # c => req'[d] = req[d]
  BY DEF DnsReqs
<1>2. DnsReqs'
  <2>1. req' \in [Clients -> {Idle} \cup ZoneReqs \cup ChangeReqs]
    BY DEF DnsReqs, DnsReq
  <2>2. \A d \in Clients : req'[d] # Idle /\ req'[d].at \in {"find", "apply"} => req'[d].slot \in Slots
    BY <1>1 DEF DnsReqs
  <2> QED BY <2>1, <2>2 DEF DnsReqs
<1>3. Sole'
  BY <1>1 DEF Sole
<1> QED BY <1>2, <1>3

(* A step that ends a request and leaves the zones alone. *)
LEMMA DnsFailsKeeps ==
    ASSUME DnsInv, NEW c \in Clients, req[c] # Idle, Ends(c, None), DnsSame
    PROVE  DnsInv'
<1>1. /\ req' = [req EXCEPT ![c] = Idle] /\ alone' = None /\ answer' = None
      /\ UNCHANGED <<hosted, served, lineage, clock, backend>>
  BY DEF Ends, DnsSame, dnsVars
<1>2. DnsReqs' /\ Sole'
  BY <1>1, DnsReqChanges DEF DnsInv
<1>3. DnsTypes' /\ Follows'
  BY <1>1 DEF DnsInv, DnsTypes, Follows
<1>4. Promised' /\ Answered'
  BY <1>1, NoneIsNoClient DEF Promised, Answered
<1> QED BY <1>2, <1>3, <1>4 DEF DnsInv

(* A step that reads. *)
LEMMA DnsGoesKeeps ==
    ASSUME DnsInv, NEW c \in Clients, req[c] # Idle, NEW r \in DnsReq, DnsGoes(c, r),
           r.at \in {"find", "apply"} => r.slot \in Slots,
           alone = c => Keeps(r, hosted[r.zone])
    PROVE  DnsInv'
<1>1. /\ req' = [req EXCEPT ![c] = r] /\ alone' = alone /\ answer' = None
      /\ UNCHANGED <<hosted, served, lineage, clock, backend>>
  BY DEF DnsGoes, Goes, DnsSame, dnsVars
<1>2. DnsReqs' /\ Sole'
  BY <1>1, DnsReqChanges DEF DnsInv
<1>3. DnsTypes' /\ Follows'
  BY <1>1 DEF DnsInv, DnsTypes, Follows
<1>4. Promised'
  <2> SUFFICES ASSUME NEW d \in Clients, alone = d PROVE Keeps(req'[d], hosted[req'[d].zone])
    BY <1>1 DEF Promised
  <2>1. d = c
    BY NoneIsNoClient DEF DnsInv, Sole
  <2>2. req'[d] = r
    BY <1>1, <2>1 DEF DnsInv, DnsReqs
  <2> QED BY <2>1, <2>2
<1>5. Answered'
  BY <1>1 DEF Answered
<1> QED BY <1>2, <1>3, <1>4, <1>5 DEF DnsInv

(* A request comes. *)
LEMMA DnsBeginKeeps ==
    ASSUME DnsInv, NEW c \in Clients, NEW r \in DnsReq, Begin(c, r), DnsSame, r.at \in {"names", "first"},
           r.op = "change" => \A k \in DOMAIN r.wants :
               IF Len(r.todo) = 2 /\ r.todo[2].key = k THEN r.todo[2].val = r.wants[k]
               ELSE r.todo[1].key = k /\ r.todo[1].val = r.wants[k]
    PROVE  DnsInv'
<1>1. /\ req' = [req EXCEPT ![c] = r] /\ answer' = None
      /\ alone' = IF Running(c) = {} THEN c ELSE None
      /\ UNCHANGED <<hosted, served, lineage, clock, backend>>
  BY DEF Begin, DnsSame, dnsVars
<1>2. req'[c] = r /\ \A d \in Clients : d # c => req'[d] = req[d]
  BY <1>1 DEF DnsInv, DnsReqs
<1>3. DnsReqs'
  <2>1. req' \in [Clients -> {Idle} \cup ZoneReqs \cup ChangeReqs]
    BY <1>1 DEF DnsInv, DnsReqs, DnsReq
  <2>2. \A d \in Clients : req'[d] # Idle /\ req'[d].at \in {"find", "apply"} => req'[d].slot \in Slots
    BY <1>2 DEF DnsInv, DnsReqs
  <2> QED BY <2>1, <2>2 DEF DnsReqs
<1>4. Sole'
  BY <1>1, <1>2, NoneIsNoClient DEF Sole, Running
<1>5. DnsTypes' /\ Follows'
  BY <1>1 DEF DnsInv, DnsTypes, Follows
<1>6. Promised'
  <2>1. Keeps(r, hosted[r.zone])
    BY DEF Keeps, Owed
  <2> SUFFICES ASSUME NEW d \in Clients, alone' = d PROVE Keeps(req'[d], hosted[req'[d].zone])
    BY <1>1 DEF Promised
  <2> QED BY <1>1, <1>2, <2>1, NoneIsNoClient
<1>7. Answered'
  BY <1>1 DEF Answered
<1> QED BY <1>3, <1>4, <1>5, <1>6, <1>7 DEF DnsInv

-----------------------------------------------------------------------------
(* A zone appears or is changed; one that CoreDNS serves does not fall      *)
(* behind.                                                                  *)
LEMMA HostsKeeps ==
    ASSUME DnsTypes, Follows, NEW z \in Zones, NEW s \in Slots, NEW h \in Zone, Hosts(z, s, h),
           backend' = backend,
           lineage[z] /\ s = 1 =>
               /\ served[z].serial <= h.serial
               /\ served[z].serial = h.serial /\ h.recs["SOA"] # None => served[z].recs = h.recs
    PROVE  DnsTypes' /\ Follows'
<1>1. /\ hosted' = [hosted EXCEPT ![z] = [hosted[z] EXCEPT ![s] = h]]
      /\ UNCHANGED <<served, lineage, clock>> /\ 1 \in Slots
  BY DEF Hosts, Slots
<1>2. /\ hosted'[z][s] = h /\ \A t \in Slots : t # s => hosted'[z][t] = hosted[z][t]
      /\ \A y \in Zones : y # z => hosted'[y] = hosted[y]
  BY <1>1 DEF DnsTypes
<1>3. DnsTypes'
  BY <1>1 DEF DnsTypes
<1>4. h # None
  BY NoneIsNoZone
<1>5. Follows'
  <2> SUFFICES ASSUME NEW y \in Zones, lineage[y]
               PROVE  /\ backend = "coredns"
                      /\ hosted'[y][1] # None /\ served[y] # None
                      /\ served[y].serial <= hosted'[y][1].serial
                      /\ (served[y].serial = hosted'[y][1].serial /\ hosted'[y][1].recs["SOA"] # None)
                           => served[y].recs = hosted'[y][1].recs
    BY <1>1 DEF Follows
  <2>1. CASE y = z /\ s = 1
    BY <1>2, <1>4, <2>1 DEF Follows
  <2>2. CASE ~(y = z /\ s = 1)
    <3>1. hosted'[y][1] = hosted[y][1]
      BY <1>1, <1>2, <2>2
    <3> QED BY <3>1 DEF Follows
  <2> QED BY <2>1, <2>2
<1> QED BY <1>3, <1>5

(* Nobody is alone and nothing was answered: nothing is promised. *)
LEMMA NothingPromised ==
    ASSUME alone' = None, answer' = None PROVE Promised' /\ Answered'
BY NoneIsNoClient DEF Promised, Answered

LEMMA NewZoneIsZone == ASSUME clock \in Nat, NEW apex \in BOOLEAN PROVE NewZone(apex) \in Zone
BY DEF NewZone, Zone, SetKeys

(* A zone is created where there was none, or put again as it is. *)
LEMMA CreatesKeeps ==
    ASSUME DnsInv, NEW c \in Clients, req[c] # Idle, NEW s \in Slots, NEW h \in Zone,
           Hosts(req[c].zone, s, h), Ends(c, None),
           hosted[req[c].zone][s] = None \/ backend # "coredns"
    PROVE  DnsInv'
<1>1. /\ req' = [req EXCEPT ![c] = Idle] /\ alone' = None /\ answer' = None /\ backend' = backend
  BY DEF Ends
<1>2. DnsReqs' /\ Sole'
  BY <1>1, DnsReqChanges DEF DnsInv
<1>3. req[c].zone \in Zones
  BY DnsReqKinds DEF DnsInv
<1>4. ~(lineage[req[c].zone] /\ s = 1)
  BY <1>3 DEF DnsInv, Follows
<1>5. DnsTypes' /\ Follows'
  BY <1>1, <1>3, <1>4, HostsKeeps DEF DnsInv
<1> QED BY <1>1, <1>2, <1>5, NothingPromised DEF DnsInv

(* A zone goes, and with it the file its copy stems from. *)
LEMMA DeletesKeeps ==
    ASSUME DnsInv, NEW c \in Clients, req[c] # Idle, NEW s \in Slots, Deletes(c, s)
    PROVE  DnsInv'
<1>0. /\ req' = [req EXCEPT ![c] = Idle] /\ alone' = None /\ answer' = None /\ backend' = backend
  BY DEF Deletes, Ends
<1>1. DnsReqs' /\ Sole'
  BY <1>0, DnsReqChanges DEF DnsInv
<1> DEFINE z == req[c].zone
<1>2. z \in Zones
  BY DnsReqKinds DEF DnsInv
<1>3. /\ hosted' = [hosted EXCEPT ![z] = [hosted[z] EXCEPT ![s] = None]]
      /\ lineage' = [lineage EXCEPT ![z] = FALSE] /\ UNCHANGED <<served, clock>>
  BY DEF Deletes
<1> HIDE DEF z
<1>4. DnsTypes'
  BY <1>2, <1>3 DEF DnsInv, DnsTypes
<1>5. /\ ~lineage'[z]
      /\ \A y \in Zones : y # z => hosted'[y] = hosted[y] /\ lineage'[y] = lineage[y]
  BY <1>2, <1>3 DEF DnsInv, DnsTypes
<1>6. Follows'
  BY <1>0, <1>3, <1>5 DEF DnsInv, Follows
<1> QED BY <1>0, <1>1, <1>4, <1>6, NothingPromised DEF DnsInv

(* The sequences of changes. *)
LEMMA TodoShape ==
    ASSUME NEW t \in Todo
    PROVE  /\ t[1] \in Change /\ Head(t) = t[1]
           /\ Len(t) # 1 => /\ Len(t) = 2 /\ t[2] \in Change
                            /\ Tail(t) \in Todo /\ Len(Tail(t)) = 1 /\ Tail(t)[1] = t[2]
<1>1. CASE \E a \in Change : t = <<a>>
  BY <1>1
<1>2. CASE \E a \in Change, b \in Change : t = <<a, b>>
  <2>1. PICK a \in Change, b \in Change : t = <<a, b>>
    BY <1>2
  <2>2. Tail(t) = <<b>> /\ Head(t) = a /\ Len(t) = 2 /\ t[1] = a /\ t[2] = b
    BY <2>1
  <2> QED BY <2>2 DEF Todo
<1> QED BY <1>1, <1>2 DEF Todo

(* What the next change of a batch does to the zone that counts. *)
LEMMA ChangeHonoured ==
    ASSUME NEW t \in Todo, NEW hz, NEW gz, NEW w, Owed(t, hz, w),
           First(hz) # None, First(gz) = First(hz),
           \A k \in DOMAIN w : gz[First(gz)].recs[k] =
               IF k = t[1].key THEN t[1].val ELSE hz[First(hz)].recs[k]
    PROVE  /\ Len(t) = 1 => \A k \in DOMAIN w : InForce(gz, k, w[k])
           /\ Len(t) # 1 => Owed(Tail(t), gz, w)
<1>1. ASSUME NEW k \in DOMAIN w, ~(Len(t) = 2 /\ t[2].key = k) PROVE InForce(gz, k, w[k])
  BY <1>1 DEF Owed, InForce
<1>2. CASE Len(t) = 1
  BY <1>1, <1>2
<1>3. CASE Len(t) # 1
  <2>1. Len(t) = 2 /\ Len(Tail(t)) = 1 /\ Tail(t)[1] = t[2]
    BY <1>3, TodoShape
  <2>2. ASSUME NEW k \in DOMAIN w, t[2].key = k PROVE t[2].val = w[k]
    BY <2>1, <2>2 DEF Owed
  <2> QED BY <1>1, <2>1, <2>2 DEF Owed
<1> QED BY <1>2, <1>3

(* A change is applied to the zone a request has found. *)
LEMMA AppliesKeeps ==
    ASSUME DnsInv, NEW c \in Clients, req[c] # Idle, req[c].op = "change",
           NEW s \in Slots, NEW h \in Zone, Applies(c, s, h),
           hosted[req[c].zone][s] # None,
           h.recs = [hosted[req[c].zone][s].recs EXCEPT ![This(c).key] = This(c).val],
           alone = c => First(hosted[req[c].zone]) = s,
           lineage[req[c].zone] /\ s = 1 =>
               /\ served[req[c].zone].serial <= h.serial
               /\ served[req[c].zone].serial = h.serial /\ h.recs["SOA"] # None
                    => served[req[c].zone].recs = h.recs
    PROVE  DnsInv'
<1> DEFINE z == req[c].zone
           t == req[c].todo
           w == req[c].wants
           q == [req[c] EXCEPT !.todo = Tail(@), !.at = "first", !.slot = None, !.found = None]
<1>1. /\ req[c] \in ChangeReqs /\ z \in Zones /\ t \in Todo /\ t[1] = This(c) /\ t[1] \in Change
      /\ DOMAIN w \subseteq SetKeys
  <2>1. req[c] \in ChangeReqs
    BY DnsReqKinds DEF DnsInv
  <2>2. z \in Zones /\ t \in Todo /\ w \in UNION {[K -> SetValues \cup {None}] : K \in SUBSET SetKeys}
    BY <2>1 DEF ChangeReqs
  <2>3. DOMAIN w \subseteq SetKeys
    BY <2>2
  <2> QED BY <2>1, <2>2, <2>3, TodoShape DEF This
<1>2. Hosts(z, s, h) /\ backend' = backend
  BY DEF Applies, NextChange, Ends, Goes
<1>3. /\ DnsTypes' /\ Follows'
      /\ hosted'[z][s] = h /\ \A r \in Slots : r # s => hosted'[z][r] = hosted[z][r]
  <2>1. lineage[z] /\ s = 1 =>
          /\ served[z].serial <= h.serial
          /\ served[z].serial = h.serial /\ h.recs["SOA"] # None => served[z].recs = h.recs
    OBVIOUS
  <2>2. z \in Zones /\ DnsTypes /\ Follows
    BY <1>1 DEF DnsInv
  <2> HIDE DEF z, t, w, q
  <2>3. DnsTypes' /\ Follows'
    BY <1>2, <2>1, <2>2, HostsKeeps
  <2>4. hosted'[z][s] = h /\ \A r \in Slots : r # s => hosted'[z][r] = hosted[z][r]
    BY <1>2, <2>2 DEF Hosts, DnsTypes
  <2> QED BY <2>3, <2>4
<1>4. First(hosted'[z]) = First(hosted[z]) /\ First(hosted[z]) # None
  <2>1. hosted'[z][s] # None /\ Slots = {1, 2} /\ 1 # None /\ 2 # None
    BY <1>3, NoneIsNoZone DEF Slots
  <2>2. (hosted'[z][1] # None <=> hosted[z][1] # None) /\ (hosted'[z][2] # None <=> hosted[z][2] # None)
    BY <1>3, <2>1
  <2> QED BY <2>1, <2>2 DEF First
<1>5. ASSUME alone = c
      PROVE  \A k \in DOMAIN w : hosted'[z][s].recs[k] =
                 IF k = t[1].key THEN t[1].val ELSE hosted[z][s].recs[k]
  <2>1. hosted[z][s] \in Zone
    BY <1>1 DEF DnsInv, DnsTypes
  <2>2. hosted[z][s].recs \in [SetKeys -> SetValues \cup {None, "made"}]
    BY <2>1 DEF Zone
  <2> QED BY <1>1, <1>3, <2>2
<1>6. ASSUME alone = c
      PROVE  /\ Len(t) = 1 => \A k \in DOMAIN w : InForce(hosted'[z], k, w[k])
             /\ Len(t) # 1 => Owed(Tail(t), hosted'[z], w)
  <2>1. Owed(t, hosted[z], w)
    BY <1>6 DEF DnsInv, Promised, Keeps
  <2>2. First(hosted[z]) = s /\ First(hosted'[z]) = s /\ s # None
    BY <1>4, <1>6
  <2>3. \A k \in DOMAIN w : hosted'[z][First(hosted'[z])].recs[k] =
            IF k = t[1].key THEN t[1].val ELSE hosted[z][First(hosted[z])].recs[k]
    BY <1>5, <1>6, <2>2
  <2> DEFINE hz == hosted[z]
             gz == hosted'[z]
  <2>4. t \in Todo /\ Owed(t, hz, w) /\ First(hz) # None /\ First(gz) = First(hz)
    BY <1>1, <2>1, <2>2
  <2>5. \A k \in DOMAIN w : gz[First(gz)].recs[k] =
            IF k = t[1].key THEN t[1].val ELSE hz[First(hz)].recs[k]
    BY <2>3
  <2>6. /\ Len(t) = 1 => \A k \in DOMAIN w : InForce(gz, k, w[k])
        /\ Len(t) # 1 => Owed(Tail(t), gz, w)
    <3> HIDE DEF t, w, z, hz, gz
    <3> QED BY <2>4, <2>5, ChangeHonoured
  <2> QED BY <2>6
<1>7. CASE Len(t) = 1
  <2> DEFINE a == [zone |-> z, wants |-> w]
  <2>1. /\ req' = [req EXCEPT ![c] = Idle] /\ alone' = None
        /\ answer' = IF alone = c THEN a ELSE None
    BY <1>7 DEF Applies, NextChange, Ends
  <2>2. DnsReqs' /\ Sole'
    BY <2>1, DnsReqChanges DEF DnsInv
  <2>3. Promised'
    BY <2>1, NoneIsNoClient DEF Promised
  <2>4. a.zone = z /\ a.wants = w
    OBVIOUS
  <2> HIDE DEF a
  <2>5. ASSUME alone # c PROVE Answered'
    BY <2>1, <2>5 DEF Answered
  <2>6. ASSUME alone = c PROVE Answered'
    <3>1. answer' = a
      BY <2>1, <2>6
    <3>2. /\ z \in Zones /\ First(hosted'[z]) # None
          /\ \A k \in DOMAIN w : InForce(hosted'[z], k, w[k])
      BY <1>1, <1>4, <1>6, <1>7, <2>6
    <3> HIDE DEF z, w
    <3> QED BY <3>1, <3>2, <2>4 DEF Answered, InForce, First
  <2> QED BY <1>3, <2>2, <2>3, <2>5, <2>6 DEF DnsInv
<1>8. CASE Len(t) # 1
  <2>1. req' = [req EXCEPT ![c] = q] /\ alone' = alone /\ answer' = None
    BY <1>8 DEF Applies, NextChange, Goes
  <2>2. Tail(t) \in Todo
    BY <1>1, <1>8, TodoShape
  <2>3. /\ q \in ChangeReqs /\ q.at = "first" /\ q.zone = z /\ q.todo = Tail(t) /\ q.wants = w
        /\ q.op = "change"
    BY <1>1, <2>2 DEF ChangeReqs
  <2> HIDE DEF q
  <2>4. DnsReqs' /\ Sole'
    BY <2>1, <2>3, DnsReqChanges DEF DnsInv, DnsReq
  <2>5. Answered'
    BY <2>1 DEF Answered
  <2>6. Promised'
    <3> SUFFICES ASSUME NEW d \in Clients, alone = d PROVE Keeps(req'[d], hosted'[req'[d].zone])
      BY <2>1 DEF Promised, Keeps, Owed, InForce, First
    <3>1. d = c
      BY NoneIsNoClient DEF DnsInv, Sole
    <3>2. req'[d] = q
      BY <2>1, <3>1 DEF DnsInv, DnsReqs
    <3>3. Owed(q.todo, hosted'[q.zone], q.wants)
      BY <1>6, <1>8, <2>3, <3>1
    <3> QED BY <2>3, <3>2, <3>3 DEF Keeps
  <2> QED BY <1>3, <2>4, <2>5, <2>6 DEF DnsInv
<1> QED BY <1>7, <1>8

(* What a change makes of a zone. *)
LEMMA ChangedIsZone ==
    ASSUME NEW h \in Zone, NEW ch \in Change
    PROVE  /\ Changed(h, ch) \in Zone /\ Changed(h, ch).serial = h.serial
           /\ Changed(h, ch).recs = [h.recs EXCEPT ![ch.key] = ch.val]
BY DEF Zone, Change, Changed
(* The serial only grows, and does so unless there is no SOA. *)
LEMMA BumpIsZone ==
    ASSUME NEW h \in Zone, clock \in Nat
    PROVE  /\ BumpSOASerial(h) \in Zone /\ BumpSOASerial(h).recs = h.recs
           /\ BumpSOASerial(h).serial >= h.serial
           /\ h.recs["SOA"] # None => BumpSOASerial(h).serial > h.serial
BY DEF Zone, BumpSOASerial

(* A change by a call under a lock: inmem and coredns. *)
LEMMA HomeChanges ==
    ASSUME DnsInv, NEW c \in Clients, req[c] # Idle, req[c].op = "change",
           \/ InmemPutRecordSet(c) \/ InmemDeleteRecordSet(c)
           \/ CorednsPutRecordSet(c) \/ CorednsDeleteRecordSet(c)
    PROVE  DnsInv'
<1>0. req[c].zone \in Zones /\ This(c) \in Change /\ 1 \in Slots
  <2>1. req[c] \in ChangeReqs
    BY DnsReqKinds DEF DnsInv
  <2> QED BY <2>1, TodoShape DEF ChangeReqs, This, Slots
<1>1. CASE DnsFails(c)
  BY <1>1, DnsFailsKeeps DEF DnsFails, Fails
<1>2. CASE ~DnsFails(c) /\ (InmemPutRecordSet(c) \/ InmemDeleteRecordSet(c))
  <2>1. Home(c) # None /\ Applies(c, 1, Changed(Home(c), This(c))) /\ backend = "inmem"
    BY <1>2 DEF InmemPutRecordSet, InmemDeleteRecordSet, Missing, Is
  <2>2. Home(c) \in Zone /\ ~lineage[req[c].zone] /\ First(hosted[req[c].zone]) = 1
    BY <1>0, <2>1 DEF DnsInv, DnsTypes, Follows, Home, First
  <2>3. Changed(Home(c), This(c)) \in Zone
        /\ Changed(Home(c), This(c)).recs = [Home(c).recs EXCEPT ![This(c).key] = This(c).val]
    BY <1>0, <2>2, ChangedIsZone
  <2> QED BY <1>0, <2>1, <2>2, <2>3, AppliesKeeps DEF Home
<1>3. CASE ~DnsFails(c) /\ (CorednsPutRecordSet(c) \/ CorednsDeleteRecordSet(c))
  <2> DEFINE z == req[c].zone
             g == Changed(Home(c), This(c))
             h == BumpSOASerial(g)
  <2>1. Home(c) # None /\ Applies(c, 1, h)
    BY <1>3 DEF CorednsPutRecordSet, CorednsDeleteRecordSet, Missing, Rewrites
  <2>2. Home(c) \in Zone /\ First(hosted[z]) = 1 /\ clock \in Nat
    BY <1>0, <2>1 DEF DnsInv, DnsTypes, Home, First
  <2>3. /\ g \in Zone /\ g.serial = Home(c).serial
        /\ g.recs = [Home(c).recs EXCEPT ![This(c).key] = This(c).val]
    BY <1>0, <2>2, ChangedIsZone
  <2> HIDE DEF g
  <2>4. /\ h \in Zone /\ h.recs = g.recs /\ h.serial >= g.serial
        /\ g.recs["SOA"] # None => h.serial > g.serial
    BY <2>2, <2>3, BumpIsZone
  <2> HIDE DEF h
  <2>5. lineage[z] => served[z].serial <= Home(c).serial /\ served[z] \in Zone
    BY <1>0 DEF DnsInv, DnsTypes, Follows, Home
  <2>6. lineage[z] => served[z].serial <= h.serial
                      /\ (h.recs["SOA"] # None => served[z].serial # h.serial)
    BY <2>2, <2>3, <2>4, <2>5 DEF Zone
  <2> QED BY <1>0, <2>1, <2>2, <2>3, <2>4, <2>6, AppliesKeeps DEF Home
<1> QED BY <1>1, <1>2, <1>3

(* A change by a call to a cloud. *)
LEMMA CloudChanges ==
    ASSUME DnsInv, NEW c \in Clients, req[c] # Idle, req[c].op = "change", req[c].at = "apply",
           backend # "coredns", NEW named \in BOOLEAN, CloudApplies(c, named)
    PROVE  DnsInv'
<1>0. req[c].zone \in Zones /\ This(c) \in Change /\ req[c].slot \in Slots
  <2>1. req[c] \in ChangeReqs
    BY DnsReqKinds DEF DnsInv
  <2> QED BY <2>1, TodoShape DEF ChangeReqs, This, DnsInv, DnsReqs
<1>1. CASE DnsFails(c)
  BY <1>1, DnsFailsKeeps DEF DnsFails, Fails
<1>2. CASE ~DnsFails(c)
  <2>1. Resolved(c) # None /\ Applies(c, req[c].slot, Changed(Resolved(c), This(c)))
    BY <1>2 DEF CloudApplies
  <2>2. Resolved(c) \in Zone /\ ~lineage[req[c].zone]
    BY <1>0, <2>1 DEF DnsInv, DnsTypes, Follows, Resolved
  <2>3. Changed(Resolved(c), This(c)) \in Zone
        /\ Changed(Resolved(c), This(c)).recs = [Resolved(c).recs EXCEPT ![This(c).key] = This(c).val]
    BY <1>0, <2>2, ChangedIsZone
  <2>4. alone = c => First(hosted[req[c].zone]) = req[c].slot
    BY DEF DnsInv, Promised, Keeps
  <2> QED BY <1>0, <2>1, <2>2, <2>3, <2>4, AppliesKeeps DEF Resolved
<1> QED BY <1>1, <1>2

-----------------------------------------------------------------------------
(* The requests of the frontends. *)
LEMMA DnsRequestsKeep ==
    ASSUME DnsInv, NEW c \in Clients, DnsRequests(c) PROVE DnsInv'
<1>1. ASSUME NEW op \in {"createZone", "deleteZone"}, NEW at \in {"names", "first"}, NEW z \in Zones,
             NEW p \in BOOLEAN, Begin(c, ZoneReq(op, at, z, p)), DnsSame
      PROVE  DnsInv'
  <2> DEFINE r == ZoneReq(op, at, z, p)
  <2>1. r \in DnsReq /\ r.at \in {"names", "first"} /\ r.op # "change"
    BY DEF ZoneReq, DnsReq, ZoneReqs
  <2> HIDE DEF r
  <2>2. Begin(c, r)
    BY <1>1 DEF r
  <2> QED BY <1>1, <2>1, <2>2, DnsBeginKeeps
<1>2. ASSUME NEW at \in {"names", "first"}, NEW z \in Zones, NEW t \in Todo,
             NEW K \in SUBSET SetKeys, NEW w \in [K -> SetValues \cup {None}],
             \A k \in K : IF Len(t) = 2 /\ t[2].key = k THEN t[2].val = w[k]
                          ELSE t[1].key = k /\ t[1].val = w[k],
             Begin(c, ChangeReq(at, z, t, w)), DnsSame
      PROVE  DnsInv'
  <2> DEFINE r == ChangeReq(at, z, t, w)
  <2>0. w \in UNION {[J -> SetValues \cup {None}] : J \in SUBSET SetKeys}
    OBVIOUS
  <2>1. r \in DnsReq /\ r.at \in {"names", "first"} /\ r.todo = t /\ r.wants = w
    BY <2>0 DEF ChangeReq, DnsReq, ChangeReqs
  <2>2. \A k \in DOMAIN r.wants :
               IF Len(r.todo) = 2 /\ r.todo[2].key = k THEN r.todo[2].val = r.wants[k]
               ELSE r.todo[1].key = k /\ r.todo[1].val = r.wants[k]
    BY <1>2, <2>1
  <2> HIDE DEF r
  <2>3. Begin(c, r)
    BY <1>2 DEF r
  <2> QED BY <1>2, <2>1, <2>2, <2>3, DnsBeginKeeps
<1>3. ASSUME NEW a \in Change
      PROVE  /\ <<a>> \in Todo /\ Len(<<a>>) = 1 /\ <<a>>[1] = a
             /\ LastOf(<<a>>) \in [{a.key} -> SetValues \cup {None}]
             /\ LastOf(<<a>>)[a.key] = a.val /\ {a.key} \in SUBSET SetKeys
  <2> DEFINE t == <<a>>
             last(k) == CHOOSE i \in 1..Len(t) :
                          t[i].key = k /\ \A j \in 1..Len(t) : t[j].key = k => j <= i
  <2>1. t \in Todo /\ Len(t) = 1 /\ t[1] = a /\ a.key \in SetKeys /\ a.val \in SetValues \cup {None}
    BY DEF Todo, Change
  <2>2. {t[i].key : i \in 1..Len(t)} = {a.key}
    BY <2>1
  <2>3. LastOf(t) = [k \in {a.key} |-> t[last(k)].val]
    BY <2>2 DEF LastOf
  <2>4. last(a.key) = 1
    BY <2>1
  <2> HIDE DEF last, t
  <2>5. LastOf(t) \in [{a.key} -> SetValues \cup {None}] /\ LastOf(t)[a.key] = a.val
    BY <2>1, <2>3, <2>4
  <2> QED BY <2>1, <2>5 DEF t
<1>4. ASSUME NEW a \in Change, NEW b \in Change
      PROVE  /\ <<a, b>> \in Todo /\ Len(<<a, b>>) = 2 /\ <<a, b>>[1] = a /\ <<a, b>>[2] = b
             /\ LastOf(<<a, b>>) \in [{a.key, b.key} -> SetValues \cup {None}]
             /\ LastOf(<<a, b>>)[b.key] = b.val
             /\ a.key # b.key => LastOf(<<a, b>>)[a.key] = a.val
             /\ {a.key, b.key} \in SUBSET SetKeys
  <2> DEFINE t == <<a, b>>
             last(k) == CHOOSE i \in 1..Len(t) :
                          t[i].key = k /\ \A j \in 1..Len(t) : t[j].key = k => j <= i
  <2>1. /\ t \in Todo /\ Len(t) = 2 /\ t[1] = a /\ t[2] = b
        /\ a.key \in SetKeys /\ a.val \in SetValues \cup {None}
        /\ b.key \in SetKeys /\ b.val \in SetValues \cup {None}
    BY DEF Todo, Change
  <2>2. {t[i].key : i \in 1..Len(t)} = {a.key, b.key} /\ 1..Len(t) = {1, 2}
    BY <2>1
  <2>3. LastOf(t) = [k \in {a.key, b.key} |-> t[last(k)].val]
    BY <2>2 DEF LastOf
  <2>4. last(b.key) = 2
    BY <2>1, <2>2
  <2>5. a.key # b.key => last(a.key) = 1
    BY <2>1, <2>2
  <2> HIDE DEF last, t
  <2>6. /\ LastOf(t) \in [{a.key, b.key} -> SetValues \cup {None}]
        /\ LastOf(t)[b.key] = b.val /\ (a.key # b.key => LastOf(t)[a.key] = a.val)
    BY <2>1, <2>3, <2>4, <2>5
  <2> QED BY <2>1, <2>6 DEF t
<1>5. ASSUME NEW z \in Zones, NEW a \in Change, NEW at \in {"names", "first"},
             Begin(c, ChangeReq(at, z, <<a>>, LastOf(<<a>>))), DnsSame
      PROVE  DnsInv'
  <2> DEFINE t == <<a>>
             w == LastOf(t)
             K == {a.key}
  <2>1. /\ t \in Todo /\ K \in SUBSET SetKeys /\ w \in [K -> SetValues \cup {None}]
        /\ \A k \in K : IF Len(t) = 2 /\ t[2].key = k THEN t[2].val = w[k]
                        ELSE t[1].key = k /\ t[1].val = w[k]
    BY <1>3
  <2> HIDE DEF t, w, K
  <2>2. Begin(c, ChangeReq(at, z, t, w))
    BY <1>5 DEF t, w
  <2> QED BY <1>2, <1>5, <2>1, <2>2
<1>6. ASSUME NEW z \in Zones, NEW a \in Change, NEW b \in Change,
             Begin(c, ChangeReq("names", z, <<a, b>>, LastOf(<<a, b>>))), DnsSame
      PROVE  DnsInv'
  <2> DEFINE t == <<a, b>>
             w == LastOf(t)
             K == {a.key, b.key}
  <2>1. /\ t \in Todo /\ K \in SUBSET SetKeys /\ w \in [K -> SetValues \cup {None}]
        /\ \A k \in K : IF Len(t) = 2 /\ t[2].key = k THEN t[2].val = w[k]
                        ELSE t[1].key = k /\ t[1].val = w[k]
    BY <1>4
  <2> HIDE DEF t, w, K
  <2>2. Begin(c, ChangeReq("names", z, t, w))
    BY <1>6 DEF t, w
  <2> QED BY <1>2, <1>6, <2>1, <2>2
<1>7. OneChange \subseteq Change /\ Puts \subseteq Change /\ Removals \subseteq Change
  BY DEF OneChange, Puts, Removals, Change, SetKeys
<1>8. ASSUME CreateHostedZone(c) \/ CloudDnsCreateZone(c) \/ AzurePutZone(c) PROVE DnsInv'
  BY <1>1, <1>8 DEF CreateHostedZone, CloudDnsCreateZone, AzurePutZone, AsksCreateZone
<1>9. ASSUME DeleteHostedZone(c) \/ CloudDnsDeleteZone(c) \/ AzureDnsDeleteZone(c) PROVE DnsInv'
  BY <1>1, <1>9 DEF DeleteHostedZone, CloudDnsDeleteZone, AzureDnsDeleteZone, AsksDeleteZone
<1>10. ASSUME ChangeResourceRecordSets(c) PROVE DnsInv'
  BY <1>5, <1>6, <1>7, <1>10 DEF ChangeResourceRecordSets
<1>11. ASSUME \/ CloudDnsPutRecordSet(c) \/ CloudDnsDeleteRecordSet(c)
              \/ AzurePutRecordSet(c) \/ AzureDeleteRecordSet(c)
       PROVE  DnsInv'
  BY <1>5, <1>7, <1>11 DEF CloudDnsPutRecordSet, CloudDnsDeleteRecordSet, AzurePutRecordSet,
     AzureDeleteRecordSet, AsksChange
<1>12. ASSUME CloudDnsCreateChange(c) PROVE DnsInv'
  <2>1. PICK z \in Zones, add \in Puts, del \in UserSets :
           /\ Begin(c, ChangeReq("first", z, CreateChange(add, del),
                  [k \in {add.key, del} |-> IF k = add.key THEN add.val ELSE None]))
           /\ DnsSame
    BY <1>12 DEF CloudDnsCreateChange, Puts
  <2> DEFINE K == {add.key, del}
             w == [k \in K |-> IF k = add.key THEN add.val ELSE None]
             t == CreateChange(add, del)
             b == [key |-> del, val |-> None]
  <2>2. /\ add \in Change /\ b \in Change /\ b.key = del /\ b.val = None
        /\ add.key \in SetKeys /\ del \in SetKeys /\ add.val \in SetValues
    BY DEF Puts, Change, SetKeys
  <2>3. K \in SUBSET SetKeys /\ w \in [K -> SetValues \cup {None}]
    BY <2>2
  <2>4. /\ t \in Todo
        /\ \A k \in K : IF Len(t) = 2 /\ t[2].key = k THEN t[2].val = w[k]
                        ELSE t[1].key = k /\ t[1].val = w[k]
    <3>1. CASE add.key = del
      <4>1. t = <<add>>
        BY <3>1 DEF CreateChange
      <4>2. t \in Todo /\ Len(t) = 1 /\ t[1] = add
        BY <4>1, <2>2, <1>3
      <4>3. \A k \in K : k = add.key /\ w[k] = add.val
        BY <3>1
      <4> HIDE DEF t, w, K
      <4> QED BY <4>2, <4>3
    <3>2. CASE add.key # del
      <4>1. t = <<add, b>>
        BY <3>2 DEF CreateChange
      <4>2. t \in Todo /\ Len(t) = 2 /\ t[1] = add /\ t[2] = b
        BY <4>1, <2>2 DEF Todo
      <4> HIDE DEF t, b
      <4> QED BY <4>2, <3>2, <2>2
    <3> QED BY <3>1, <3>2
  <2>5. Begin(c, ChangeReq("first", z, t, w))
    BY <2>1
  <2> HIDE DEF t, w, K
  <2> QED BY <1>2, <2>1, <2>3, <2>4, <2>5
<1> QED BY <1>8, <1>9, <1>10, <1>11, <1>12 DEF DnsRequests

(* A request moves on to its next call and knows no more than before. *)
LEMMA DnsMoves ==
    ASSUME DnsInv, NEW c \in Clients, req[c] # Idle, NEW at \in {"first", "tag"},
           at = "tag" => req[c].op # "change"
    PROVE  LET r == [req[c] EXCEPT !.at = at] IN
           /\ r \in DnsReq /\ r.at = at
           /\ alone = c => Keeps(r, hosted[r.zone])
<1> DEFINE r == [req[c] EXCEPT !.at = at]
<1>1. CASE req[c].op = "change"
  <2>1. /\ r \in ChangeReqs /\ r.at = at /\ r.zone = req[c].zone /\ r.todo = req[c].todo
        /\ r.wants = req[c].wants /\ at = "first"
    BY <1>1, DnsReqKinds DEF DnsInv, ChangeReqs
  <2> HIDE DEF r
  <2>2. alone = c => Keeps(r, hosted[r.zone])
    BY <1>1, <2>1 DEF DnsInv, Promised, Keeps
  <2> QED BY <2>1, <2>2 DEF DnsReq, r
<1>2. CASE req[c].op # "change"
  <2>1. r \in ZoneReqs /\ r.at = at /\ r.op # "change"
    BY <1>2, DnsReqKinds DEF DnsInv, ZoneReqs
  <2> HIDE DEF r
  <2>2. Keeps(r, hosted[r.zone])
    BY <2>1 DEF Keeps
  <2> QED BY <2>1, <2>2 DEF DnsReq, r
<1> QED BY <1>1, <1>2

(* A request that has found its zone knows the one that counts. *)
LEMMA DnsResolves ==
    ASSUME DnsInv, NEW c \in Clients, req[c] # Idle, NEW r, NEW s \in Slots,
           NEW at \in {"find", "apply", "private"},
           r = [req[c] EXCEPT !.slot = s, !.at = at] \/ (r = [req[c] EXCEPT !.at = at] /\ at = "private"),
           req[c].op = "deleteZone" => at # "find", req[c].op \in {"change", "deleteZone"},
           at # "private" /\ req[c].op = "change" => First(hosted[req[c].zone]) = s,
           at = "private" => hosted[req[c].zone][1] = None,
           DnsGoes(c, r)
    PROVE  DnsInv'
<1>1. CASE req[c].op = "change"
  <2>0. req[c] \in ChangeReqs
    BY <1>1, DnsReqKinds DEF DnsInv
  <2>1. /\ r \in ChangeReqs /\ r.at = at /\ r.zone = req[c].zone /\ r.todo = req[c].todo
        /\ r.wants = req[c].wants /\ (at # "private" => r.slot = s)
    <3>1. CASE r = [req[c] EXCEPT !.slot = s, !.at = at]
      BY <2>0, <3>1 DEF ChangeReqs
    <3>2. CASE r = [req[c] EXCEPT !.at = at] /\ at = "private"
      BY <2>0, <3>2 DEF ChangeReqs
    <3> QED BY <3>1, <3>2
  <2>2. alone = c => Keeps(r, hosted[r.zone])
    BY <1>1, <2>1 DEF DnsInv, Promised, Keeps
  <2> QED BY <2>1, <2>2, DnsGoesKeeps DEF DnsReq
<1>2. CASE req[c].op = "deleteZone"
  <2>1. r \in ZoneReqs /\ r.at = at /\ r.op # "change" /\ (at # "private" => r.slot = s)
    BY <1>2, DnsReqKinds DEF DnsInv, ZoneReqs
  <2>2. Keeps(r, hosted[r.zone])
    BY <2>1 DEF Keeps
  <2> QED BY <2>1, <2>2, DnsGoesKeeps DEF DnsReq
<1> QED BY <1>1, <1>2

(* The calls that look for the zone of a request. *)
LEMMA DnsLooks ==
    ASSUME DnsInv, NEW c \in Clients, req[c] # Idle,
           NameFromHostedZoneID(c) \/ ResolveZoneID(c) \/ IsPrivate(c)
    PROVE  DnsInv'
<1>1. CASE DnsFails(c)
  BY <1>1, DnsFailsKeeps DEF DnsFails, Fails
<1>2. CASE ~DnsFails(c) /\ NameFromHostedZoneID(c)
  <2> DEFINE r == [req[c] EXCEPT !.at = "first"]
  <2>1. DnsGoes(c, r)
    BY <1>2 DEF NameFromHostedZoneID
  <2>2. r \in DnsReq /\ r.at = "first" /\ (alone = c => Keeps(r, hosted[r.zone]))
    BY DnsMoves
  <2> HIDE DEF r
  <2> QED BY <2>1, <2>2, DnsGoesKeeps
<1>3. CASE ~DnsFails(c) /\ ResolveZoneID(c)
  <2> DEFINE s == FirstSlot(req[c].zone)
             find == req[c].op = "change" /\ This(c).val = None
             at == IF find THEN "find" ELSE "apply"
             r == [req[c] EXCEPT !.slot = s, !.at = at]
  <2>1. s # None /\ DnsGoes(c, r) /\ req[c].op \in {"deleteZone", "change"}
    BY <1>3 DEF ResolveZoneID
  <2>2. s = First(hosted[req[c].zone]) /\ s \in Slots
    BY <2>1, FirstSlotIsFirst, FirstFound
  <2>3. at \in {"find", "apply"} /\ (req[c].op = "deleteZone" => at # "find")
    OBVIOUS
  <2>4. r = [req[c] EXCEPT !.slot = s, !.at = at]
    OBVIOUS
  <2> HIDE DEF s, at, r
  <2> QED BY <2>1, <2>2, <2>3, <2>4, DnsResolves
<1>4. ASSUME NEW at \in {"first", "private"}, NEW s \in Slots, ~DnsFails(c), AzureProbe(c, at, s),
             s = 2 => at = "private"
      PROVE  DnsInv'
  <2>1. req[c].op \in {"deleteZone", "change"} /\ req[c].at = at /\ req[c].zone \in Zones
    BY <1>4, DnsReqKinds DEF AzureProbe, DnsInv
  <2>2. CASE hosted[req[c].zone][s] # None \/ (s = 2 /\ req[c].op = "deleteZone")
    <3> DEFINE r == [req[c] EXCEPT !.slot = s, !.at = "apply"]
    <3>1. DnsGoes(c, r)
      BY <1>4, <2>2 DEF AzureProbe
    <3> HIDE DEF r
    <3>2. r = [req[c] EXCEPT !.slot = s, !.at = "apply"]
      BY DEF r
    <3>3. CASE req[c].op = "deleteZone" \/ First(hosted[req[c].zone]) = s
      BY <2>1, <3>1, <3>2, <3>3, DnsResolves
    <3>4. CASE req[c].op = "change" /\ First(hosted[req[c].zone]) # s
      <4>1. s = 2 /\ hosted[req[c].zone][1] # None /\ req[c].at = "private"
        BY <1>4, <2>1, <2>2, <3>4 DEF First, Slots
      <4>2. alone # c
        BY <4>1, <3>4 DEF DnsInv, Promised, Keeps
      <4>3. r \in ChangeReqs /\ r.at = "apply" /\ r.slot = s
        BY <3>2, <3>4, DnsReqKinds DEF DnsInv, ChangeReqs
      <4> QED BY <3>1, <4>2, <4>3, DnsGoesKeeps DEF DnsReq
    <3> QED BY <2>1, <3>3, <3>4
  <2>3. CASE ~(hosted[req[c].zone][s] # None \/ (s = 2 /\ req[c].op = "deleteZone"))
    <3> DEFINE r == [req[c] EXCEPT !.at = "private"]
    <3>1. s = 1 /\ DnsGoes(c, r) /\ hosted[req[c].zone][1] = None
      BY <1>4, <2>3 DEF AzureProbe
    <3> HIDE DEF r
    <3>2. r = [req[c] EXCEPT !.at = "private"]
      BY DEF r
    <3> QED BY <2>1, <3>1, <3>2, DnsResolves
  <2> QED BY <2>2, <2>3
<1> QED BY <1>1, <1>2, <1>3, <1>4 DEF IsPrivate, Slots

LEMMA DnsFindsKeeps ==
    ASSUME DnsInv, NEW c \in Clients, req[c] # Idle, req[c].op = "change", NEW s \in Slots, Finds(c, s),
           s = 1 \/ (req[c].at = "find" /\ s = req[c].slot)
    PROVE  DnsInv'
<1>1. CASE DnsFails(c)
  BY <1>1, DnsFailsKeeps DEF DnsFails, Fails
<1>2. CASE ~DnsFails(c)
  <2> DEFINE h == hosted[req[c].zone][s]
             f == h.recs[This(c).key]
             r == [req[c] EXCEPT !.slot = s, !.found = f, !.at = "apply"]
  <2>1. h # None /\ DnsGoes(c, r)
    BY <1>2 DEF Finds
  <2>2. req[c] \in ChangeReqs /\ req[c].zone \in Zones /\ This(c) \in Change
    <3>1. req[c] \in ChangeReqs /\ req[c].zone \in Zones
      BY DnsReqKinds DEF DnsInv
    <3> QED BY <3>1, TodoShape DEF This, ChangeReqs
  <2>3. f \in SetValues \cup {None, "made"}
    <3>1. h \in Zone
      BY <2>1, <2>2 DEF DnsInv, DnsTypes
    <3> HIDE DEF h
    <3> QED BY <2>2, <3>1 DEF Zone, Change
  <2>4. alone = c => First(hosted[req[c].zone]) = s
    BY <2>1 DEF First, DnsInv, Promised, Keeps
  <2> HIDE DEF f, h
  <2>5. /\ r \in ChangeReqs /\ r.at = "apply" /\ r.slot = s /\ r.zone = req[c].zone
        /\ r.todo = req[c].todo /\ r.wants = req[c].wants /\ r.op = "change"
    BY <2>2, <2>3 DEF ChangeReqs
  <2> HIDE DEF r
  <2>6. alone = c => Keeps(r, hosted[r.zone])
    BY <2>4, <2>5 DEF DnsInv, Promised, Keeps
  <2> QED BY <2>1, <2>5, <2>6, DnsGoesKeeps DEF DnsReq
<1> QED BY <1>1, <1>2

(* Zones are created and deleted. *)
LEMMA DnsZonesKeep ==
    ASSUME DnsInv, NEW c \in Clients, req[c] # Idle,
           \/ InmemCreateZone(c) \/ CorednsCreateZone(c) \/ GcpCreateZone(c) \/ AzureCreateZone(c)
           \/ AwsCreateZone(c) \/ AwsApplyTags(c)
           \/ InmemDeleteZone(c) \/ CorednsDeleteZone(c) \/ GcpDeleteZone(c) \/ AwsDeleteZone(c)
           \/ AzureDeleteZone(c)
    PROVE  DnsInv'
<1>0. /\ req[c].zone \in Zones /\ 1 \in Slots /\ 2 \in Slots /\ clock \in Nat
      /\ req[c].op # "change" => req[c].private \in BOOLEAN
  BY DnsReqKinds DEF DnsInv, Slots, DnsTypes, ZoneReqs
<1>1. CASE DnsFails(c)
  BY <1>1, DnsFailsKeeps DEF DnsFails, Fails
<1>2. CASE ~DnsFails(c) /\ (InmemCreateZone(c) \/ CorednsCreateZone(c) \/ GcpCreateZone(c))
  <2>1. /\ hosted[req[c].zone][1] = None /\ req[c].op = "createZone"
        /\ \E apex \in BOOLEAN : Creates(c, 1, NewZone(apex))
    BY <1>2 DEF InmemCreateZone, CorednsCreateZone, GcpCreateZone, Home, Is
  <2>2. PICK apex \in BOOLEAN : Creates(c, 1, NewZone(apex))
    BY <2>1
  <2>3. NewZone(apex) \in Zone
    BY <1>0, NewZoneIsZone
  <2> QED BY <1>0, <2>1, <2>2, <2>3, CreatesKeeps DEF Creates
<1>3. CASE AzureCreateZone(c)
  <2> DEFINE s == IF req[c].private THEN 2 ELSE 1
             h == hosted[req[c].zone][s]
             g == IF h = None THEN NewZone(TRUE) ELSE h
  <2>1. Creates(c, s, g) /\ backend = "azure"
    BY <1>3 DEF AzureCreateZone, Is
  <2>2. s \in Slots
    BY <1>0
  <2>3. g \in Zone
    <3> HIDE DEF s
    <3>1. h \in Zone \cup {None}
      BY <1>0, <2>2 DEF DnsInv, DnsTypes
    <3>2. NewZone(TRUE) \in Zone
      BY <1>0, NewZoneIsZone
    <3> HIDE DEF h
    <3> QED BY <3>1, <3>2
  <2> HIDE DEF g, s
  <2> QED BY <2>1, <2>2, <2>3, CreatesKeeps DEF Creates
<1>4. CASE AwsCreateZone(c)
  <2> DEFINE r == [req[c] EXCEPT !.at = "tag"]
  <2>1. PICK s \in Slots : /\ hosted[req[c].zone][s] = None /\ Hosts(req[c].zone, s, NewZone(TRUE))
                           /\ Goes(c, r) /\ req[c].op # "change"
    BY <1>4 DEF AwsCreateZone, Is
  <2>2. r \in ZoneReqs /\ r.at = "tag" /\ r.op # "change"
    BY <2>1, DnsReqKinds DEF DnsInv, ZoneReqs
  <2> HIDE DEF r
  <2>3. ~(lineage[req[c].zone] /\ s = 1)
    BY <1>0, <2>1 DEF DnsInv, Follows
  <2>4. NewZone(TRUE) \in Zone
    BY <1>0, NewZoneIsZone
  <2>5. DnsTypes' /\ Follows'
    BY <1>0, <2>1, <2>3, <2>4, HostsKeeps DEF DnsInv, Goes
  <2>6. req' = [req EXCEPT ![c] = r] /\ alone' = alone /\ answer' = None
    BY <2>1 DEF Goes
  <2>7. DnsReqs' /\ Sole'
    BY <2>2, <2>6, DnsReqChanges DEF DnsInv, DnsReq
  <2>8. Promised' /\ Answered'
    <3>1. \A d \in Clients : alone = d => req'[d] = r
      BY <2>6, NoneIsNoClient DEF DnsInv, Sole, DnsReqs
    <3> QED BY <2>2, <2>6, <3>1 DEF Promised, Keeps, Answered
  <2> QED BY <2>5, <2>7, <2>8 DEF DnsInv
<1>5. CASE AwsApplyTags(c)
  BY <1>5, DnsFailsKeeps DEF AwsApplyTags
<1>6. CASE ~DnsFails(c) /\ (InmemDeleteZone(c) \/ CorednsDeleteZone(c) \/ GcpDeleteZone(c))
  <2>1. Deletes(c, 1)
    BY <1>6 DEF InmemDeleteZone, CorednsDeleteZone, GcpDeleteZone
  <2> QED BY <1>0, <2>1, DeletesKeeps
<1>7. CASE ~DnsFails(c) /\ (AwsDeleteZone(c) \/ AzureDeleteZone(c))
  <2>1. Deletes(c, req[c].slot) /\ req[c].at = "apply"
    BY <1>7 DEF AwsDeleteZone, AzureDeleteZone, Is
  <2>2. req[c].slot \in Slots
    BY <2>1 DEF DnsInv, DnsReqs
  <2> QED BY <2>1, <2>2, DeletesKeeps
<1> QED BY <1>1, <1>2, <1>3, <1>4, <1>5, <1>6, <1>7

(* What happens without a request: the clock and CoreDNS's look at a file. *)
LEMMA DnsBackground ==
    ASSUME DnsInv, Reload \/ Tick, UNCHANGED shimVars PROVE DnsInv'
<1>0. UNCHANGED <<hosted, req, alone, answer, backend>>
  BY DEF Reload, Tick, shimVars
<1>1. DnsReqs' /\ Sole'
  BY <1>0 DEF DnsInv, DnsReqs, Sole
<1>2. Promised' /\ Answered'
  BY <1>0 DEF DnsInv, Promised, Answered
<1>3. CASE Tick
  <2>1. DnsTypes' /\ Follows'
    BY <1>0, <1>3 DEF Tick, DnsInv, DnsTypes, Follows
  <2> QED BY <1>1, <1>2, <2>1 DEF DnsInv
<1>4. CASE Reload
  <2>1. PICK z \in Zones : /\ served' = [served EXCEPT ![z] = hosted[z][1]]
                           /\ lineage' = [lineage EXCEPT ![z] = hosted[z][1] # None]
    BY <1>4 DEF Reload
  <2>2. hosted[z][1] \in Zone \cup {None} /\ backend = "coredns" /\ clock' = clock
    BY <1>4 DEF Reload, DnsInv, DnsTypes, Slots
  <2>3. DnsTypes'
    BY <1>0, <2>1, <2>2 DEF DnsInv, DnsTypes
  <2>4. /\ served'[z] = hosted[z][1] /\ (lineage'[z] => hosted[z][1] # None)
        /\ \A y \in Zones : y # z => served'[y] = served[y] /\ lineage'[y] = lineage[y]
    BY <2>1 DEF DnsInv, DnsTypes
  <2>5. Follows'
    <3>1. hosted[z][1] # None => hosted[z][1].serial \in Nat
      BY <2>2 DEF Zone
    <3> QED BY <1>0, <2>2, <2>4, <3>1 DEF DnsInv, Follows
  <2> QED BY <1>1, <1>2, <2>3, <2>5 DEF DnsInv
<1> QED BY <1>3, <1>4

(* Every step keeps the invariant. *)
LEMMA DnsStepKeeps == DnsInv /\ [DnsNext]_<<shimVars, dnsVars>> => DnsInv'
<1> SUFFICES ASSUME DnsInv, [DnsNext]_<<shimVars, dnsVars>> PROVE DnsInv'
  OBVIOUS
<1>1. CASE UNCHANGED <<shimVars, dnsVars>>
  <2>1. UNCHANGED <<service, backend, req, alone, answer, hosted, served, lineage, clock>>
    BY <1>1 DEF shimVars, dnsVars
  <2>2. DnsTypes' /\ DnsReqs' /\ Sole'
    BY <2>1 DEF DnsInv, DnsTypes, DnsReqs, Sole
  <2>3. Follows' /\ Promised' /\ Answered'
    BY <2>1 DEF DnsInv, Follows, Promised, Answered
  <2> QED BY <2>2, <2>3 DEF DnsInv
<1>2. ASSUME NEW c \in Clients, DnsSteps(c) PROVE DnsInv'
  <2>1. req[c] # Idle
    BY <1>2 DEF DnsSteps
  <2>2. CASE NameFromHostedZoneID(c) \/ ResolveZoneID(c) \/ IsPrivate(c)
    BY <2>1, <2>2, DnsLooks
  <2>3. CASE \/ InmemCreateZone(c) \/ CorednsCreateZone(c) \/ GcpCreateZone(c) \/ AzureCreateZone(c)
             \/ AwsCreateZone(c) \/ AwsApplyTags(c)
             \/ InmemDeleteZone(c) \/ CorednsDeleteZone(c) \/ GcpDeleteZone(c) \/ AwsDeleteZone(c)
             \/ AzureDeleteZone(c)
    BY <2>1, <2>3, DnsZonesKeep
  <2>4. CASE \/ InmemPutRecordSet(c) \/ InmemDeleteRecordSet(c)
             \/ CorednsPutRecordSet(c) \/ CorednsDeleteRecordSet(c)
    <3>1. req[c].op = "change"
      BY <2>4 DEF InmemPutRecordSet, InmemDeleteRecordSet, CorednsPutRecordSet, CorednsDeleteRecordSet, Is
    <3> QED BY <2>1, <2>4, <3>1, HomeChanges
  <2>5. CASE GcpFindRecordSet(c) \/ AwsFindRecordSet(c)
    <3>1. CASE GcpFindRecordSet(c)
      BY <2>1, <3>1, DnsFindsKeeps DEF GcpFindRecordSet, Is, Slots
    <3>2. CASE AwsFindRecordSet(c)
      <4>1. req[c].op = "change" /\ req[c].at = "find" /\ Finds(c, req[c].slot)
        BY <3>2 DEF AwsFindRecordSet, Is
      <4>2. req[c].slot \in Slots
        BY <2>1, <4>1 DEF DnsInv, DnsReqs
      <4> QED BY <2>1, <4>1, <4>2, DnsFindsKeeps
    <3> QED BY <2>5, <3>1, <3>2
  <2>6. CASE \/ GcpPutRecordSet(c) \/ GcpDeleteRecordSet(c) \/ AwsPutRecordSet(c) \/ AwsDeleteRecordSet(c)
             \/ AzureRecordSetPut(c) \/ AzureRecordSetDelete(c)
    <3>1. /\ req[c].op = "change" /\ req[c].at = "apply" /\ backend # "coredns"
          /\ \E named \in BOOLEAN : CloudApplies(c, named)
      BY <2>6 DEF GcpPutRecordSet, GcpDeleteRecordSet, AwsPutRecordSet, AwsDeleteRecordSet,
         AzureRecordSetPut, AzureRecordSetDelete, Is
    <3> QED BY <2>1, <3>1, CloudChanges
  <2> QED BY <1>2, <2>2, <2>3, <2>4, <2>5, <2>6 DEF DnsSteps
<1>3. ASSUME NEW c \in Clients, Dies(c), DnsSame PROVE DnsInv'
  BY <1>3, DnsFailsKeeps DEF Dies, Fails
<1> QED BY <1>1, <1>2, <1>3, DnsRequestsKeep, DnsBackground DEF DnsNext

LEMMA DnsInvInit == ShimInit /\ DnsInit => DnsInv
<1> SUFFICES ASSUME ShimInit, DnsInit PROVE DnsInv
  OBVIOUS
<1>1. DnsTypes
  BY DEF DnsInit, DnsTypes
<1>2. DnsReqs /\ Sole
  BY DEF ShimInit, DnsReqs, Sole, Idle
<1>3. Follows
  BY DEF DnsInit, Follows
<1>4. Promised /\ Answered
  BY NoneIsNoClient DEF ShimInit, Promised, Answered
<1> QED BY <1>1, <1>2, <1>3, <1>4 DEF DnsInv

(* The invariant holds of every shim for zones. *)
THEOREM DnsInvariant == DnsSpec => []DnsInv
BY DnsInvInit, DnsStepKeeps, PTL DEF DnsSpec

(* ServedFollows: CoreDNS never misses a change of a file (bumpSOASerial). *)
THEOREM ServedAlwaysFollows == DnsSpec => []ServedFollows
<1>1. DnsInv => ServedFollows
  BY DEF DnsInv, Follows, ServedFollows
<1> QED BY <1>1, DnsInvariant, PTL

(* ChangeInForce: a batch answered with success is in force as a whole.     *)
THEOREM ChangesAlwaysInForce == DnsSpec => []ChangeInForce
<1>1. DnsInv => ChangeInForce
  BY FirstSlotIsFirst DEF DnsInv, Answered, ChangeInForce, InForce
<1> QED BY <1>1, DnsInvariant, PTL

-----------------------------------------------------------------------------
(***************************************************************************)
(* TagsResolve and DeletedIsGone for every set of clients, repositories,   *)
(* digests and tags, on every backend.                                     *)
(*                                                                         *)
(* A repository changes in five ways only: it is made, it goes, a manifest *)
(* comes (Tagged) or goes (WithoutManifest, Untagged), or a blob comes;    *)
(* one lemma for each.  That the manifest a request brings or looked up is *)
(* a digest is what the type of the requests is needed for.                *)
(*                                                                         *)
(* A deletion that goes tag by tag has, of every tag there is, either not  *)
(* yet asked or already found the manifest (SweepCovers).                  *)
(***************************************************************************)

Holding == [manifests : SUBSET Digests, tags : [ImageTags -> Digests \cup {None}], blobs : SUBSET Claims]
Resolves(h) == \A t \in ImageTags : h.tags[t] # None => h.tags[t] \in h.manifests

RepoReqs == [op : {"createRepo", "deleteRepo"}, at : {"first", "heads", "deletes", "delete", "wait"},
             repo : Repos, force : BOOLEAN, left : SUBSET ImageTags, digests : SUBSET Digests]
ImageReqs == [op : {"deleteImages"}, at : {"first", "head", "delete"}, repo : Repos, left : SUBSET References,
              digest : {None} \cup (References \X Digests)]
PutReqs == [op : {"putManifest"}, at : {"first"}, repo : Repos, ref : References, digest : Digests]
StartReqs == [op : {"startUpload"}, at : {"first"}, repo : Repos, whole : BOOLEAN]
ChunkReqs == [op : {"chunk"}, at : {"first"}, repo : Repos, id : Nat, chunk : Chunks]
CompleteReqs == [op : {"complete"}, at : {"first"}, repo : Repos, id : Nat,
                 rest : {<<>>} \cup [1..1 -> Chunks], digest : Claims]
RegistryReq ==
    RepoReqs \cup ImageReqs \cup PutReqs \cup StartReqs \cup ChunkReqs \cup CompleteReqs

RegistryTypes ==
    /\ repo \in [Repos -> {None} \cup Holding]
    /\ req \in [Clients -> {Idle} \cup RegistryReq]
RegistryInv == RegistryTypes /\ TagsResolve

\* The property in terms of one repository.
LEMMA TagsResolveIsResolves ==
    TagsResolve <=> \A r \in Repos : repo[r] # None => Resolves(repo[r])
  BY DEF TagsResolve, Resolves, TagsIn

\* A repository that is created holds nothing.
LEMMA EmptyIsSound == EmptyRepo \in Holding /\ Resolves(EmptyRepo)
  BY DEF EmptyRepo, Holding, Resolves

\* A push adds the manifest its tag then points at.
LEMMA TaggedIsSound ==
    ASSUME NEW h \in Holding, Resolves(h), NEW ref, NEW d \in Digests
    PROVE  Tagged(h, ref, d) \in Holding /\ Resolves(Tagged(h, ref, d))
<1>1. Tagged(h, ref, d).manifests = h.manifests \cup {d}
  BY DEF Tagged, Holding
<1>2. Tagged(h, ref, d).tags = [t \in ImageTags |-> IF t = ref THEN d ELSE h.tags[t]]
  BY DEF Tagged, Holding
<1>3. Tagged(h, ref, d) \in Holding
  BY DEF Tagged, Holding
<1> QED
  BY <1>1, <1>2, <1>3 DEF Resolves

\* A manifest goes with the tags that point at it.
LEMMA WithoutManifestIsSound ==
    ASSUME NEW h \in Holding, Resolves(h), NEW d
    PROVE  WithoutManifest(h, d) \in Holding /\ Resolves(WithoutManifest(h, d))
  BY DEF WithoutManifest, Holding, Resolves

\* ECR takes one tag, and the manifest with the last of its tags.
LEMMA UntaggedIsSound ==
    ASSUME NEW h \in Holding, Resolves(h), NEW t \in ImageTags
    PROVE  Untagged(h, t) \in Holding /\ Resolves(Untagged(h, t))
<1> DEFINE u == [h EXCEPT !.tags[t] = None]
<1>1. u \in Holding /\ Resolves(u)
  BY DEF Holding, Resolves
<1>2. Untagged(h, t) \in {u, WithoutManifest(h, h.tags[t])}
  BY DEF Untagged
<1> HIDE DEF u
<1> QED
  BY <1>1, <1>2, WithoutManifestIsSound

\* A blob that comes leaves manifests and tags alone.
LEMMA BlobAddedIsSound ==
    ASSUME NEW h \in Holding, Resolves(h), NEW b \in Claims
    PROVE  LET g == [h EXCEPT !.blobs = @ \cup {b}] IN g \in Holding /\ Resolves(g)
  BY DEF Holding, Resolves

\* A step that puts a sound repository in the place of one, or takes one away.
LEMMA PlacedKeeps ==
    ASSUME RegistryInv, NEW r, NEW h \in {None} \cup Holding, h # None => Resolves(h),
           repo' = [repo EXCEPT ![r] = h], req' \in [Clients -> {Idle} \cup RegistryReq]
    PROVE  RegistryInv'
<1>1. \A s \in Repos : repo'[s] = h \/ repo'[s] = repo[s]
  BY DEF RegistryInv, RegistryTypes
<1>2. RegistryTypes'
  BY DEF RegistryInv, RegistryTypes
<1>3. \A s \in Repos : repo'[s] # None => Resolves(repo'[s])
  BY <1>1, TagsResolveIsResolves DEF RegistryInv
<1>4. TagsResolve'
  BY <1>3 DEF TagsResolve, Resolves, TagsIn
<1> QED
  BY <1>2, <1>4 DEF RegistryInv

\* A step that changes requests only.
LEMMA SameKeeps ==
    ASSUME RegistryInv, UNCHANGED repo, req' \in [Clients -> {Idle} \cup RegistryReq]
    PROVE  RegistryInv'
  BY DEF RegistryInv, RegistryTypes, TagsResolve, TagsIn

\* What a push goes into is there, or is made for it.
LEMMA OrCreatedIsSound ==
    ASSUME RegistryInv, NEW r \in Repos, OrCreated(r) # None \/ MadeOnPush
    PROVE  OrCreated(r) \in Holding /\ Resolves(OrCreated(r))
  BY EmptyIsSound, TagsResolveIsResolves DEF OrCreated, RegistryInv, RegistryTypes

\* What a repository that is there holds.
LEMMA HeldIsSound ==
    ASSUME RegistryInv, NEW r \in Repos, repo[r] # None
    PROVE  repo[r] \in Holding /\ Resolves(repo[r])
  BY TagsResolveIsResolves DEF RegistryInv, RegistryTypes

\* The kind of a request is told by its operation, and all name a repository.
LEMMA ReqKinds ==
    ASSUME RegistryTypes, NEW c \in Clients, req[c] # Idle
    PROVE  /\ req[c] \in RegistryReq
           /\ req[c].repo \in Repos
           /\ req[c].op \in {"createRepo", "deleteRepo"} => req[c] \in RepoReqs
           /\ req[c].op = "deleteImages" => req[c] \in ImageReqs
           /\ req[c].op = "putManifest" => req[c] \in PutReqs
           /\ req[c].op = "startUpload" => req[c] \in StartReqs
           /\ req[c].op = "chunk" => req[c] \in ChunkReqs
           /\ req[c].op = "complete" => req[c] \in CompleteReqs
<1>1. req[c] \in RegistryReq
  BY DEF RegistryTypes
<1> QED
  BY <1>1 DEF RegistryReq, RepoReqs, ImageReqs, PutReqs, StartReqs, ChunkReqs, CompleteReqs

\* A request that is not of an operation the code knows is none.
LEMMA IdleHasNoOp ==
    \A op \in {"createRepo", "deleteRepo", "deleteImages", "putManifest", "startUpload", "chunk",
               "complete"} : Idle.op # op
  BY DEF Idle

\* A request that ends or goes on is none or a request.
LEMMA NextReqTyped ==
    ASSUME RegistryTypes, NEW c \in Clients, NEW r \in {Idle} \cup RegistryReq,
           req' = [req EXCEPT ![c] = r]
    PROVE  req' \in [Clients -> {Idle} \cup RegistryReq]
  BY DEF RegistryTypes

\* An error, and the end of a request, leave it typed.
LEMMA EndTyped ==
    ASSUME RegistryTypes, NEW c \in Clients, NEW says, Ends(c, says)
    PROVE  req' \in [Clients -> {Idle} \cup RegistryReq]
  BY NextReqTyped DEF Ends

\* A request that is refused changes nothing.
LEMMA RefusedKeeps ==
    ASSUME RegistryInv, NEW c \in Clients, Refused(c) PROVE RegistryInv'
<1>1. req' \in [Clients -> {Idle} \cup RegistryReq] /\ UNCHANGED repo
  BY EndTyped DEF RegistryInv, Refused, Fails, Same, registryVars
<1> QED
  BY <1>1, SameKeeps

\* A request that arrives changes nothing else.
LEMMA AskKeeps ==
    ASSUME RegistryInv, NEW c \in Clients, NEW r \in RegistryReq, AsksFor(c, r) PROVE RegistryInv'
<1>1. req' = [req EXCEPT ![c] = r] /\ UNCHANGED repo
  BY DEF AsksFor, Begin, Same, registryVars
<1> QED
  BY <1>1, NextReqTyped, SameKeeps DEF RegistryInv

\* A request that goes on without a change.
LEMMA GoesOnKeeps ==
    ASSUME RegistryInv, NEW c \in Clients, NEW r \in RegistryReq, GoesOn(c, r) PROVE RegistryInv'
<1>1. req' = [req EXCEPT ![c] = r] /\ UNCHANGED repo
  BY DEF GoesOn, Goes, Same, registryVars
<1> QED
  BY <1>1, NextReqTyped, SameKeeps DEF RegistryInv

\* A request that ends without a change.
LEMMA EndKeeps ==
    ASSUME RegistryInv, NEW c \in Clients, NEW says, Ends(c, says), UNCHANGED repo PROVE RegistryInv'
  BY EndTyped, SameKeeps DEF RegistryInv

\* A request that leaves the repository it names in another state and ends.
LEMMA HoldsAndEnds ==
    ASSUME RegistryInv, NEW c \in Clients, NEW says, Ends(c, says),
           NEW h \in {None} \cup Holding, h # None => Resolves(h), Holds(c, h)
    PROVE  RegistryInv'
<1>1. req' \in [Clients -> {Idle} \cup RegistryReq]
  BY EndTyped DEF RegistryInv
<1>2. repo' = [repo EXCEPT ![req[c].repo] = h]
  BY DEF Holds
<1> QED
  BY <1>1, <1>2, PlacedKeeps

\* Every request the frontends make is of a known kind.
LEMMA RequestsKeep ==
    ASSUME RegistryInv, NEW c \in Clients, RegistryRequests(c) PROVE RegistryInv'
<1>1. ASSUME NEW r \in Repos, NEW force \in BOOLEAN, NEW op \in {"createRepo", "deleteRepo"}
      PROVE  RepoReq(op, r, force) \in RegistryReq
  BY <1>1 DEF RepoReq, RegistryReq, RepoReqs
<1>2. ASSUME NEW at \in {"first", "head"}, NEW r \in Repos, NEW refs \in SUBSET References
      PROVE  ImageReq(at, r, refs) \in RegistryReq
  BY <1>2 DEF ImageReq, RegistryReq, ImageReqs
<1>3. ASSUME NEW r \in Repos, NEW ref \in References, NEW d \in Digests
      PROVE  [op |-> "putManifest", at |-> "first", repo |-> r, ref |-> ref, digest |-> d] \in RegistryReq
  BY <1>3 DEF RegistryReq, PutReqs
<1>4. ASSUME NEW r \in Repos, NEW whole \in BOOLEAN
      PROVE  [op |-> "startUpload", at |-> "first", repo |-> r, whole |-> whole] \in RegistryReq
  BY <1>4 DEF RegistryReq, StartReqs
<1>5. ASSUME NEW r \in Repos, NEW u \in 1..Len(upload), NEW b \in Chunks
      PROVE  [op |-> "chunk", at |-> "first", repo |-> r, id |-> u, chunk |-> b] \in RegistryReq
  BY <1>5 DEF RegistryReq, ChunkReqs
<1>6. ASSUME NEW r \in Repos, NEW u \in 1..Len(upload), NEW rest \in {<<>>} \cup [1..1 -> Chunks],
             NEW d \in Claims
      PROVE  CompleteReq(r, u, rest, d) \in RegistryReq
  BY <1>6 DEF RegistryReq, CompleteReq, CompleteReqs
<1>7. CASE EcrCreateRepository(c) \/ ArCreateRepo(c)
  BY <1>7, <1>1, AskKeeps DEF EcrCreateRepository, ArCreateRepo
<1>8. CASE EcrDeleteRepository(c) \/ ArDeleteRepo(c)
  BY <1>8, <1>1, AskKeeps DEF EcrDeleteRepository, ArDeleteRepo
<1>9. CASE BatchDeleteImage(c)
  BY <1>9, <1>2, AskKeeps DEF BatchDeleteImage
<1>10. CASE OciDeleteManifest(c)
  BY <1>10, <1>2, AskKeeps DEF OciDeleteManifest
<1>11. CASE OciPutManifest(c)
  BY <1>11, <1>3, AskKeeps DEF OciPutManifest
<1>12. CASE OciStartUpload(c)
  BY <1>12, <1>4, AskKeeps DEF OciStartUpload
<1>13. CASE OciPatchUpload(c)
  BY <1>13, <1>5, AskKeeps DEF OciPatchUpload
<1>14. CASE OciPutUpload(c)
  BY <1>14, <1>6, AskKeeps DEF OciPutUpload
<1> QED
  BY <1>7, <1>8, <1>9, <1>10, <1>11, <1>12, <1>13, <1>14 DEF RegistryRequests

\* A push of a manifest, on every backend.
LEMMA PutManifestKeeps ==
    ASSUME RegistryInv, NEW c \in Clients, InmemPutManifest(c) \/ DistributionPutManifest(c)
    PROVE  RegistryInv'
<1>1. req[c].op = "putManifest" /\ req[c] # Idle
  BY IdleHasNoOp DEF InmemPutManifest, DistributionPutManifest, Is
<1>2. req[c].digest \in Digests /\ req[c].repo \in Repos
  BY <1>1, ReqKinds DEF RegistryInv, PutReqs
<1> DEFINE h == OrCreated(req[c].repo)
<1>3. ASSUME h # None \/ MadeOnPush, PutsManifest(c, h) PROVE RegistryInv'
  <2>1. h \in Holding /\ Resolves(h)
    BY <1>2, <1>3, OrCreatedIsSound
  <2>2. Tagged(h, req[c].ref, req[c].digest) \in Holding /\ Resolves(Tagged(h, req[c].ref, req[c].digest))
    BY <1>2, <2>1, TaggedIsSound
  <2>3. Holds(c, Tagged(h, req[c].ref, req[c].digest)) /\ Ends(c, None)
    BY <1>3 DEF PutsManifest, Done
  <2> QED
    BY <2>2, <2>3, HoldsAndEnds
<1>4. CASE InmemPutManifest(c)
  BY <1>3, <1>4 DEF InmemPutManifest, Is, MadeOnPush
<1>5. CASE DistributionPutManifest(c)
  <2>1. Refused(c) \/ (h # None /\ PutsManifest(c, h))
    BY <1>5 DEF DistributionPutManifest
  <2> QED
    BY <2>1, <1>3, RefusedKeeps
<1> QED
  BY <1>4, <1>5

\* A session is opened in a repository that is there or is made for it.
LEMMA StartUploadKeeps ==
    ASSUME RegistryInv, NEW c \in Clients, InmemStartBlobUpload(c) \/ DistributionStartBlobUpload(c)
    PROVE  RegistryInv'
<1>1. req[c].op = "startUpload" /\ req[c] # Idle
  BY IdleHasNoOp DEF InmemStartBlobUpload, DistributionStartBlobUpload, Is
<1>2. req[c].repo \in Repos
  BY <1>1, ReqKinds DEF RegistryInv
<1> DEFINE h == OrCreated(req[c].repo)
<1>3. ASSUME h # None \/ MadeOnPush, OpensUpload(c) PROVE RegistryInv'
  <2>1. h \in Holding /\ Resolves(h)
    BY <1>2, <1>3, OrCreatedIsSound
  <2>2. repo' = [repo EXCEPT ![req[c].repo] = h]
    BY <1>3 DEF OpensUpload
  <2>3. req' \in [Clients -> {Idle} \cup RegistryReq]
    <3>1. CASE req[c].whole
      <4>1. PICK b \in Chunks : Goes(c, CompleteReq(req[c].repo, Len(upload) + 1, <<b>>, <<b>>))
        BY <1>3, <3>1 DEF OpensUpload
      <4>2. Len(upload) + 1 \in Nat
        OBVIOUS
      <4>3. <<b>> \in [1..1 -> Chunks]
        OBVIOUS
      <4>4. CompleteReq(req[c].repo, Len(upload) + 1, <<b>>, <<b>>) \in RegistryReq
        BY <1>2, <4>2, <4>3 DEF CompleteReq, RegistryReq, CompleteReqs, Claims
      <4> QED
        BY <4>1, <4>4, NextReqTyped DEF Goes, RegistryInv
    <3>2. CASE ~req[c].whole
      BY <1>3, <3>2, EndTyped DEF OpensUpload, Done, RegistryInv
    <3> QED
      BY <3>1, <3>2
  <2> QED
    BY <2>1, <2>2, <2>3, PlacedKeeps
<1>4. CASE InmemStartBlobUpload(c)
  BY <1>3, <1>4 DEF InmemStartBlobUpload, Is, MadeOnPush
<1>5. CASE DistributionStartBlobUpload(c)
  <2>1. Refused(c) \/ (h # None /\ OpensUpload(c))
    BY <1>5 DEF DistributionStartBlobUpload
  <2> QED
    BY <2>1, <1>3, RefusedKeeps
<1> QED
  BY <1>4, <1>5

\* A chunk goes into its session.
LEMMA UploadChunkKeeps ==
    ASSUME RegistryInv, NEW c \in Clients, InmemUploadChunk(c) \/ DistributionUploadChunk(c)
    PROVE  RegistryInv'
<1>1. Refused(c) \/ AppendsChunk(c)
  BY DEF InmemUploadChunk, DistributionUploadChunk
<1>2. CASE AppendsChunk(c)
  BY <1>2, EndKeeps DEF AppendsChunk, Done
<1> QED
  BY <1>1, <1>2, RefusedKeeps

\* The bytes of a session become a blob.
LEMMA CompleteKeeps ==
    ASSUME RegistryInv, NEW c \in Clients,
           InmemCompleteBlobUpload(c) \/ DistributionCompleteBlobUpload(c)
    PROVE  RegistryInv'
<1>1. req[c].op = "complete" /\ req[c] # Idle
  BY IdleHasNoOp DEF InmemCompleteBlobUpload, DistributionCompleteBlobUpload, Is
<1>2. req[c].digest \in Claims
  BY <1>1, ReqKinds DEF RegistryInv, CompleteReqs
<1>3. PICK r : Refused(c) \/ Completes(c, r)
  BY DEF InmemCompleteBlobUpload, DistributionCompleteBlobUpload
<1>4. CASE Completes(c, r) /\ ~Refused(c)
  <2> DEFINE h == [OrCreated(r) EXCEPT !.blobs = @ \cup {req[c].digest}]
  <2>1. OrCreated(r) # None /\ repo' = [repo EXCEPT ![r] = h] /\ Ends(c, None)
    BY <1>4 DEF Completes, Done
  <2>2. req' \in [Clients -> {Idle} \cup RegistryReq]
    BY <2>1, EndTyped DEF RegistryInv
  <2>3. CASE r \in Repos
    <3>1. h \in Holding /\ Resolves(h)
      BY <1>2, <2>1, <2>3, OrCreatedIsSound, BlobAddedIsSound
    <3> HIDE DEF h
    <3> QED
      BY <2>1, <2>2, <3>1, PlacedKeeps
  <2>4. CASE r \notin Repos
    <3> HIDE DEF h
    <3>1. UNCHANGED repo
      BY <2>1, <2>4 DEF RegistryInv, RegistryTypes
    <3> QED
      BY <2>2, <3>1, SameKeeps
  <2> QED
    BY <2>3, <2>4
<1> QED
  BY <1>3, <1>4, RefusedKeeps

\* A batch goes on with its next reference, or ends.
LEMMA NextImageTyped ==
    ASSUME RegistryTypes, NEW c \in Clients, req[c] # Idle, req[c].op = "deleteImages", NEW ref,
           NextImage(c, ref)
    PROVE  req' \in [Clients -> {Idle} \cup RegistryReq]
<1>1. req[c] \in ImageReqs
  BY ReqKinds
<1>2. CASE req[c].left = {ref}
  BY <1>2, EndTyped DEF NextImage, Done
<1>3. CASE req[c].left # {ref}
  <2> DEFINE r == [req[c] EXCEPT !.left = @ \ {ref}, !.at = "first", !.digest = None]
  <2>1. r \in RegistryReq
    BY <1>1 DEF ImageReqs, RegistryReq
  <2>2. req' = [req EXCEPT ![c] = r]
    BY <1>3 DEF NextImage, Goes
  <2> HIDE DEF r
  <2> QED
    BY <2>1, <2>2, NextReqTyped
<1> QED
  BY <1>2, <1>3

\* A reference that names nothing is passed over.
LEMMA PassesOverKeeps ==
    ASSUME RegistryInv, NEW c \in Clients, req[c] # Idle, req[c].op = "deleteImages", NEW ref,
           PassesOver(c, ref)
    PROVE  RegistryInv'
<1>1. req' \in [Clients -> {Idle} \cup RegistryReq]
  BY NextImageTyped DEF PassesOver, RegistryInv
<1>2. UNCHANGED repo
  BY DEF PassesOver, Same, registryVars
<1> QED
  BY <1>1, <1>2, SameKeeps

\* A deletion of an image, with the repository it leaves.
LEMMA ImageGone ==
    ASSUME RegistryInv, NEW c \in Clients, req[c] # Idle, req[c].op = "deleteImages", NEW ref,
           NEW h \in Holding, Resolves(h), Holds(c, h), NextImage(c, ref)
    PROVE  RegistryInv'
<1>1. req' \in [Clients -> {Idle} \cup RegistryReq]
  BY NextImageTyped DEF RegistryInv
<1>2. repo' = [repo EXCEPT ![req[c].repo] = h]
  BY DEF Holds
<1> QED
  BY <1>1, <1>2, PlacedKeeps

\* DeleteImage of inmem and of ECR.
LEMMA DeleteImageKeeps ==
    ASSUME RegistryInv, NEW c \in Clients, InmemDeleteImage(c) \/ EcrBackendDeleteImage(c)
    PROVE  RegistryInv'
<1>1. req[c].op = "deleteImages" /\ req[c] # Idle
  BY IdleHasNoOp DEF InmemDeleteImage, EcrBackendDeleteImage, Is
<1>2. req[c].repo \in Repos
  BY <1>1, ReqKinds DEF RegistryInv
<1> DEFINE h == repo[req[c].repo]
<1>3. h # None => h \in Holding /\ Resolves(h)
  BY <1>2, HeldIsSound
<1>4. CASE InmemDeleteImage(c)
  <2>1. PICK ref \in req[c].left :
          \/ PassesOver(c, ref)
          \/ h # None /\ Holds(c, WithoutManifest(h, Resolve(h, ref))) /\ NextImage(c, ref)
    BY <1>4 DEF InmemDeleteImage
  <2> QED
    BY <1>1, <1>3, <2>1, PassesOverKeeps, ImageGone, WithoutManifestIsSound
<1>5. CASE EcrBackendDeleteImage(c)
  <2>1. PICK ref \in req[c].left :
          \/ PassesOver(c, ref)
          \/ /\ h # None /\ NextImage(c, ref)
             /\ Holds(c, IF ref \in ImageTags THEN Untagged(h, ref) ELSE WithoutManifest(h, ref))
    BY <1>5 DEF EcrBackendDeleteImage
  <2>2. CASE PassesOver(c, ref)
    BY <1>1, <2>2, PassesOverKeeps
  <2>3. CASE /\ h # None /\ NextImage(c, ref)
             /\ Holds(c, IF ref \in ImageTags THEN Untagged(h, ref) ELSE WithoutManifest(h, ref))
    <3>1. CASE ref \in ImageTags
      <4>1. Holds(c, Untagged(h, ref))
        BY <2>3, <3>1
      <4> QED
        BY <1>1, <1>3, <2>3, <3>1, <4>1, ImageGone, UntaggedIsSound
    <3>2. CASE ref \notin ImageTags
      <4>1. Holds(c, WithoutManifest(h, ref))
        BY <2>3, <3>2
      <4> QED
        BY <1>1, <1>3, <2>3, <4>1, ImageGone, WithoutManifestIsSound
    <3> QED
      BY <3>1, <3>2
  <2> QED
    BY <2>1, <2>2, <2>3
<1> QED
  BY <1>4, <1>5

\* HeadManifest, and the deletion of the manifest it found.
LEMMA DataPlaneDeleteKeeps ==
    ASSUME RegistryInv, NEW c \in Clients, HeadManifest(c) \/ DistributionDeleteManifest(c)
    PROVE  RegistryInv'
<1>1. req[c].op = "deleteImages" /\ req[c] # Idle
  BY IdleHasNoOp DEF HeadManifest, DistributionDeleteManifest
<1>2. req[c].repo \in Repos /\ req[c] \in ImageReqs
  BY <1>1, ReqKinds DEF RegistryInv
<1> DEFINE h == repo[req[c].repo]
<1>3. h # None => h \in Holding /\ Resolves(h)
  BY <1>2, HeldIsSound
<1>4. CASE HeadManifest(c)
  <2>1. PICK ref \in req[c].left :
          \/ ref \in Digests /\ GoesOn(c, [req[c] EXCEPT !.at = "delete", !.digest = <<ref, ref>>])
          \/ PassesOver(c, ref)
          \/ /\ ref \notin Digests /\ h # None /\ h.tags[ref] # None
             /\ GoesOn(c, [req[c] EXCEPT !.at = "delete", !.digest = <<ref, h.tags[ref]>>])
    BY <1>4 DEF HeadManifest
  <2>2. ref \in References
    BY <1>2 DEF ImageReqs
  <2>3. ASSUME NEW d \in Digests
        PROVE  [req[c] EXCEPT !.at = "delete", !.digest = <<ref, d>>] \in RegistryReq
    BY <1>2, <2>2 DEF ImageReqs, RegistryReq
  <2>4. CASE ref \in Digests /\ GoesOn(c, [req[c] EXCEPT !.at = "delete", !.digest = <<ref, ref>>])
    BY <2>3, <2>4, GoesOnKeeps
  <2>5. CASE PassesOver(c, ref)
    BY <1>1, <2>5, PassesOverKeeps
  <2>6. CASE /\ ref \notin Digests /\ h # None /\ h.tags[ref] # None
             /\ GoesOn(c, [req[c] EXCEPT !.at = "delete", !.digest = <<ref, h.tags[ref]>>])
    <3>1. h.tags[ref] \in Digests
      BY <1>3, <2>2, <2>6 DEF Holding, References
    <3> QED
      BY <2>3, <2>6, <3>1, GoesOnKeeps
  <2> QED
    BY <2>1, <2>4, <2>5, <2>6
<1>5. CASE DistributionDeleteManifest(c)
  <2>1. PICK ref, d : \/ PassesOver(c, ref)
                      \/ h # None /\ Holds(c, WithoutManifest(h, d)) /\ NextImage(c, ref)
    BY <1>5 DEF DistributionDeleteManifest
  <2> QED
    BY <1>1, <1>3, <2>1, PassesOverKeeps, ImageGone, WithoutManifestIsSound
<1> QED
  BY <1>4, <1>5

\* A repository is created empty, and goes with all it holds.
LEMMA MadeAndGone ==
    ASSUME RegistryInv, NEW c \in Clients, NEW says, Ends(c, says), Holds(c, EmptyRepo) \/ Holds(c, None)
    PROVE  RegistryInv'
  BY EmptyIsSound, HoldsAndEnds

\* CreateRepository, on every backend.
LEMMA CreateKeeps ==
    ASSUME RegistryInv, NEW c \in Clients,
           \/ InmemCreateRepository(c) \/ EcrBackendCreate(c) \/ DistributionCreateRepository(c)
           \/ AcrCreateRepository(c) \/ ArBackendCreate(c) \/ ArWait(c)
    PROVE  RegistryInv'
<1>1. CASE InmemCreateRepository(c) \/ EcrBackendCreate(c)
  BY <1>1, RefusedKeeps, MadeAndGone DEF InmemCreateRepository, EcrBackendCreate, Done
<1>2. CASE DistributionCreateRepository(c) \/ AcrCreateRepository(c)
  BY <1>2, RefusedKeeps DEF DistributionCreateRepository, AcrCreateRepository
<1>3. CASE ArBackendCreate(c)
  <2>1. req[c].op = "createRepo" /\ req[c] # Idle
    BY <1>3, IdleHasNoOp DEF ArBackendCreate, Is
  <2>2. req[c] \in RepoReqs
    BY <2>1, ReqKinds DEF RegistryInv
  <2> DEFINE r == [req[c] EXCEPT !.at = "wait"]
  <2>3. r \in RegistryReq
    BY <2>2 DEF RepoReqs, RegistryReq
  <2>4. Refused(c) \/ (Holds(c, EmptyRepo) /\ Goes(c, r))
    BY <1>3 DEF ArBackendCreate
  <2> HIDE DEF r
  <2>5. CASE Holds(c, EmptyRepo) /\ Goes(c, r)
    <3>1. req' \in [Clients -> {Idle} \cup RegistryReq]
      BY <2>3, <2>5, NextReqTyped DEF Goes, RegistryInv
    <3>2. repo' = [repo EXCEPT ![req[c].repo] = EmptyRepo]
      BY <2>5 DEF Holds
    <3> QED
      BY <3>1, <3>2, EmptyIsSound, PlacedKeeps
  <2> QED
    BY <2>4, <2>5, RefusedKeeps
<1>4. CASE ArWait(c)
  BY <1>4, EndKeeps DEF ArWait, Done, Same, registryVars
<1> QED
  BY <1>1, <1>2, <1>3, <1>4

\* DeleteRepository where the repository is removed as a whole.
LEMMA DeleteKeeps ==
    ASSUME RegistryInv, NEW c \in Clients,
           \/ InmemDeleteRepository(c) \/ EcrBackendDelete(c)
           \/ AcrListImages(c) \/ AcrDeleteRepository(c) \/ ArListImages(c) \/ ArBackendDelete(c)
    PROVE  RegistryInv'
<1>1. ASSUME Removes(c) PROVE RegistryInv'
  BY <1>1, MadeAndGone DEF Removes, Deleted
<1>2. CASE InmemDeleteRepository(c) \/ EcrBackendDelete(c)
  BY <1>1, <1>2, RefusedKeeps DEF InmemDeleteRepository, EcrBackendDelete
<1>3. CASE AcrDeleteRepository(c) \/ ArBackendDelete(c)
  BY <1>1, <1>3, RefusedKeeps DEF AcrDeleteRepository, ArBackendDelete, DeletesAfter
<1>4. CASE AcrListImages(c) \/ ArListImages(c)
  <2>1. LooksFirst(c)
    BY <1>4 DEF AcrListImages, ArListImages
  <2>2. req[c].op = "deleteRepo" /\ req[c] # Idle
    BY <2>1, IdleHasNoOp DEF LooksFirst
  <2>3. req[c] \in RepoReqs
    BY <2>2, ReqKinds DEF RegistryInv
  <2>4. [req[c] EXCEPT !.at = "delete"] \in RegistryReq
    BY <2>3 DEF RepoReqs, RegistryReq
  <2>5. Refused(c) \/ GoesOn(c, [req[c] EXCEPT !.at = "delete"])
    BY <2>1 DEF LooksFirst
  <2> QED
    BY <2>4, <2>5, GoesOnKeeps, RefusedKeeps
<1> QED
  BY <1>2, <1>3, <1>4

\* DeleteRepository of distribution: tags, their digests, the manifests one by one.
LEMMA DistributionDeleteKeeps ==
    ASSUME RegistryInv, NEW c \in Clients,
           DistributionListTags(c) \/ DistributionHeads(c) \/ DistributionDeleteRepository(c)
    PROVE  RegistryInv'
<1>1. req[c].op = "deleteRepo" /\ req[c] # Idle
  BY IdleHasNoOp DEF DistributionListTags, DistributionHeads, DistributionDeleteRepository
<1>2. req[c] \in RepoReqs /\ req[c].repo \in Repos
  BY <1>1, ReqKinds DEF RegistryInv
<1> DEFINE h == repo[req[c].repo]
<1>3. h # None => h \in Holding /\ Resolves(h)
  BY <1>2, HeldIsSound
<1>4. CASE DistributionListTags(c)
  <2>1. [req[c] EXCEPT !.at = "heads", !.left = TagsIn(h)] \in RegistryReq
    BY <1>2 DEF RepoReqs, RegistryReq, TagsIn
  <2>2. Refused(c) \/ GoesOn(c, [req[c] EXCEPT !.at = "heads", !.left = TagsIn(h)])
    BY <1>4 DEF DistributionListTags
  <2> QED
    BY <2>1, <2>2, GoesOnKeeps, RefusedKeeps
<1>5. CASE DistributionHeads(c)
  <2>1. CASE req[c].left = {}
    <3>1. [req[c] EXCEPT !.at = "deletes"] \in RegistryReq
      BY <1>2 DEF RepoReqs, RegistryReq
    <3>2. Refused(c) \/ GoesOn(c, [req[c] EXCEPT !.at = "deletes"])
      BY <1>5, <2>1 DEF DistributionHeads
    <3> QED
      BY <3>1, <3>2, GoesOnKeeps, RefusedKeeps
  <2>2. CASE req[c].left # {}
    <3>1. PICK t \in req[c].left :
            \/ Refused(c)
            \/ /\ h # None /\ h.tags[t] # None
               /\ GoesOn(c, [req[c] EXCEPT !.left = @ \ {t}, !.digests = @ \cup {h.tags[t]}])
      BY <1>5, <2>2 DEF DistributionHeads
    <3>2. CASE /\ h # None /\ h.tags[t] # None
               /\ GoesOn(c, [req[c] EXCEPT !.left = @ \ {t}, !.digests = @ \cup {h.tags[t]}])
      <4>1. t \in ImageTags
        BY <1>2 DEF RepoReqs
      <4>2. h.tags[t] \in Digests
        BY <1>3, <3>2, <4>1 DEF Holding
      <4>3. [req[c] EXCEPT !.left = @ \ {t}, !.digests = @ \cup {h.tags[t]}] \in RegistryReq
        BY <1>2, <4>2 DEF RepoReqs, RegistryReq
      <4> QED
        BY <3>2, <4>3, GoesOnKeeps
    <3> QED
      BY <3>1, <3>2, RefusedKeeps
  <2> QED
    BY <2>1, <2>2
<1>6. CASE DistributionDeleteRepository(c)
  <2>1. CASE req[c].digests = {}
    BY <1>6, <2>1, EndKeeps DEF DistributionDeleteRepository, Deleted, Same, registryVars
  <2>2. CASE req[c].digests # {}
    <3>1. PICK d \in req[c].digests :
            \/ Refused(c)
            \/ /\ h # None /\ Holds(c, WithoutManifest(h, d))
               /\ Goes(c, [req[c] EXCEPT !.digests = @ \ {d}]) \/ Deleted(c)
      BY <1>6, <2>2 DEF DistributionDeleteRepository
    <3>2. CASE /\ h # None /\ Holds(c, WithoutManifest(h, d))
               /\ Goes(c, [req[c] EXCEPT !.digests = @ \ {d}]) \/ Deleted(c)
      <4>1. WithoutManifest(h, d) \in Holding /\ Resolves(WithoutManifest(h, d))
        BY <1>3, <3>2, WithoutManifestIsSound
      <4>2. [req[c] EXCEPT !.digests = @ \ {d}] \in RegistryReq
        BY <1>2 DEF RepoReqs, RegistryReq
      <4>3. req' \in [Clients -> {Idle} \cup RegistryReq]
        BY <3>2, <4>2, NextReqTyped, EndTyped DEF Goes, Deleted, RegistryInv
      <4>4. repo' = [repo EXCEPT ![req[c].repo] = WithoutManifest(h, d)]
        BY <3>2 DEF Holds
      <4> QED
        BY <4>1, <4>3, <4>4, PlacedKeeps
    <3> QED
      BY <3>1, <3>2, RefusedKeeps
  <2> QED
    BY <2>1, <2>2
<1> QED
  BY <1>4, <1>5, <1>6

\* Every step of a registry keeps the invariant.
LEMMA RegistryStepKeeps ==
    RegistryInv /\ [RegistryNext]_<<shimVars, registryVars>> => RegistryInv'
<1> SUFFICES ASSUME RegistryInv, [RegistryNext]_<<shimVars, registryVars>> PROVE RegistryInv'
  OBVIOUS
<1>1. CASE UNCHANGED <<shimVars, registryVars>>
  BY <1>1 DEF RegistryInv, RegistryTypes, TagsResolve, TagsIn, shimVars, registryVars
<1>2. ASSUME NEW c \in Clients, RegistryRequests(c) PROVE RegistryInv'
  BY <1>2, RequestsKeep
<1>3. ASSUME NEW c \in Clients, RegistrySteps(c) PROVE RegistryInv'
  BY <1>3, PutManifestKeeps, StartUploadKeeps, UploadChunkKeeps, CompleteKeeps, DeleteImageKeeps,
     DataPlaneDeleteKeeps, CreateKeeps, DeleteKeeps, DistributionDeleteKeeps DEF RegistrySteps
<1>4. ASSUME NEW c \in Clients, Dies(c), Same PROVE RegistryInv'
  BY <1>4, EndKeeps DEF Dies, Fails, Same, registryVars
<1> QED
  BY <1>1, <1>2, <1>3, <1>4 DEF RegistryNext

\* On every backend, for any number of requests, repositories, manifests and
\* tags: a tag points at a manifest the repository holds, however pushes, moved
\* tags, deletions of images and of repositories interleave.
THEOREM TagsAlwaysResolve == RegistrySpec => []TagsResolve
<1>1. ShimInit /\ RegistryInit => RegistryInv
  BY DEF ShimInit, RegistryInit, RegistryInv, RegistryTypes, TagsResolve
<1>2. RegistryInv => TagsResolve
  BY DEF RegistryInv
<1> QED
  BY <1>1, <1>2, RegistryStepKeeps, PTL DEF RegistrySpec

-----------------------------------------------------------------------------
(***************************************************************************)
(* DeletedIsGone.  Where a repository goes in one call there is little to  *)
(* say.  distribution lists the tags, resolves each, and deletes the       *)
(* manifests it found: what an undisturbed deletion still has to look up   *)
(* or to delete covers, at every moment, every tag that is left.           *)
(***************************************************************************)
InSweep(q) == q.op = "deleteRepo" /\ q.at \in {"heads", "deletes"}
Covered(q) ==
    repo[q.repo] # None => \A t \in TagsIn(repo[q.repo]) :
        (q.at = "heads" /\ t \in q.left) \/ repo[q.repo].tags[t] \in q.digests
OneRuns == \A c \in Clients : alone = c => \A d \in Clients : d # c => req[d] = Idle
FoundFinite == \A c \in Clients : req[c].op = "deleteRepo" => IsFiniteSet(req[c].digests)
SweepCovers == \A c \in Clients : alone = c /\ InSweep(req[c]) => Covered(req[c])
SweepInv == OneRuns /\ FoundFinite /\ SweepCovers /\ DeletedIsGone

\* A request as it is when it does not sweep.
NoSweep(q) == ~InSweep(q) /\ (q.op = "deleteRepo" => IsFiniteSet(q.digests))

LEMMA SweepAsks ==
    ASSUME RegistryTypes, SweepInv, NEW c \in Clients, NEW r, NoSweep(r), AsksFor(c, r)
    PROVE  SweepInv'
<1>1. /\ req'[c] = r /\ \A d \in Clients : d # c => req'[d] = req[d]
      /\ answer' = None /\ alone' = IF Running(c) = {} THEN c ELSE None
  BY DEF AsksFor, Begin, RegistryTypes
<1>2. OneRuns'
  BY <1>1, NoneIsNoClient DEF OneRuns, Running
<1>3. FoundFinite'
  BY <1>1 DEF SweepInv, FoundFinite, NoSweep
<1>4. SweepCovers'
  BY <1>1, NoneIsNoClient DEF SweepCovers, NoSweep, InSweep
<1>5. DeletedIsGone'
  BY <1>1 DEF DeletedIsGone
<1> QED
  BY <1>2, <1>3, <1>4, <1>5 DEF SweepInv

LEMMA SweepGoes ==
    ASSUME RegistryTypes, SweepInv, NEW c \in Clients, req[c] # Idle, NEW r, NoSweep(r), Goes(c, r)
    PROVE  SweepInv'
<1>1. /\ req'[c] = r /\ (\A d \in Clients : d # c => req'[d] = req[d])
      /\ answer' = None /\ alone' = alone
  BY DEF Goes, RegistryTypes
<1>2. \A d \in Clients : alone = d => d = c
  BY DEF SweepInv, OneRuns
<1>3. OneRuns' /\ FoundFinite' /\ SweepCovers'
  BY <1>1, <1>2 DEF SweepInv, OneRuns, FoundFinite, SweepCovers, NoSweep, InSweep
<1>4. DeletedIsGone'
  BY <1>1 DEF DeletedIsGone
<1> QED
  BY <1>3, <1>4 DEF SweepInv

LEMMA SweepEnds ==
    ASSUME RegistryTypes, SweepInv, NEW c \in Clients, NEW says, Ends(c, says),
           says # None => (repo'[says] # None => TagsIn(repo'[says]) = {})
    PROVE  SweepInv'
<1>1. /\ req'[c] = Idle /\ (\A d \in Clients : d # c => req'[d] = req[d])
      /\ answer' \in {None, says} /\ alone' = None
  BY DEF Ends, RegistryTypes
<1>2. OneRuns' /\ SweepCovers'
  BY <1>1, NoneIsNoClient DEF OneRuns, SweepCovers
<1>3. FoundFinite'
  BY <1>1 DEF SweepInv, FoundFinite, Idle
<1>4. DeletedIsGone'
  BY <1>1 DEF DeletedIsGone, TagsIn
<1> QED
  BY <1>2, <1>3, <1>4 DEF SweepInv

LEMMA SweepDone ==
    ASSUME RegistryTypes, SweepInv, NEW c \in Clients, Done(c) \/ Refused(c)
    PROVE  SweepInv'
<1>1. Ends(c, None)
  BY DEF Done, Refused, Fails
<1> QED
  BY <1>1, SweepEnds

LEMMA SweepRemoves ==
    ASSUME RegistryTypes, SweepInv, NEW c \in Clients, req[c] # Idle, Removes(c)
    PROVE  SweepInv'
<1>1. req[c].repo \in Repos /\ Ends(c, req[c].repo) /\ repo' = [repo EXCEPT ![req[c].repo] = None]
  BY ReqKinds DEF Removes, Deleted, Holds
<1>2. repo'[req[c].repo] = None
  BY <1>1 DEF RegistryTypes
<1> QED
  BY <1>1, <1>2, SweepEnds

LEMMA SweepRequests ==
    ASSUME RegistryTypes, SweepInv, NEW c \in Clients, RegistryRequests(c)
    PROVE  SweepInv'
<1>1. ASSUME NEW op, NEW r, NEW force
      PROVE  NoSweep(RepoReq(op, r, force))
  BY FS_EmptySet DEF RepoReq, NoSweep, InSweep
<1>2. PICK r : AsksFor(c, r) /\ NoSweep(r)
  <2>1. CASE \/ EcrCreateRepository(c) \/ ArCreateRepo(c) \/ EcrDeleteRepository(c) \/ ArDeleteRepo(c)
    BY <1>1, <2>1 DEF EcrCreateRepository, ArCreateRepo, EcrDeleteRepository, ArDeleteRepo
  <2>2. CASE BatchDeleteImage(c) \/ OciDeleteManifest(c)
    <3>1. PICK at, r, refs : AsksFor(c, ImageReq(at, r, refs))
      BY <2>2 DEF BatchDeleteImage, OciDeleteManifest
    <3>2. NoSweep(ImageReq(at, r, refs))
      BY DEF ImageReq, NoSweep, InSweep
    <3> QED
      BY <3>1, <3>2
  <2>3. CASE OciPutManifest(c)
    <3>1. PICK r \in Repos, ref \in References, d \in Digests :
             AsksFor(c, [op |-> "putManifest", at |-> "first", repo |-> r, ref |-> ref, digest |-> d])
      BY <2>3 DEF OciPutManifest
    <3> QED
      BY <3>1 DEF NoSweep, InSweep
  <2>4. CASE OciStartUpload(c)
    <3>1. PICK r \in Repos, whole \in BOOLEAN :
             AsksFor(c, [op |-> "startUpload", at |-> "first", repo |-> r, whole |-> whole])
      BY <2>4 DEF OciStartUpload
    <3> QED
      BY <3>1 DEF NoSweep, InSweep
  <2>5. CASE OciPatchUpload(c)
    <3>1. PICK r \in Repos, u \in 1..Len(upload), b \in Chunks :
             AsksFor(c, [op |-> "chunk", at |-> "first", repo |-> r, id |-> u, chunk |-> b])
      BY <2>5 DEF OciPatchUpload
    <3> QED
      BY <3>1 DEF NoSweep, InSweep
  <2>6. CASE OciPutUpload(c)
    <3>1. PICK r, u, rest, d : AsksFor(c, CompleteReq(r, u, rest, d))
      BY <2>6 DEF OciPutUpload
    <3> QED
      BY <3>1 DEF NoSweep, InSweep, CompleteReq
  <2> QED
    BY <2>1, <2>2, <2>3, <2>4, <2>5, <2>6 DEF RegistryRequests
<1> QED
  BY <1>2, SweepAsks

\* The steps of pushes and of the deletion of images do not sweep.
LEMMA SweepImages ==
    ASSUME RegistryTypes, SweepInv, NEW c \in Clients,
           \/ InmemDeleteImage(c) \/ EcrBackendDeleteImage(c) \/ HeadManifest(c) \/ DistributionDeleteManifest(c)
    PROVE  SweepInv'
<1>1. req[c].op = "deleteImages" /\ req[c] # Idle
  BY IdleHasNoOp DEF InmemDeleteImage, EcrBackendDeleteImage, HeadManifest, DistributionDeleteManifest, Is
<1>2. req[c] \in ImageReqs
  BY <1>1, ReqKinds
<1>3. ASSUME NEW ref, NextImage(c, ref)
      PROVE  SweepInv'
  <2>1. CASE Done(c)
    BY <2>1, SweepDone
  <2>2. CASE Goes(c, [req[c] EXCEPT !.left = @ \ {ref}, !.at = "first", !.digest = None])
    <3>1. PICK r : r = [req[c] EXCEPT !.left = @ \ {ref}, !.at = "first", !.digest = None]
      OBVIOUS
    <3>2. NoSweep(r)
      BY <1>2, <3>1 DEF ImageReqs, NoSweep, InSweep
    <3> QED
      BY <1>1, <2>2, <3>1, <3>2, SweepGoes
  <2> QED
    BY <1>3, <2>1, <2>2 DEF NextImage
<1>4. ASSUME NEW d, GoesOn(c, [req[c] EXCEPT !.at = "delete", !.digest = d])
      PROVE  SweepInv'
  <2>1. PICK r : r = [req[c] EXCEPT !.at = "delete", !.digest = d]
    OBVIOUS
  <2>2. NoSweep(r)
    BY <1>2, <2>1 DEF ImageReqs, NoSweep, InSweep
  <2> QED
    BY <1>1, <1>4, <2>1, <2>2, SweepGoes DEF GoesOn
<1>5. CASE InmemDeleteImage(c) \/ EcrBackendDeleteImage(c)
  BY <1>3, <1>5 DEF InmemDeleteImage, EcrBackendDeleteImage, PassesOver
<1>6. CASE HeadManifest(c)
  BY <1>3, <1>4, <1>6 DEF HeadManifest, PassesOver
<1>7. CASE DistributionDeleteManifest(c)
  BY <1>3, <1>7 DEF DistributionDeleteManifest, PassesOver
<1> QED
  BY <1>5, <1>6, <1>7

LEMMA SweepPushes ==
    ASSUME RegistryTypes, SweepInv, NEW c \in Clients,
           \/ InmemPutManifest(c) \/ DistributionPutManifest(c)
           \/ InmemStartBlobUpload(c) \/ DistributionStartBlobUpload(c)
           \/ InmemUploadChunk(c) \/ DistributionUploadChunk(c)
           \/ InmemCompleteBlobUpload(c) \/ DistributionCompleteBlobUpload(c)
    PROVE  SweepInv'
<1>1. CASE InmemPutManifest(c) \/ DistributionPutManifest(c)
  BY <1>1, SweepDone DEF InmemPutManifest, DistributionPutManifest, PutsManifest
<1>2. CASE InmemStartBlobUpload(c) \/ DistributionStartBlobUpload(c)
  <2>1. req[c] # Idle
    BY <1>2, IdleHasNoOp DEF InmemStartBlobUpload, DistributionStartBlobUpload, Is
  <2>2. Refused(c) \/ Done(c) \/ \E b \in Chunks : Goes(c, CompleteReq(req[c].repo, Len(upload) + 1, <<b>>, <<b>>))
    BY <1>2 DEF InmemStartBlobUpload, DistributionStartBlobUpload, OpensUpload
  <2>3. ASSUME NEW b \in Chunks, Goes(c, CompleteReq(req[c].repo, Len(upload) + 1, <<b>>, <<b>>))
        PROVE  SweepInv'
    <3>1. PICK r : r = CompleteReq(req[c].repo, Len(upload) + 1, <<b>>, <<b>>)
      OBVIOUS
    <3>2. NoSweep(r)
      BY <3>1 DEF CompleteReq, NoSweep, InSweep
    <3> QED
      BY <2>1, <2>3, <3>1, <3>2, SweepGoes
  <2> QED
    BY <2>2, <2>3, SweepDone
<1>3. CASE InmemUploadChunk(c) \/ DistributionUploadChunk(c)
  BY <1>3, SweepDone DEF InmemUploadChunk, DistributionUploadChunk, AppendsChunk
<1>4. CASE InmemCompleteBlobUpload(c) \/ DistributionCompleteBlobUpload(c)
  <2>1. Refused(c) \/ \E r : Completes(c, r)
    BY <1>4 DEF InmemCompleteBlobUpload, DistributionCompleteBlobUpload
  <2> QED
    BY <2>1, SweepDone DEF Completes
<1> QED
  BY <1>1, <1>2, <1>3, <1>4

LEMMA SweepRepos ==
    ASSUME RegistryTypes, SweepInv, NEW c \in Clients,
           \/ InmemCreateRepository(c) \/ InmemDeleteRepository(c) \/ DistributionCreateRepository(c)
           \/ EcrBackendCreate(c) \/ EcrBackendDelete(c)
           \/ AcrCreateRepository(c) \/ AcrListImages(c) \/ AcrDeleteRepository(c)
           \/ ArBackendCreate(c) \/ ArWait(c) \/ ArListImages(c) \/ ArBackendDelete(c)
    PROVE  SweepInv'
<1>1. req[c].op \in {"createRepo", "deleteRepo"} /\ req[c] # Idle
  BY IdleHasNoOp DEF InmemCreateRepository, InmemDeleteRepository, DistributionCreateRepository, EcrBackendCreate,
     EcrBackendDelete, AcrCreateRepository, AcrListImages, AcrDeleteRepository, ArBackendCreate, ArWait,
     ArListImages, ArBackendDelete, LooksFirst, Is
<1>2. req[c] \in RepoReqs
  BY <1>1, ReqKinds
<1>3. CASE \/ InmemCreateRepository(c) \/ EcrBackendCreate(c) \/ DistributionCreateRepository(c)
           \/ AcrCreateRepository(c) \/ ArWait(c)
  BY <1>3, SweepDone DEF InmemCreateRepository, EcrBackendCreate, DistributionCreateRepository,
     AcrCreateRepository, ArWait
<1>4. CASE \/ InmemDeleteRepository(c) \/ EcrBackendDelete(c) \/ AcrDeleteRepository(c) \/ ArBackendDelete(c)
  BY <1>1, <1>4, SweepDone, SweepRemoves DEF InmemDeleteRepository, EcrBackendDelete, AcrDeleteRepository,
     ArBackendDelete, DeletesAfter
<1>5. ASSUME NEW at \in {"wait", "delete"}, Goes(c, [req[c] EXCEPT !.at = at])
      PROVE  SweepInv'
  <2>1. PICK r : r = [req[c] EXCEPT !.at = at]
    OBVIOUS
  <2>2. r.op = req[c].op /\ r.at = at /\ r.digests = req[c].digests
    BY <1>2, <2>1 DEF RepoReqs
  <2>3. NoSweep(r)
    BY <2>2 DEF NoSweep, InSweep, SweepInv, FoundFinite
  <2> QED
    BY <1>1, <1>5, <2>1, <2>3, SweepGoes
<1>6. CASE AcrListImages(c) \/ ArListImages(c)
  BY <1>5, <1>6, SweepDone DEF AcrListImages, ArListImages, LooksFirst, GoesOn
<1>7. CASE ArBackendCreate(c)
  BY <1>5, <1>7, SweepDone DEF ArBackendCreate
<1> QED
  BY <1>3, <1>4, <1>6, <1>7

\* A request that sweeps goes on with what covers the tags.
LEMMA SweepGoesOn ==
    ASSUME RegistryTypes, SweepInv, NEW c \in Clients, req[c] # Idle, NEW r, Goes(c, r), IsFiniteSet(r.digests),
           alone = c => Covered(r)'
    PROVE  SweepInv'
<1>1. /\ req'[c] = r /\ (\A d \in Clients : d # c => req'[d] = req[d])
      /\ answer' = None /\ alone' = alone
  BY DEF Goes, RegistryTypes
<1>2. \A d \in Clients : alone = d => d = c
  BY DEF SweepInv, OneRuns
<1>3. OneRuns' /\ FoundFinite'
  BY <1>1, <1>2 DEF SweepInv, OneRuns, FoundFinite
<1>4. alone = c => Covered(req[c])'
  BY <1>1 DEF Covered
<1>5. SweepCovers'
  BY <1>1, <1>2, <1>4 DEF SweepCovers
<1>6. DeletedIsGone'
  BY <1>1 DEF DeletedIsGone
<1> QED
  BY <1>3, <1>5, <1>6 DEF SweepInv

LEMMA AtMostOne ==
    ASSUME NEW S, IsFiniteSet(S), ~(Cardinality(S) > 1), NEW d \in S
    PROVE  S = {d}
<1>1. IsFiniteSet(S \ {d}) /\ Cardinality(S \ {d}) = Cardinality(S) - 1
  BY FS_RemoveElement
<1>2. Cardinality(S) \in Nat /\ Cardinality(S \ {d}) \in Nat
  BY <1>1, FS_CardinalityType
<1>3. S \ {d} = {}
  BY <1>1, <1>2, FS_EmptySet
<1> QED
  BY <1>3

LEMMA SweepSteps ==
    ASSUME RegistryTypes, SweepInv, NEW c \in Clients,
           DistributionListTags(c) \/ DistributionHeads(c) \/ DistributionDeleteRepository(c)
    PROVE  SweepInv'
<1>1. req[c].op = "deleteRepo" /\ req[c] # Idle
  BY IdleHasNoOp DEF DistributionListTags, DistributionHeads, DistributionDeleteRepository
<1>2. req[c] \in RepoReqs /\ req[c].repo \in Repos
  BY <1>1, ReqKinds
<1>3. IsFiniteSet(req[c].digests)
  BY <1>1 DEF SweepInv, FoundFinite
<1> DEFINE h == repo[req[c].repo]
<1>4. h # None => h \in Holding
  BY <1>2 DEF RegistryTypes
<1>5. CASE DistributionListTags(c)
  <2>1. CASE Refused(c)
    BY <2>1, SweepDone
  <2>2. CASE h # None /\ GoesOn(c, [req[c] EXCEPT !.at = "heads", !.left = TagsIn(h)])
    <3>1. PICK r : r = [req[c] EXCEPT !.at = "heads", !.left = TagsIn(h)]
      OBVIOUS
    <3>2. r.repo = req[c].repo /\ r.at = "heads" /\ r.left = TagsIn(h) /\ r.digests = req[c].digests
      BY <1>2, <3>1 DEF RepoReqs
    <3>3. Goes(c, r) /\ repo' = repo
      BY <2>2, <3>1 DEF GoesOn, Same, registryVars
    <3>4. Covered(r)'
      BY <3>2, <3>3 DEF Covered, TagsIn
    <3> QED
      BY <1>1, <1>3, <3>2, <3>3, <3>4, SweepGoesOn
  <2> QED
    BY <1>5, <2>1, <2>2 DEF DistributionListTags
<1>6. CASE DistributionHeads(c)
  <2>1. alone = c => Covered(req[c])
    BY <1>6 DEF SweepInv, SweepCovers, DistributionHeads, InSweep
  <2>2. CASE Refused(c)
    BY <2>2, SweepDone
  <2>3. CASE req[c].left = {} /\ GoesOn(c, [req[c] EXCEPT !.at = "deletes"])
    <3>1. PICK r : r = [req[c] EXCEPT !.at = "deletes"]
      OBVIOUS
    <3>2. r.repo = req[c].repo /\ r.at = "deletes" /\ r.digests = req[c].digests
      BY <1>2, <3>1 DEF RepoReqs
    <3>3. Goes(c, r) /\ repo' = repo
      BY <2>3, <3>1 DEF GoesOn, Same, registryVars
    <3>4. alone = c => Covered(r)'
      BY <2>1, <2>3, <3>2, <3>3 DEF Covered, TagsIn
    <3> QED
      BY <1>1, <1>3, <3>2, <3>3, <3>4, SweepGoesOn
  <2>4. ASSUME NEW t \in req[c].left,
               GoesOn(c, [req[c] EXCEPT !.left = @ \ {t}, !.digests = @ \cup {h.tags[t]}])
        PROVE  SweepInv'
    <3>1. PICK r : r = [req[c] EXCEPT !.left = @ \ {t}, !.digests = @ \cup {h.tags[t]}]
      OBVIOUS
    <3>2. /\ r.repo = req[c].repo /\ r.at = req[c].at /\ r.left = req[c].left \ {t}
          /\ r.digests = req[c].digests \cup {h.tags[t]}
      BY <1>2, <3>1 DEF RepoReqs
    <3>3. Goes(c, r) /\ repo' = repo
      BY <2>4, <3>1 DEF GoesOn, Same, registryVars
    <3>4. alone = c => Covered(r)'
      BY <2>1, <3>2, <3>3 DEF Covered, TagsIn
    <3>5. IsFiniteSet(r.digests)
      <4>1. IsFiniteSet(req[c].digests \cup {h.tags[t]})
        BY <1>3, FS_AddElement
      <4> QED
        BY <3>2, <4>1
    <3> QED
      BY <1>1, <3>3, <3>4, <3>5, SweepGoesOn
  <2> QED
    BY <1>6, <2>2, <2>3, <2>4 DEF DistributionHeads
<1>7. CASE DistributionDeleteRepository(c)
  <2>1. alone = c => Covered(req[c])
    BY <1>7 DEF SweepInv, SweepCovers, DistributionDeleteRepository, InSweep
  <2>2. CASE Refused(c)
    BY <2>2, SweepDone
  <2>3. alone = c => \A t \in ImageTags : h # None /\ h.tags[t] # None => h.tags[t] \in req[c].digests
    BY <1>7, <2>1 DEF Covered, TagsIn, DistributionDeleteRepository
  <2>4. alone # c => \A says : Ends(c, says) => Ends(c, None)
    BY DEF Ends
  <2>5. CASE req[c].digests = {} /\ Deleted(c) /\ Same
    <3>1. CASE alone = c
      <4>1. h # None => TagsIn(h) = {}
        BY <2>3, <2>5, <3>1 DEF TagsIn
      <4>2. repo' = repo
        BY <2>5 DEF Same, registryVars
      <4> QED
        BY <2>5, <4>1, <4>2, SweepEnds DEF Deleted, TagsIn
    <3>2. CASE alone # c
      BY <2>4, <2>5, <3>2, SweepEnds DEF Deleted
    <3> QED
      BY <3>1, <3>2
  <2>6. ASSUME NEW d \in req[c].digests, h # None, Holds(c, WithoutManifest(h, d)),
               IF MoreToDelete(c) THEN Goes(c, [req[c] EXCEPT !.digests = @ \ {d}]) ELSE Deleted(c)
        PROVE  SweepInv'
    <3>1. repo'[req[c].repo] = WithoutManifest(h, d)
      BY <1>2, <2>6 DEF Holds, RegistryTypes
    <3>2. WithoutManifest(h, d).tags = [t \in ImageTags |-> IF h.tags[t] = d THEN None ELSE h.tags[t]]
      BY <1>4, <2>6 DEF WithoutManifest, Holding
    <3>3. \A t \in ImageTags : repo'[req[c].repo].tags[t] # None
                                 => repo'[req[c].repo].tags[t] = h.tags[t] /\ h.tags[t] # d /\ h.tags[t] # None
      BY <3>1, <3>2
    <3>4. CASE MoreToDelete(c)
      <4>1. PICK r : r = [req[c] EXCEPT !.digests = @ \ {d}]
        OBVIOUS
      <4>2. r.repo = req[c].repo /\ r.at = req[c].at /\ r.digests = req[c].digests \ {d}
        BY <1>2, <4>1 DEF RepoReqs
      <4>3. alone = c => Covered(r)'
        BY <2>3, <2>6, <3>3, <4>2 DEF Covered, TagsIn
      <4>4. IsFiniteSet(r.digests)
        BY <1>3, <4>2, FS_RemoveElement
      <4>5. Goes(c, r)
        BY <2>6, <3>4, <4>1
      <4> QED
        BY <1>1, <4>3, <4>4, <4>5, SweepGoesOn
    <3>5. CASE ~MoreToDelete(c)
      <4>1. req[c].digests = {d}
        BY <1>3, <2>6, <3>5, AtMostOne DEF MoreToDelete
      <4>2. Ends(c, req[c].repo)
        BY <2>6, <3>5 DEF Deleted
      <4>3. CASE alone = c
        <5>1. TagsIn(repo'[req[c].repo]) = {}
          BY <2>3, <2>6, <3>3, <4>1, <4>3 DEF TagsIn
        <5> QED
          BY <4>2, <5>1, SweepEnds
      <4>4. CASE alone # c
        BY <2>4, <4>2, <4>4, SweepEnds
      <4> QED
        BY <4>3, <4>4
    <3> QED
      BY <3>4, <3>5
  <2> QED
    BY <1>7, <2>2, <2>5, <2>6 DEF DistributionDeleteRepository
<1> QED
  BY <1>5, <1>6, <1>7

LEMMA SweepStepKeeps ==
    RegistryTypes /\ SweepInv /\ [RegistryNext]_<<shimVars, registryVars>> => SweepInv'
<1> SUFFICES ASSUME RegistryTypes, SweepInv, [RegistryNext]_<<shimVars, registryVars>> PROVE SweepInv'
  OBVIOUS
<1>1. CASE UNCHANGED <<shimVars, registryVars>>
  BY <1>1 DEF SweepInv, OneRuns, FoundFinite, SweepCovers, InSweep, Covered, DeletedIsGone, TagsIn, shimVars,
     registryVars
<1>2. ASSUME NEW c \in Clients, RegistryRequests(c) PROVE SweepInv'
  BY <1>2, SweepRequests
<1>3. ASSUME NEW c \in Clients, RegistrySteps(c) PROVE SweepInv'
  BY <1>3, SweepImages, SweepPushes, SweepRepos, SweepSteps DEF RegistrySteps
<1>4. ASSUME NEW c \in Clients, Dies(c) PROVE SweepInv'
  BY <1>4, SweepEnds DEF Dies, Fails
<1> QED
  BY <1>1, <1>2, <1>3, <1>4 DEF RegistryNext

\* DeleteRepository, on every backend and for any number of repositories,
\* manifests and tags: answered with success and not overlapped, it leaves no
\* tag to pull - also on distribution, whose DeleteRepository deletes the
\* manifests its tags lead to one by one
\* (services/registry/backends/distribution).
THEOREM DeletedIsAlwaysGone == RegistrySpec => []DeletedIsGone
<1>1. ShimInit /\ RegistryInit => RegistryInv /\ SweepInv
  <2> SUFFICES ASSUME ShimInit, RegistryInit
               PROVE  RegistryInv /\ SweepInv
    OBVIOUS
  <2>1. RegistryInv
    BY DEF ShimInit, RegistryInit, RegistryInv, RegistryTypes, TagsResolve
  <2>2. SweepInv
    BY NoneIsNoClient DEF ShimInit, SweepInv, OneRuns, FoundFinite, SweepCovers, DeletedIsGone, Idle
  <2> QED
    BY <2>1, <2>2
<1>2. RegistryInv => RegistryTypes
  BY DEF RegistryInv
<1>3. SweepInv => DeletedIsGone
  BY DEF SweepInv
<1> QED
  BY <1>1, <1>2, <1>3, RegistryStepKeeps, SweepStepKeeps, PTL DEF RegistrySpec

-----------------------------------------------------------------------------
(***************************************************************************)
(* StillReadable for every set of clients and key names and any number of  *)
(* materials, on inmem, gcp and aws.                                       *)
(*                                                                         *)
(* A ciphertext could stop being readable in two ways.  Its key could drop *)
(* material: keys only gain it (Encrypts says that what they encrypt with  *)
(* is among what they decrypt).  Or a key of the same id could come after  *)
(* one that is gone: inmem and gcp never forget a key something was        *)
(* encrypted with (Kept), and aws never gives an id twice (Fresh).  The    *)
(* third way, a generated id that inmem gives over a chosen one, is what   *)
(* replaced records.                                                       *)
(***************************************************************************)

Key == [state : {"enabled", "pending", "disabled"}, latest : 1..MaxMaterial,
        decrypts : SUBSET (1..MaxMaterial), rotates : BOOLEAN]
Text == [id : KeyIds, by : 1..MaxMaterial]
Stage == {"first", "ring", "tags"}
CreateReqs == [op : {"create"}, at : Stage, id : ChosenIds \cup {0}]
KeyReqs == [op : {"describe", "encrypt", "schedule", "cancel", "enable", "disable", "ring"}, at : Stage,
            id : KeyIds \cup {0}]
DecryptReqs == [op : {"decrypt"}, at : Stage, id : KeyIds \cup {0}, of : Text]
KmsReq == CreateReqs \cup KeyReqs \cup DecryptReqs

KmsTypes ==
    /\ keys \in [KeyIds -> {None} \cup Key]
    /\ seq \in Nat /\ material \in Nat
    /\ seq <= material /\ material <= MaxMaterial
    /\ issued \subseteq Text
    /\ replaced \subseteq 1..MaxMaterial
ReqTypes == req \in [Clients -> {Idle} \cup KmsReq]
Encrypts ==
    backend # "azure" => \A k \in KeyIds : keys[k] # None => keys[k].latest \in keys[k].decrypts
Kept == backend \in {"inmem", "gcp"} => \A ct \in issued : keys[ct.id] # None
Fresh ==
    backend = "aws" =>
        \A k \in 1..MaxMaterial : k > seq => keys[k] = None /\ \A ct \in issued : ct.id # k
KeysInv == KmsTypes /\ Encrypts /\ StillReadable /\ Kept /\ Fresh
KmsInv == KeysInv /\ ReqTypes

\* A step that leaves the keys and the ciphertexts alone.
LEMMA KeysStay ==
    ASSUME KeysInv, UNCHANGED <<keys, seq, material, issued, replaced, backend>> PROVE KeysInv'
  BY DEF KeysInv, KmsTypes, Encrypts, StillReadable, Kept, Fresh

\* A key whose state or rotation changes decrypts what it did.
LEMMA KeyChanges ==
    ASSUME KeysInv, NEW k \in KeyIds, keys[k] # None, NEW key \in Key,
           key.latest = keys[k].latest, key.decrypts = keys[k].decrypts,
           keys' = [keys EXCEPT ![k] = key], UNCHANGED <<seq, material, issued, replaced, backend>>
    PROVE  KeysInv'
<1> USE DEF KeysInv
<1>1. keys'[k] = key /\ key # None /\ \A j \in KeyIds \ {k} : keys'[j] = keys[j]
  BY NoneIsNoKey DEF KmsTypes, Key
<1>2. KmsTypes'
  BY DEF KmsTypes
<1>3. Encrypts'
  BY <1>1 DEF Encrypts, KmsTypes
<1>4. StillReadable' /\ Kept'
  BY <1>1 DEF StillReadable, Kept, KmsTypes, Text
<1>5. Fresh'
  BY <1>1 DEF Fresh, KeyIds, KmsTypes
<1> QED
  BY <1>2, <1>3, <1>4, <1>5

\* A ciphertext is made with what its key encrypts with now.
LEMMA TextComes ==
    ASSUME KeysInv, NEW k \in KeyIds, keys[k] # None,
           issued' = issued \cup {[id |-> k, by |-> keys[k].latest]},
           UNCHANGED <<keys, seq, material, replaced, backend>>
    PROVE  KeysInv'
<1> USE DEF KeysInv
<1> DEFINE ct == [id |-> k, by |-> keys[k].latest]
<1>1. keys[k] \in Key /\ ct \in Text
  BY DEF KmsTypes, Key, Text
<1>2. KmsTypes'
  BY <1>1 DEF KmsTypes
<1>3. Encrypts'
  BY DEF Encrypts
<1>4. StillReadable' /\ Kept'
  BY DEF StillReadable, Kept, Encrypts
<1>5. Fresh'
  BY DEF Fresh
<1> QED
  BY <1>2, <1>3, <1>4, <1>5

\* A key is made with material of its own, under an id nothing was encrypted
\* under, or in place of a key whose materials are recorded.
Spares(k) ==
    backend # "azure" =>
        \A ct \in issued : ct.id = k => backend = "inmem" /\ ct.by \in replaced'
LEMMA KeyComes ==
    ASSUME KeysInv, NEW k \in KeyIds, NEW key \in Key, key.latest \in key.decrypts, Spares(k),
           replaced \subseteq replaced', replaced' \subseteq 1..MaxMaterial,
           keys' = [keys EXCEPT ![k] = key], material < MaxMaterial, material' = material + 1,
           \/ backend # "aws" /\ seq' = seq
           \/ k = seq + 1 /\ seq' = seq + 1,
           UNCHANGED <<issued, backend>>
    PROVE  KeysInv'
<1> USE DEF KeysInv
<1>1. keys'[k] = key /\ key # None /\ \A j \in KeyIds \ {k} : keys'[j] = keys[j]
  BY NoneIsNoKey DEF KmsTypes, Key
<1>2. KmsTypes'
  BY MaterialIsCounted DEF KmsTypes
<1>3. Encrypts'
  BY <1>1 DEF Encrypts, KmsTypes
<1>4. \A ct \in issued : ct.id \in KeyIds /\ (ct.id # k => keys'[ct.id] = keys[ct.id])
  BY <1>1 DEF KmsTypes, Text
<1>5. StillReadable' /\ Kept'
  BY <1>1, <1>4 DEF StillReadable, Kept, Spares
<1>6. Fresh'
  <2> SUFFICES ASSUME backend = "aws", NEW j \in 1..MaxMaterial, j > seq'
               PROVE  keys'[j] = None /\ \A ct \in issued : ct.id # j
    BY DEF Fresh
  <2>1. j # k /\ j > seq /\ j \in KeyIds
    BY DEF KeyIds, KmsTypes
  <2> QED
    BY <1>1, <2>1 DEF Fresh
<1> QED
  BY <1>2, <1>3, <1>5, <1>6

\* The key NewKey describes.
LEMMA NewKeyIsKey ==
    ASSUME KmsTypes, material < MaxMaterial PROVE NewKey \in Key /\ NewKey.latest \in NewKey.decrypts
  BY MaterialIsCounted DEF NewKey, Key, KmsTypes

\* The cloud gives a key new material and keeps the old.
LEMMA CloudRotatesKeeps ==
    ASSUME KeysInv, NEW k \in KeyIds, CloudRotates(k), UNCHANGED backend PROVE KeysInv'
<1> USE DEF KeysInv
<1> DEFINE key == [keys[k] EXCEPT !.latest = material + 1,
                                  !.decrypts = (IF backend = "azure" THEN {} ELSE @) \cup {material + 1}]
<1>1. keys[k] \in Key /\ keys[k] # None /\ material + 1 \in 1..MaxMaterial
  BY MaterialIsCounted DEF CloudRotates, KmsTypes
<1>2. keys' = [keys EXCEPT ![k] = key] /\ material' = material + 1 /\ UNCHANGED <<seq, issued, replaced>>
  BY <1>1 DEF CloudRotates, Key, KmsTypes
<1>3. key \in Key /\ key.latest = material + 1
      /\ key.decrypts = (IF backend = "azure" THEN {} ELSE keys[k].decrypts) \cup {material + 1}
  BY <1>1 DEF Key
<1> HIDE DEF key
<1>4. keys'[k] = key /\ key # None /\ \A j \in KeyIds \ {k} : keys'[j] = keys[j]
  BY <1>2, <1>3, NoneIsNoKey DEF KmsTypes, Key
<1>5. KmsTypes'
  BY <1>1, <1>2, <1>3, MaterialIsCounted DEF KmsTypes
<1>6. Encrypts'
  BY <1>3, <1>4 DEF Encrypts
<1>7. StillReadable' /\ Kept'
  BY <1>1, <1>2, <1>3, <1>4 DEF StillReadable, Kept, KmsTypes, Text
<1>8. Fresh'
  BY <1>1, <1>2, <1>4 DEF Fresh, KeyIds
<1> QED
  BY <1>5, <1>6, <1>7, <1>8

\* A key whose waiting time has ended takes its ciphertexts with it.
LEMMA CloudForgetsKeeps ==
    ASSUME KeysInv, NEW k \in KeyIds, CloudForgets(k), UNCHANGED backend PROVE KeysInv'
<1> USE DEF KeysInv
<1>1. keys' = [keys EXCEPT ![k] = None] /\ UNCHANGED <<seq, material, issued, replaced>>
      /\ backend \notin {"inmem", "gcp"}
  BY DEF CloudForgets
<1>2. keys'[k] = None /\ \A j \in KeyIds \ {k} : keys'[j] = keys[j]
  BY <1>1 DEF KmsTypes
<1>3. KmsTypes'
  BY <1>1 DEF KmsTypes
<1>4. Encrypts' /\ Kept'
  BY <1>1, <1>2 DEF Encrypts, Kept
<1>5. StillReadable'
  BY <1>1, <1>2 DEF StillReadable, KmsTypes, Text
<1>6. Fresh'
  BY <1>1, <1>2 DEF Fresh, KeyIds
<1> QED
  BY <1>3, <1>4, <1>5, <1>6

\* A request that ends, goes on or arrives is none or a request.
LEMMA ReqStays ==
    ASSUME ReqTypes, NEW c \in Clients, NEW r \in {Idle} \cup KmsReq, req' = [req EXCEPT ![c] = r]
    PROVE  ReqTypes'
  BY DEF ReqTypes

\* A request that ends, successfully or not.
LEMMA KmsEnds ==
    ASSUME ReqTypes, NEW c \in Clients, NEW says, Ends(c, says) PROVE ReqTypes' /\ backend' = backend
  BY ReqStays DEF Ends

\* A request that ends and leaves the keys alone.
LEMMA EndsOnly ==
    ASSUME KmsInv, NEW c \in Clients, NEW says, Ends(c, says), UNCHANGED <<keys, seq, material, issued, replaced>>
    PROVE  KmsInv'
  BY KmsEnds, KeysStay DEF KmsInv

\* A failure, and a read.
LEMMA FailsOrReads ==
    ASSUME KmsInv, NEW c \in Clients, KmsFails(c) \/ KmsRead(c) PROVE KmsInv'
  BY EndsOnly DEF KmsFails, KmsRead, Fails, kmsVars

\* The kind of a request is told by its operation.
LEMMA KmsReqKinds ==
    ASSUME ReqTypes, NEW c \in Clients, req[c] # Idle
    PROVE  /\ req[c] \in KmsReq
           /\ req[c].op = "create" => req[c] \in CreateReqs
           /\ req[c].id \in KeyIds \cup {0}
<1>1. req[c] \in KmsReq
  BY DEF ReqTypes
<1> QED
  BY <1>1 DEF KmsReq, CreateReqs, KeyReqs, DecryptReqs, KeyIds

\* A change of the state or the rotation of a key, where it is allowed.
LEMMA ChangesKeeps ==
    ASSUME KmsInv, NEW c \in Clients, req[c] # Idle, NEW allowed \in BOOLEAN, allowed => Has(c), NEW key,
           keys[req[c].id] \in Key =>
               /\ key \in Key
               /\ key.latest = keys[req[c].id].latest
               /\ key.decrypts = keys[req[c].id].decrypts,
           Changes(c, allowed, key)
    PROVE  KmsInv'
<1>1. CASE ~allowed
  BY <1>1, FailsOrReads DEF Changes
<1>2. CASE allowed
  <2>1. SetsKey(c, key) /\ keys[req[c].id] # None /\ req[c].id # 0
    BY <1>2 DEF Changes, Has, KeyOf
  <2>2. req[c].id \in KeyIds
    BY <2>1, KmsReqKinds DEF KmsInv
  <2>3. keys[req[c].id] \in Key
    BY <2>1, <2>2 DEF KmsInv, KeysInv, KmsTypes
  <2>4. keys' = [keys EXCEPT ![req[c].id] = key] /\ UNCHANGED <<seq, material, issued, replaced>> /\ Ends(c, None)
    BY <2>1 DEF SetsKey
  <2>5. ReqTypes' /\ backend' = backend
    BY <2>4, KmsEnds DEF KmsInv
  <2>6. KeysInv'
    BY <2>1, <2>2, <2>3, <2>4, <2>5, KeyChanges DEF KmsInv
  <2> QED
    BY <2>5, <2>6 DEF KmsInv
<1> QED
  BY <1>1, <1>2

\* Encryption, on every backend.
LEMMA SealsKeeps ==
    ASSUME KmsInv, NEW c \in Clients, req[c] # Idle, Seals(c) PROVE KmsInv'
<1>1. CASE ~Enabled(c)
  BY <1>1, FailsOrReads DEF Seals
<1>2. CASE Enabled(c)
  <2>1. req[c].id \in KeyIds /\ keys[req[c].id] # None
    BY <1>2, KmsReqKinds DEF Enabled, Has, KeyOf, KmsInv
  <2>2. issued' = issued \cup {[id |-> req[c].id, by |-> keys[req[c].id].latest]}
        /\ UNCHANGED <<keys, seq, material, replaced>> /\ Ends(c, None)
    BY <1>2 DEF Seals, KeyOf
  <2>3. ReqTypes' /\ backend' = backend
    BY <2>2, KmsEnds DEF KmsInv
  <2>4. KeysInv'
    BY <2>1, <2>2, <2>3, TextComes DEF KmsInv
  <2> QED
    BY <2>3, <2>4 DEF KmsInv
<1> QED
  BY <1>1, <1>2

\* Decryption changes nothing.
LEMMA OpensKeeps ==
    ASSUME KmsInv, NEW c \in Clients, NEW k, Opens(c, k) PROVE KmsInv'
<1>1. PICK says : Ends(c, says)
  BY DEF Opens, Fails
<1>2. UNCHANGED <<keys, seq, material, issued, replaced>>
  BY DEF Opens, kmsVars
<1> QED
  BY <1>1, <1>2, EndsOnly

\* A key is made under an id that is free, or a generated one.
LEMMA MakesKeyKeeps ==
    ASSUME KmsInv, NEW c \in Clients, NEW k \in KeyIds, NEW key,
           material < MaxMaterial => key \in Key /\ key.latest \in key.decrypts,
           Spares(k), replaced \subseteq replaced', replaced' \subseteq 1..MaxMaterial,
           MakesKey(c, k, key),
           \/ backend # "aws" /\ seq' = seq
           \/ k = seq + 1 /\ seq' = seq + 1
    PROVE  KmsInv'
<1>1. /\ material < MaxMaterial /\ keys' = [keys EXCEPT ![k] = key] /\ material' = material + 1
      /\ UNCHANGED issued /\ Ends(c, None)
  BY DEF MakesKey
<1>2. ReqTypes' /\ backend' = backend
  BY <1>1, KmsEnds DEF KmsInv
<1>3. KeysInv'
  BY <1>1, <1>2, KeyComes DEF KmsInv
<1> QED
  BY <1>2, <1>3 DEF KmsInv

\* CreateKey with a generated id (inmem, aws).
LEMMA GeneratedKeeps ==
    ASSUME KmsInv, NEW c \in Clients, seq' = seq + 1, MakesKey(c, seq + 1, NewKey),
           \/ backend = "inmem" /\ replaced' = replaced \cup Materials(seq + 1)
           \/ backend = "aws" /\ replaced' = replaced
    PROVE  KmsInv'
<1>1. material < MaxMaterial
  BY DEF MakesKey
<1>2. seq + 1 \in 1..MaxMaterial /\ seq + 1 > seq
  BY <1>1, MaterialIsCounted DEF KmsInv, KeysInv, KmsTypes
<1>a. seq + 1 \in KeyIds
  BY <1>2 DEF KeyIds
<1>b. keys[seq + 1] # None => keys[seq + 1] \in Key
  BY <1>a DEF KmsInv, KeysInv, KmsTypes
<1>c. Materials(seq + 1) \subseteq 1..MaxMaterial
  BY <1>b DEF Materials, Key
<1>d. replaced \subseteq replaced' /\ replaced' \subseteq 1..MaxMaterial
  BY <1>c DEF KmsInv, KeysInv, KmsTypes
<1>3. Spares(seq + 1)
  <2>1. CASE backend = "aws"
    BY <1>2, <2>1 DEF Spares, KmsInv, KeysInv, Fresh
  <2>2. CASE backend = "inmem"
    <3> SUFFICES ASSUME NEW ct \in issued, ct.id = seq + 1 PROVE ct.by \in replaced'
      BY <2>2 DEF Spares
    <3>1. keys[seq + 1] # None
      BY <2>2 DEF KmsInv, KeysInv, Kept
    <3>2. ct.by \in replaced \/ ct.by \in keys[seq + 1].decrypts
      BY <2>2, <3>1 DEF KmsInv, KeysInv, StillReadable
    <3> QED
      BY <2>2, <3>1, <3>2 DEF Materials
  <2> QED
    BY <2>1, <2>2
<1>4. NewKey \in Key /\ NewKey.latest \in NewKey.decrypts
  BY <1>1, NewKeyIsKey DEF KmsInv, KeysInv
<1> QED
  BY <1>3, <1>4, <1>a, <1>d, MakesKeyKeeps

\* CreateKey with an id the caller chose and nobody has (inmem, gcp).
LEMMA ChosenKeeps ==
    ASSUME KmsInv, NEW c \in Clients, req[c] # Idle, req[c].op = "create", req[c].id # 0, ~Has(c),
           backend \in {"inmem", "gcp"}, seq' = seq, UNCHANGED replaced, MakesKey(c, req[c].id, NewKey)
    PROVE  KmsInv'
<1>1. req[c].id \in ChosenIds /\ req[c].id \in KeyIds
  BY KmsReqKinds DEF CreateReqs, KeyIds, KmsInv
<1>2. Spares(req[c].id) /\ replaced \subseteq 1..MaxMaterial
  BY DEF Has, KeyOf, KmsInv, KeysInv, KmsTypes, Kept, Spares
<1>3. material < MaxMaterial => NewKey \in Key /\ NewKey.latest \in NewKey.decrypts
  BY NewKeyIsKey DEF KmsInv, KeysInv
<1> QED
  BY <1>1, <1>2, <1>3, MakesKeyKeeps

\* What the operations on one key make of it.
LEMMA EditsOfKey ==
    ASSUME NEW k \in Key
    PROVE  /\ \A st \in {"enabled", "pending", "disabled"} :
                /\ [k EXCEPT !.state = st] \in Key
                /\ [k EXCEPT !.state = st].latest = k.latest
                /\ [k EXCEPT !.state = st].decrypts = k.decrypts
           /\ \A b \in BOOLEAN :
                /\ [k EXCEPT !.rotates = b] \in Key
                /\ [k EXCEPT !.rotates = b].latest = k.latest
                /\ [k EXCEPT !.rotates = b].decrypts = k.decrypts
  BY DEF Key

\* The same, as the actions apply them.
LEMMA EditKeeps ==
    ASSUME KmsInv, NEW c \in Clients, req[c] # Idle, NEW allowed \in BOOLEAN, allowed => Has(c),
           \/ \E st \in {"enabled", "pending", "disabled"} :
                Changes(c, allowed, [KeyOf(c) EXCEPT !.state = st])
           \/ \E b \in BOOLEAN : Changes(c, allowed, [KeyOf(c) EXCEPT !.rotates = b])
    PROVE  KmsInv'
<1>1. ASSUME NEW st \in {"enabled", "pending", "disabled"},
             Changes(c, allowed, [KeyOf(c) EXCEPT !.state = st])
      PROVE  KmsInv'
  <2> DEFINE key == [KeyOf(c) EXCEPT !.state = st]
  <2>1. keys[req[c].id] \in Key =>
          key \in Key /\ key.latest = keys[req[c].id].latest /\ key.decrypts = keys[req[c].id].decrypts
    BY EditsOfKey DEF KeyOf
  <2> HIDE DEF key
  <2>2. Changes(c, allowed, key)
    BY <1>1 DEF key
  <2> QED
    BY <2>1, <2>2, ChangesKeeps
<1>2. ASSUME NEW b \in BOOLEAN, Changes(c, allowed, [KeyOf(c) EXCEPT !.rotates = b])
      PROVE  KmsInv'
  <2> DEFINE key == [KeyOf(c) EXCEPT !.rotates = b]
  <2>1. keys[req[c].id] \in Key =>
          key \in Key /\ key.latest = keys[req[c].id].latest /\ key.decrypts = keys[req[c].id].decrypts
    BY EditsOfKey DEF KeyOf
  <2> HIDE DEF key
  <2>2. Changes(c, allowed, key)
    BY <1>2 DEF key
  <2> QED
    BY <2>1, <2>2, ChangesKeeps
<1> QED
  BY <1>1, <1>2

\* When an edit is allowed, the key is there.
LEMMA AllowedHasKey ==
    ASSUME NEW c \in Clients
    PROVE  /\ Has(c) \in BOOLEAN
           /\ Enabled(c) \in BOOLEAN /\ (Enabled(c) => Has(c))
           /\ LET p == IF Has(c) THEN KeyOf(c).state = "pending" ELSE FALSE IN
                p \in BOOLEAN /\ (p => Has(c))
           /\ LET p == IF Has(c) THEN KeyOf(c).state # "pending" ELSE FALSE IN
                p \in BOOLEAN /\ (p => Has(c))
  BY DEF Has, Enabled

\* A key ring is made, or looked for, without touching a key.
LEMMA RingKeeps ==
    ASSUME KmsInv, NEW c \in Clients, req[c] # Idle,
           CreateRingCheck(c) \/ InmemCreateKeyRing(c) \/ GcpMakesRing(c)
    PROVE  KmsInv'
<1>1. CASE InmemCreateKeyRing(c) \/ GcpMakesRing(c)
  BY <1>1, EndsOnly DEF InmemCreateKeyRing, GcpMakesRing
<1>2. CASE CreateRingCheck(c)
  <2> DEFINE r == [req[c] EXCEPT !.at = "first"]
  <2>1. r \in KmsReq
    BY KmsReqKinds DEF KmsInv, KmsReq, CreateReqs, KeyReqs, DecryptReqs, Stage
  <2>2. UNCHANGED <<keys, seq, material, issued, replaced>> /\ (Fails(c) \/ Goes(c, r))
    BY <1>2 DEF CreateRingCheck, kmsVars
  <2> HIDE DEF r
  <2>3. CASE Fails(c)
    BY <2>2, <2>3, EndsOnly DEF Fails
  <2>4. CASE Goes(c, r)
    BY <2>1, <2>2, <2>4, ReqStays, KeysStay DEF Goes, KmsInv
  <2> QED
    BY <2>2, <2>3, <2>4
<1> QED
  BY <1>1, <1>2

\* The calls of inmem.
LEMMA InmemKeeps ==
    ASSUME KmsInv, NEW c \in Clients, req[c] # Idle,
           \/ InmemCreateKey(c) \/ InmemEncrypt(c) \/ InmemDecrypt(c)
           \/ InmemScheduleKeyDeletion(c) \/ InmemCancelKeyDeletion(c)
           \/ InmemEnableKeyRotation(c) \/ InmemDisableKeyRotation(c)
           \/ InmemCreateKeyRing(c) \/ InmemDescribeKey(c)
    PROVE  KmsInv'
<1>1. CASE InmemCreateKey(c)
  <2>1. req[c].op = "create" /\ backend = "inmem"
    BY <1>1 DEF InmemCreateKey, Is
  <2>2. CASE req[c].id # 0 /\ Has(c)
    BY <1>1, <2>2, EndsOnly DEF InmemCreateKey, Taken, Fails
  <2>3. CASE req[c].id # 0 /\ ~Has(c)
    BY <1>1, <2>1, <2>3, ChosenKeeps DEF InmemCreateKey, Taken
  <2>4. CASE req[c].id = 0
    BY <1>1, <2>1, <2>4, GeneratedKeeps DEF InmemCreateKey
  <2> QED
    BY <2>2, <2>3, <2>4
<1>2. CASE InmemEncrypt(c)
  BY <1>2, SealsKeeps DEF InmemEncrypt
<1>3. CASE InmemDecrypt(c)
  BY <1>3, OpensKeeps DEF InmemDecrypt
<1>4. CASE InmemScheduleKeyDeletion(c) \/ InmemCancelKeyDeletion(c)
  BY <1>4, EditKeeps, AllowedHasKey DEF InmemScheduleKeyDeletion, InmemCancelKeyDeletion
<1>5. CASE InmemEnableKeyRotation(c) \/ InmemDisableKeyRotation(c)
  BY <1>5, EditKeeps, AllowedHasKey DEF InmemEnableKeyRotation, InmemDisableKeyRotation
<1>6. CASE InmemCreateKeyRing(c)
  BY <1>6, RingKeeps
<1>7. CASE InmemDescribeKey(c)
  BY <1>7, FailsOrReads DEF InmemDescribeKey
<1> QED
  BY <1>1, <1>2, <1>3, <1>4, <1>5, <1>6, <1>7

\* The calls of aws.
LEMMA AwsKeeps ==
    ASSUME KmsInv, NEW c \in Clients, req[c] # Idle,
           \/ AwsMakesKey(c) \/ AwsSeals(c) \/ AwsOpens(c) \/ AwsSchedules(c)
           \/ AwsCancels(c) \/ AwsEnables(c) \/ AwsDisables(c) \/ AwsKeyRing(c)
           \/ AwsDescribes(c) \/ AwsListsTags(c)
    PROVE  KmsInv'
<1>1. CASE AwsMakesKey(c)
  BY <1>1, GeneratedKeeps DEF AwsMakesKey, Is
<1>2. CASE AwsSeals(c) \/ AwsOpens(c)
  BY <1>2, SealsKeeps, OpensKeeps DEF AwsSeals, AwsOpens
<1>3. CASE AwsSchedules(c) \/ AwsCancels(c)
  BY <1>3, EditKeeps, AllowedHasKey DEF AwsSchedules, AwsCancels
<1>4. CASE AwsEnables(c) \/ AwsDisables(c)
  BY <1>4, EditKeeps, AllowedHasKey DEF AwsEnables, AwsDisables
<1>5. CASE AwsKeyRing(c) \/ AwsListsTags(c)
  BY <1>5, FailsOrReads DEF AwsKeyRing, AwsListsTags
<1>6. CASE AwsDescribes(c)
  <2> DEFINE r == [req[c] EXCEPT !.at = "tags"]
  <2>1. r \in KmsReq
    BY KmsReqKinds DEF KmsInv, KmsReq, CreateReqs, KeyReqs, DecryptReqs, Stage
  <2>2. UNCHANGED <<keys, seq, material, issued, replaced>> /\ (Fails(c) \/ Goes(c, r))
    BY <1>6 DEF AwsDescribes, kmsVars
  <2> HIDE DEF r
  <2>3. CASE Fails(c)
    BY <2>2, <2>3, EndsOnly DEF Fails
  <2>4. CASE Goes(c, r)
    BY <2>1, <2>2, <2>4, ReqStays, KeysStay DEF Goes, KmsInv
  <2> QED
    BY <2>2, <2>3, <2>4
<1> QED
  BY <1>1, <1>2, <1>3, <1>4, <1>5, <1>6

\* The calls of gcp.
LEMMA GcpKeeps ==
    ASSUME KmsInv, NEW c \in Clients, req[c] # Idle,
           \/ GcpMakesKey(c) \/ GcpSeals(c) \/ GcpOpens(c) \/ GcpSchedules(c)
           \/ GcpCancels(c) \/ GcpEnables(c) \/ GcpDisables(c) \/ GcpMakesRing(c)
           \/ GcpDescribes(c)
    PROVE  KmsInv'
<1>1. CASE GcpMakesKey(c)
  <2>1. req[c].op = "create" /\ backend = "gcp"
    BY <1>1 DEF GcpMakesKey, Is
  <2>2. CASE req[c].id = 0 \/ Has(c)
    BY <1>1, <2>2, EndsOnly DEF GcpMakesKey, Fails
  <2>3. CASE req[c].id # 0 /\ ~Has(c)
    BY <1>1, <2>1, <2>3, ChosenKeeps DEF GcpMakesKey
  <2> QED
    BY <2>2, <2>3
<1>2. CASE GcpSeals(c) \/ GcpOpens(c)
  BY <1>2, SealsKeeps, OpensKeeps DEF GcpSeals, GcpOpens
<1>3. CASE GcpEnables(c) \/ GcpDisables(c)
  BY <1>3, EditKeeps, AllowedHasKey DEF GcpEnables, GcpDisables
<1>4. CASE GcpSchedules(c) \/ GcpCancels(c) \/ GcpDescribes(c)
  BY <1>4, FailsOrReads DEF GcpSchedules, GcpCancels, GcpDescribes
<1>5. CASE GcpMakesRing(c)
  BY <1>5, RingKeeps
<1> QED
  BY <1>1, <1>2, <1>3, <1>4, <1>5

\* The calls of azure, of which only the types are kept.
LEMMA AzureKeeps ==
    ASSUME KmsInv, NEW c \in Clients, req[c] # Idle,
           \/ AzureMakesKey(c) \/ AzureSeals(c) \/ AzureOpens(c)
           \/ AzureSchedules(c) \/ AzureCancels(c) \/ AzureEnables(c)
           \/ AzureDisables(c) \/ AzureKeyRing(c) \/ AzureDescribes(c)
    PROVE  KmsInv'
<1>1. CASE AzureMakesKey(c)
  <2>1. req[c].op = "create" /\ backend = "azure" /\ seq' = seq
    BY <1>1 DEF AzureMakesKey, Is
  <2>2. CASE req[c].id = 0 \/ (Has(c) /\ ~Enabled(c))
    BY <1>1, <2>1, <2>2, EndsOnly DEF AzureMakesKey, Fails
  <2>3. CASE ~(req[c].id = 0 \/ (Has(c) /\ ~Enabled(c)))
    <3>1. req[c].id \in ChosenIds /\ req[c].id \in KeyIds
      BY <2>1, <2>3, KmsReqKinds DEF CreateReqs, KeyIds, KmsInv
    <3>2. MakesKey(c, req[c].id, Latest(NewKey)) /\ UNCHANGED replaced
      BY <1>1, <2>3 DEF AzureMakesKey
    <3>4. Spares(req[c].id) /\ replaced \subseteq 1..MaxMaterial
      BY <2>1 DEF Spares, KmsInv, KeysInv, KmsTypes
    <3>3. material < MaxMaterial =>
            Latest(NewKey) \in Key /\ Latest(NewKey).latest \in Latest(NewKey).decrypts
      BY NewKeyIsKey DEF Latest, Key, KmsInv, KeysInv
    <3> QED
      BY <2>1, <3>1, <3>2, <3>3, <3>4, MakesKeyKeeps
  <2> QED
    BY <2>2, <2>3
<1>2. CASE AzureSeals(c) \/ AzureOpens(c)
  BY <1>2, SealsKeeps, OpensKeeps DEF AzureSeals, AzureOpens
<1>3. CASE AzureSchedules(c) \/ AzureCancels(c)
  BY <1>3, EditKeeps, AllowedHasKey DEF AzureSchedules, AzureCancels
<1>4. CASE AzureEnables(c) \/ AzureDisables(c)
  BY <1>4, EditKeeps, AllowedHasKey DEF AzureEnables, AzureDisables
<1>5. CASE AzureKeyRing(c) \/ AzureDescribes(c)
  BY <1>5, FailsOrReads DEF AzureKeyRing, AzureDescribes
<1> QED
  BY <1>1, <1>2, <1>3, <1>4, <1>5

\* A request that arrives changes nothing else.
LEMMA KmsAskKeeps ==
    ASSUME KmsInv, NEW c \in Clients, NEW r \in KmsReq, AsksKms(c, r) PROVE KmsInv'
<1>1. req' = [req EXCEPT ![c] = r] /\ UNCHANGED <<keys, seq, material, issued, replaced, backend>>
  BY DEF AsksKms, Begin, kmsVars
<1> QED
  BY <1>1, ReqStays, KeysStay DEF KmsInv

\* Every request the frontends make is of a known kind.
LEMMA KmsRequestsKeep ==
    ASSUME KmsInv, NEW c \in Clients, KmsRequests(c) PROVE KmsInv'
<1>1. ASSUME NEW op \in {"describe", "encrypt", "schedule", "cancel", "enable", "disable"}, AsksOfKey(c, op)
      PROVE  KmsInv'
  <2>1. PICK k \in KeyIds : AsksKms(c, KeyRequest(op, "first", k))
    BY <1>1 DEF AsksOfKey
  <2>2. KeyRequest(op, "first", k) \in KmsReq
    BY <1>1 DEF KeyRequest, KmsReq, KeyReqs, Stage
  <2> QED
    BY <2>1, <2>2, KmsAskKeeps
<1>2. ASSUME NEW named \in BOOLEAN, AsksDecrypt(c, named) PROVE KmsInv'
  <2>1. PICK ct \in issued, k \in KeyIds \cup {0} :
          AsksKms(c, [op |-> "decrypt", at |-> "first", id |-> k, of |-> ct])
    BY <1>2 DEF AsksDecrypt
  <2>2. ct \in Text
    BY DEF KmsInv, KeysInv, KmsTypes
  <2>3. [op |-> "decrypt", at |-> "first", id |-> k, of |-> ct] \in KmsReq
    BY <2>2 DEF KmsReq, DecryptReqs, Stage
  <2> QED
    BY <2>1, <2>3, KmsAskKeeps
<1>3. ASSUME NEW at \in Stage, NEW k \in ChosenIds \cup {0}, AsksKms(c, KeyRequest("create", at, k))
      PROVE  KmsInv'
  <2>1. KeyRequest("create", at, k) \in KmsReq
    BY <1>3 DEF KeyRequest, KmsReq, CreateReqs
  <2> QED
    BY <1>3, <2>1, KmsAskKeeps
<1>4. CASE AwsCreateKey(c) \/ GcpCreateCryptoKey(c) \/ AzureCreateKey(c)
  BY <1>3, <1>4 DEF AwsCreateKey, GcpCreateCryptoKey, AzureCreateKey, Stage
<1>5. CASE GcpCreateKeyRing(c)
  <2>1. KeyRequest("ring", "first", 0) \in KmsReq
    BY DEF KeyRequest, KmsReq, KeyReqs, Stage
  <2> QED
    BY <1>5, <2>1, KmsAskKeeps DEF GcpCreateKeyRing
<1>6. CASE AwsDecrypt(c) \/ GcpDecrypt(c) \/ AzureDecrypt(c)
  BY <1>2, <1>6 DEF AwsDecrypt, GcpDecrypt, AzureDecrypt
<1>7. CASE \/ AwsDescribeKey(c) \/ AwsEncrypt(c) \/ AwsScheduleKeyDeletion(c) \/ AwsCancelKeyDeletion(c)
           \/ AwsEnableKeyRotation(c) \/ AwsDisableKeyRotation(c)
  BY <1>1, <1>7 DEF AwsDescribeKey, AwsEncrypt, AwsScheduleKeyDeletion, AwsCancelKeyDeletion,
     AwsEnableKeyRotation, AwsDisableKeyRotation
<1>8. CASE GcpDestroyCryptoKeyVersion(c) \/ GcpPatchCryptoKey(c) \/ GcpEncrypt(c)
  BY <1>1, <1>8 DEF GcpDestroyCryptoKeyVersion, GcpPatchCryptoKey, GcpEncrypt
<1>9. CASE AzureDeleteKey(c) \/ AzureEncrypt(c)
  BY <1>1, <1>9 DEF AzureDeleteKey, AzureEncrypt
<1> QED
  BY <1>4, <1>5, <1>6, <1>7, <1>8, <1>9 DEF KmsRequests, CloudKms, KeyVaultKeys

\* Every step of a key service keeps the invariant.
LEMMA KmsStepKeeps == KmsInv /\ [KmsNext]_<<shimVars, kmsVars>> => KmsInv'
<1> SUFFICES ASSUME KmsInv, [KmsNext]_<<shimVars, kmsVars>> PROVE KmsInv'
  OBVIOUS
<1>1. CASE UNCHANGED <<shimVars, kmsVars>>
  <2>1. UNCHANGED <<keys, seq, material, issued, replaced, backend, req>>
    BY <1>1 DEF shimVars, kmsVars
  <2> QED
    BY <2>1, KeysStay DEF KmsInv, ReqTypes
<1>2. ASSUME NEW c \in Clients, KmsRequests(c) PROVE KmsInv'
  BY <1>2, KmsRequestsKeep
<1>3. ASSUME NEW c \in Clients, KmsCall(c) PROVE KmsInv'
  BY <1>3, RingKeeps, InmemKeeps, AwsKeeps, GcpKeeps, AzureKeeps DEF KmsCall
<1>4. ASSUME NEW c \in Clients, Dies(c), UNCHANGED kmsVars PROVE KmsInv'
  BY <1>4, EndsOnly DEF Dies, Fails, kmsVars
<1>5. ASSUME NEW k \in KeyIds, CloudRotates(k) \/ CloudForgets(k), UNCHANGED <<service, backend, req, alone>>
      PROVE  KmsInv'
  BY <1>5, CloudRotatesKeeps, CloudForgetsKeeps DEF KmsInv, ReqTypes
<1> QED
  BY <1>1, <1>2, <1>3, <1>4, <1>5 DEF KmsNext

\* On inmem, gcp and aws, for any number of requests, keys and rotations: a
\* ciphertext an Encrypt has returned can be decrypted for as long as there is
\* a key of its id, however keys were created, rotated, scheduled for deletion
\* and recovered since; except when inmem has generated the id that a caller had
\* given to that key.
THEOREM CiphertextsStayReadable == KmsSpec => []StillReadable
<1>1. ShimInit /\ KmsInit => KmsInv
  <2> SUFFICES ASSUME ShimInit, KmsInit PROVE KmsInv
    OBVIOUS
  <2>1. KmsTypes /\ ReqTypes
    BY MaterialIsCounted DEF ShimInit, KmsInit, KmsTypes, ReqTypes
  <2>2. Encrypts /\ StillReadable /\ Kept /\ Fresh
    BY DEF KmsInit, Encrypts, StillReadable, Kept, Fresh, KeyIds
  <2> QED
    BY <2>1, <2>2 DEF KmsInv, KeysInv
<1>2. KmsInv => StillReadable
  BY DEF KmsInv, KeysInv
<1> QED
  BY <1>1, <1>2, KmsStepKeeps, PTL DEF KmsSpec
=============================================================================
