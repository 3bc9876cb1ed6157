--------------------------- MODULE MachinesProofs ---------------------------
(***************************************************************************)
(* AttachmentKept and AssuredKept: what was attached or added, and         *)
(* acknowledged, stays until a call takes it away, for every set of        *)
(* clients and names and every bound.                                      *)
(*                                                                         *)
(* A volume is attached to one instance at a time (Exclusive), so that     *)
(* detaching it from one takes it from nobody else. A target group is the  *)
(* only one of its identifier (PoolsOnce), so that the one a request       *)
(* writes back replaces no other.                                          *)
(*                                                                         *)
(* PutIsIdempotent: what an undisturbed PUT of a virtual machine has found *)
(* still holds when it creates (PutPromise), because an instance made for  *)
(* a name bears it and an identifier is no name (VmState).                 *)
(*                                                                         *)
(* GrantsKept: a security group is the only one of its identifier          *)
(* (GroupsOnce), which is new when it is generated (GroupsNumbered), so    *)
(* that writing one group back takes an acknowledged rule from no other.   *)
(* A policy of k8s files a rule as its own (Filed).                        *)
(*                                                                         *)
(* FirewallAsAsked: the removals an undisturbed request has still to make  *)
(* cover what is left of the old rules; from the last of them on, the      *)
(* rules in force and those still to be added are those of the body        *)
(* (FwLeft), which are what it asks for (BodyAsked). On k8s every removal  *)
(* finds a rule, since a rule of a policy matches itself (RuleList).       *)
(*                                                                         *)
(* ForwardingRuleDeletesParts: what is there of the load balancer has its  *)
(* deletion, or the listing it will be found by, among the calls that an   *)
(* undisturbed deletion has still to make (PartsLeft).                     *)
(***************************************************************************)
EXTENDS Machines, LoadBalancer, Network, Integers, TLAPS

-----------------------------------------------------------------------------
(* Machines: acknowledged attachments *)

VmRec(m) == [id |-> m.id, name |-> m.name, asked |-> m.asked, state |-> m.state, disks |-> m.disks]
MachineShaped == \A m \in machines : m = VmRec(m)
\* A volume is attached to one instance.
Exclusive == \A m \in machines, n \in machines : m.disks \cap n.disks # {} => m.id = n.id
Attachments == \A a \in attached : \E m \in machines : m.id = a[2] /\ a[1] \in m.disks
\* backend is fixed: the clouds of which AttachmentKept is claimed.
VmCloud == backend \in {"inmem", "gcp", "aws"}
MachineInv == VmCloud => MachineShaped /\ Exclusive /\ Attachments

LEMMA StateSet ==
    ASSUME NEW m, m = VmRec(m), NEW s
    PROVE  LET n == [m EXCEPT !.state = s] IN n = VmRec(n) /\ n.id = m.id /\ n.disks = m.disks
<1>1. [m EXCEPT !.state = s] = [id |-> m.id, name |-> m.name, asked |-> m.asked, state |-> s, disks |-> m.disks]
  BY DEF VmRec
<1> QED
  BY <1>1 DEF VmRec

LEMMA DisksSet ==
    ASSUME NEW m, m = VmRec(m), NEW d
    PROVE  LET n == [m EXCEPT !.disks = d] IN n = VmRec(n) /\ n.id = m.id /\ n.disks = d
<1>1. [m EXCEPT !.disks = d] = [id |-> m.id, name |-> m.name, asked |-> m.asked, state |-> m.state, disks |-> d]
  BY DEF VmRec
<1> QED
  BY <1>1 DEF VmRec

\* Steps that leave the instances and the history as they were.
LEMMA MachinesIdle ==
    ASSUME MachineInv, UNCHANGED <<machines, attached, backend>>
    PROVE  MachineInv'
BY DEF MachineInv, VmCloud, MachineShaped, Exclusive, Attachments

LEMMA NewMachine ==
    ASSUME NEW id, NEW name, NEW asked
    PROVE  Machine(id, name, asked) = VmRec(Machine(id, name, asked)) /\ Machine(id, name, asked).disks = {}
BY DEF Machine, VmRec

LEMMA MachinesAdded ==
    ASSUME MachineInv, VmCloud, backend' = backend, attached' = attached, NEW new,
           machines' = machines \cup new, \A m \in new : m = VmRec(m) /\ m.disks = {}
    PROVE  MachineInv'
<1>1. MachineShaped'
  BY DEF MachineInv, MachineShaped
<1>2. Exclusive'
  BY DEF MachineInv, Exclusive
<1>3. Attachments'
  BY DEF MachineInv, Attachments
<1> QED
  BY <1>1, <1>2, <1>3 DEF MachineInv

LEMMA MachinesMoved ==
    ASSUME MachineInv, VmCloud, backend' = backend, attached' = attached, NEW ids, NEW state, MovesTo(ids, state)
    PROVE  MachineInv'
<1>1. \A m \in machines : LET n == InState(m, state)
                          IN  n = VmRec(n) /\ n.id = m.id /\ n.disks = m.disks
  BY StateSet DEF MachineInv, MachineShaped, InState
<1>2. \A m \in machines' : \E n \in machines : m.id = n.id /\ m.disks = n.disks
  BY <1>1 DEF MovesTo
<1>3. \A n \in machines : \E m \in machines' : m.id = n.id /\ m.disks = n.disks
  BY <1>1 DEF MovesTo
<1>4. MachineShaped'
  BY <1>1 DEF MachineInv, MachineShaped, MovesTo
<1>5. Exclusive'
  BY <1>2 DEF MachineInv, Exclusive
<1>6. Attachments'
  BY <1>3 DEF MachineInv, Attachments
<1> QED
  BY <1>4, <1>5, <1>6 DEF MachineInv

\* An instance goes, or keeps its record without volumes.
LEMMA MachinesDropped ==
    ASSUME MachineInv, VmCloud, backend' = backend, NEW ids,
           \/ machines' = {m \in machines : m.id \notin ids}
           \/ machines' = {IF m.id \in ids THEN [InState(m, "terminated") EXCEPT !.disks = {}] ELSE m :
                              m \in machines},
           attached' = {a \in attached : a[2] \notin ids}
    PROVE  MachineInv'
<1> DEFINE Ended(m) == [InState(m, "terminated") EXCEPT !.disks = {}]
<1>1. \A m \in machines : LET n == Ended(m)
                          IN  n = VmRec(n) /\ n.id = m.id /\ n.disks = {}
  <2>1. \A m \in machines : LET n == InState(m, "terminated") IN n = VmRec(n) /\ n.id = m.id
    BY StateSet DEF MachineInv, MachineShaped, InState
  <2> QED
    BY <2>1, DisksSet
<1>2. \/ machines' = {m \in machines : m.id \notin ids}
      \/ machines' = {IF m.id \in ids THEN Ended(m) ELSE m : m \in machines}
  OBVIOUS
<1> HIDE DEF Ended
<1>3. \A m \in machines' : m \in machines \/ \E n \in machines : m = Ended(n)
  <2>1. CASE machines' = {m \in machines : m.id \notin ids}
    BY <2>1
  <2>2. CASE machines' = {IF m.id \in ids THEN Ended(m) ELSE m : m \in machines}
    BY <2>2
  <2> QED
    BY <1>2, <2>1, <2>2
<1>4. \A m \in machines : m.id \notin ids => m \in machines'
  BY <1>2
<1>5. MachineShaped'
  BY <1>1, <1>3 DEF MachineInv, MachineShaped
<1>6. Exclusive'
  <2>1. \A m \in machines' : m.disks # {} => m \in machines
    BY <1>1, <1>3
  <2> QED
    BY <2>1 DEF MachineInv, Exclusive
<1>7. Attachments'
  BY <1>4 DEF MachineInv, Attachments
<1> QED
  BY <1>5, <1>6, <1>7 DEF MachineInv

\* A volume that nobody holds is given to an instance that is there.
LEMMA MachinesGiven ==
    ASSUME MachineInv, VmCloud, backend' = backend, NEW v, NEW i, Gives(v, i),
           Holds(v) = {}, i \in IdsOf(machines), attached' = attached \cup {<<v, i>>}
    PROVE  MachineInv'
<1> DEFINE Has(m) == [m EXCEPT !.disks = @ \cup {v}]
<1> DEFINE Not(m) == [m EXCEPT !.disks = @ \ {v}]
<1>1. \A m \in machines :
        /\ Has(m) = VmRec(Has(m)) /\ Has(m).id = m.id /\ Has(m).disks = m.disks \cup {v}
        /\ Not(m) = VmRec(Not(m)) /\ Not(m).id = m.id /\ Not(m).disks = m.disks \ {v}
  BY DisksSet DEF MachineInv, MachineShaped
<1>2. machines' = {IF m.id = i THEN Has(m) ELSE Not(m) : m \in machines}
  BY DEF Gives
<1> HIDE DEF Has, Not
<1>3. \A m \in machines : v \notin m.disks
  BY DEF Holds
<1>4. \A m \in machines' : \E n \in machines :
        /\ m.id = n.id /\ m = VmRec(m)
        /\ m.disks = n.disks \cup (IF n.id = i THEN {v} ELSE {})
  BY <1>1, <1>2, <1>3
<1>5. \A n \in machines : \E m \in machines' :
        m.id = n.id /\ m.disks = n.disks \cup (IF n.id = i THEN {v} ELSE {})
  BY <1>1, <1>2, <1>3
<1>6. MachineShaped'
  BY <1>4 DEF MachineShaped
<1>7. Exclusive'
  <2> SUFFICES ASSUME NEW m \in machines', NEW n \in machines', NEW x \in m.disks \cap n.disks
               PROVE  m.id = n.id
    BY DEF Exclusive
  <2>1. PICK k \in machines : m.id = k.id /\ m.disks = k.disks \cup (IF k.id = i THEN {v} ELSE {})
    BY <1>4
  <2>2. PICK l \in machines : n.id = l.id /\ n.disks = l.disks \cup (IF l.id = i THEN {v} ELSE {})
    BY <1>4
  <2>3. CASE x = v
    BY <2>1, <2>2, <2>3, <1>3
  <2>4. CASE x # v
    <3>1. x \in k.disks \cap l.disks
      BY <2>1, <2>2, <2>4
    <3> QED
      BY <2>1, <2>2, <3>1 DEF MachineInv, Exclusive
  <2> QED
    BY <2>3, <2>4
<1>8. Attachments'
  <2>1. PICK n \in machines : n.id = i
    BY DEF IdsOf
  <2> SUFFICES ASSUME NEW a \in attached'
               PROVE  \E m \in machines' : m.id = a[2] /\ a[1] \in m.disks
    BY DEF Attachments
  <2>2. CASE a \in attached
    <3>1. PICK k \in machines : k.id = a[2] /\ a[1] \in k.disks
      BY <2>2 DEF MachineInv, Attachments
    <3> QED
      BY <1>5, <3>1
  <2>3. CASE a = <<v, i>>
    <3>1. a[1] = v /\ a[2] = i
      BY <2>3
    <3>2. PICK m \in machines' : m.id = n.id /\ m.disks = n.disks \cup (IF n.id = i THEN {v} ELSE {})
      BY <1>5
    <3> QED
      BY <2>1, <3>1, <3>2
  <2> QED
    BY <2>2, <2>3
<1> QED
  BY <1>6, <1>7, <1>8 DEF MachineInv

\* A volume is taken from the one instance that holds it.
LEMMA MachinesFreed ==
    ASSUME MachineInv, VmCloud, backend' = backend, NEW v, Frees(v),
           \A a \in attached' : a \in attached /\ a[1] # v
    PROVE  MachineInv'
<1> DEFINE Not(m) == [m EXCEPT !.disks = @ \ {v}]
<1>1. \A m \in machines : Not(m) = VmRec(Not(m)) /\ Not(m).id = m.id /\ Not(m).disks = m.disks \ {v}
  BY DisksSet DEF MachineInv, MachineShaped
<1>2. machines' = {Not(m) : m \in machines}
  BY DEF Frees
<1> HIDE DEF Not
<1>3. \A m \in machines' : \E n \in machines : m.id = n.id /\ m.disks = n.disks \ {v} /\ m = VmRec(m)
  BY <1>1, <1>2
<1>4. \A n \in machines : \E m \in machines' : m.id = n.id /\ m.disks = n.disks \ {v}
  BY <1>1, <1>2
<1>5. MachineShaped'
  BY <1>3 DEF MachineShaped
<1>6. Exclusive'
  BY <1>3 DEF MachineInv, Exclusive
<1>7. Attachments'
  BY <1>4 DEF MachineInv, Attachments
<1> QED
  BY <1>5, <1>6, <1>7 DEF MachineInv

\* The attachment of a volume that an instance holds is to that instance.
LEMMA AttachedWhereHeld ==
    ASSUME MachineInv, VmCloud, NEW a \in attached, NEW m \in machines, a[1] \in m.disks
    PROVE  a[2] = m.id
<1>1. PICK n \in machines : n.id = a[2] /\ a[1] \in n.disks
  BY DEF MachineInv, Attachments
<1> QED
  BY <1>1 DEF MachineInv, Exclusive

-----------------------------------------------------------------------------
(* Machines: the steps *)

LEMMA VmGoesOn ==
    ASSUME NEW c, NEW calls, VmContinues(c, calls)
    PROVE  backend' = backend
BY DEF VmContinues, Ends, Goes

LEMMA VmDoneKeeps ==
    ASSUME NEW c, VmDone(c)
    PROVE  backend' = backend
BY VmGoesOn DEF VmDone

LEMMA VmFailsKeeps ==
    ASSUME NEW c, Fails(c)
    PROVE  backend' = backend
BY DEF Fails, Ends

LEMMA VmRefusedKeeps ==
    ASSUME MachineInv, NEW c, VmRefused(c)
    PROVE  MachineInv'
BY VmFailsKeeps, MachinesIdle DEF VmRefused, machineVars

LEMMA VmAsked ==
    ASSUME MachineInv, NEW c, InstanceRequests(c) \/ VmRequests(c) \/ SnapshotRequests(c)
    PROVE  MachineInv'
<1>1. \A op, name, calls, had : Requests(c, op, name, calls, had) => UNCHANGED <<machines, attached, backend>>
  BY DEF Requests, Begin, machineVars
<1>2. \A name, calls : AsksVm(c, name, calls) => UNCHANGED <<machines, attached, backend>>
  BY <1>1 DEF AsksVm
<1>3. ASSUME NEW do, ForInstances(c, do) \/ NamedInstance(c, do)
      PROVE  UNCHANGED <<machines, attached, backend>>
  BY <1>2, <1>3 DEF ForInstances, NamedInstance
<1>4. CASE InstanceRequests(c)
  <2>1. UNCHANGED <<machines, attached, backend>>
    BY <1>2, <1>3, <1>4 DEF InstanceRequests, RunInstances, TerminateInstances, deleteInstance,
       CreateVolume, DeleteVolume, AttachVolume, DetachVolume, insertDisk, attachDisk, detachDisk
  <2> QED
    BY <2>1, MachinesIdle
<1>5. CASE VmRequests(c)
  <2>1. UNCHANGED <<machines, attached, backend>>
    BY <1>1, <1>2, <1>3, <1>5 DEF VmRequests, RunInstances, TerminateInstances, StartInstances, StopInstances,
       RebootInstances, insertInstance, deleteInstance, startInstance, stopInstance, resetInstance,
       createOrUpdateVM, deleteVM, routeVMAction
  <2> QED
    BY <2>1, MachinesIdle
<1>6. CASE SnapshotRequests(c)
  <2>1. UNCHANGED <<machines, attached, backend>>
    BY <1>2, <1>6 DEF SnapshotRequests, CreateVolume, DeleteVolume, CreateSnapshot, DeleteSnapshot, insertDisk,
       deleteDisk, insertSnapshot, deleteSnapshot, createOrUpdateDisk, deleteAzureDisk, createOrUpdateSnapshot,
       deleteAzureSnapshot
  <2> QED
    BY <2>1, MachinesIdle
<1> QED
  BY <1>4, <1>5, <1>6

LEMMA VmFinds ==
    ASSUME MachineInv, NEW c, FindInstance(c) \/ FindVolume(c) \/ FindSnapshot(c) \/ FindAttached(c)
    PROVE  MachineInv'
<1>1. ASSUME NEW found, NEW with(_, _), Seeks(c, found, with)
      PROVE  UNCHANGED <<machines, attached, backend>>
  <2>1. UNCHANGED machineVars
    BY <1>1 DEF Seeks
  <2>2. \A r : Goes(c, r) => backend' = backend
    BY DEF Goes
  <2>3. backend' = backend
    BY <1>1, <2>2, VmGoesOn, VmFailsKeeps DEF Seeks
  <2> QED
    BY <2>1, <2>3 DEF machineVars
<1>2. UNCHANGED <<machines, attached, backend>>
  BY <1>1 DEF FindInstance, FindVolume, FindSnapshot, FindAttached
<1> QED
  BY <1>2, MachinesIdle

LEMMA VmSets ==
    ASSUME MachineInv, VmCloud, NEW c, NEW state, Sets(c, state)
    PROVE  MachineInv'
<1>1. CASE VmRefused(c)
  BY <1>1, VmRefusedKeeps
<1>2. CASE MovesTo({Now(c).inst}, state) /\ UNCHANGED attached /\ VmDone(c)
  BY <1>2, VmDoneKeeps, MachinesMoved
<1> QED
  BY <1>1, <1>2 DEF Sets

LEMMA VmAttaches ==
    ASSUME MachineInv, VmCloud, NEW c, Free(c), Now(c).inst \in IdsOf(machines), Attaches(c)
    PROVE  MachineInv'
<1>1. attached' = attached \cup {<<Now(c).vol, Now(c).inst>>}
  BY DEF Attaches, Noted, VmCloud
<1>2. Gives(Now(c).vol, Now(c).inst) /\ backend' = backend /\ Holds(Now(c).vol) = {}
  BY VmDoneKeeps DEF Attaches, Free
<1> QED
  BY <1>1, <1>2, MachinesGiven

\* A detach names every attachment of the volume it takes.
LEMMA VmDetaches ==
    ASSUME MachineInv, VmCloud, NEW c, NEW v, Detaches(c, v), \A a \in attached : a[1] = v => Names(c, a)
    PROVE  MachineInv'
<1>1. \A a \in attached' : a \in attached /\ a[1] # v
  BY DEF Detaches, Detached
<1>2. Frees(v) /\ backend' = backend
  BY VmDoneKeeps DEF Detaches
<1> QED
  BY <1>1, <1>2, MachinesFreed

\* What leaves the instances and their history alone, on either cloud.
LEMMA VmAside ==
    ASSUME MachineInv, NEW c,
           \/ Reboots(c) \/ DropsFreeVolume(c) \/ DropsSnapshot(c)
           \/ \E id, name : AddsVolume(c, id, name) \/ AddsSnapshot(c, id, name)
    PROVE  MachineInv'
<1>1. VmRefused(c) \/ UNCHANGED <<machines, attached, backend>>
  BY VmDoneKeeps DEF Reboots, DropsFreeVolume, DropsSnapshot, AddsVolume, AddsSnapshot, machineVars,
     OnlyVolumes, OnlySnapshots
<1> QED
  BY <1>1, VmRefusedKeeps, MachinesIdle

LEMMA GcpKeepsAttachments ==
    ASSUME MachineInv, NEW c, backend = "gcp",
           \/ GcpRunInstances(c) \/ GcpStartInstances(c) \/ GcpStopInstances(c)
           \/ GcpTerminateInstances(c) \/ GcpRebootInstances(c)
           \/ GcpCreateVolume(c) \/ GcpDeleteVolume(c) \/ GcpAttachVolume(c)
           \/ GcpDetachVolume(c) \/ GcpCreateSnapshot(c) \/ GcpDeleteSnapshot(c)
    PROVE  MachineInv'
<1>0. VmCloud
  BY DEF VmCloud
<1>1. CASE GcpRunInstances(c)
  <2>1. CASE VmRefused(c)
    BY <2>1, VmRefusedKeeps
  <2>2. CASE /\ machines' = machines \cup {Machine(VmName(c), VmName(c), req[c].name)}
             /\ UNCHANGED attached
             /\ VmDone(c)
    <3> DEFINE new == {Machine(VmName(c), VmName(c), req[c].name)}
    <3>1. \A m \in new : m = VmRec(m) /\ m.disks = {}
      BY NewMachine
    <3>2. machines' = machines \cup new /\ backend' = backend
      BY <2>2, VmDoneKeeps
    <3> HIDE DEF new
    <3> QED
      BY <1>0, <2>2, <3>1, <3>2, MachinesAdded
  <2> QED
    BY <1>1, <2>1, <2>2 DEF GcpRunInstances
<1>2. CASE GcpStartInstances(c) \/ GcpStopInstances(c)
  BY <1>0, <1>2, VmSets DEF GcpStartInstances, GcpStopInstances
<1>3. CASE GcpTerminateInstances(c)
  <2>1. CASE VmRefused(c)
    BY <2>1, VmRefusedKeeps
  <2>2. CASE /\ machines' = {m \in machines : m.id # Now(c).inst}
             /\ attached' = {a \in attached : a[2] # Now(c).inst}
             /\ VmDone(c)
    <3> DEFINE ids == {Now(c).inst}
    <3>1. machines' = {m \in machines : m.id \notin ids} /\ attached' = {a \in attached : a[2] \notin ids}
      BY <2>2
    <3>2. backend' = backend
      BY <2>2, VmDoneKeeps
    <3> HIDE DEF ids
    <3> QED
      BY <1>0, <3>1, <3>2, MachinesDropped
  <2> QED
    BY <1>3, <2>1, <2>2 DEF GcpTerminateInstances, Removes
<1>4. CASE GcpAttachVolume(c)
  BY <1>0, <1>4, VmAttaches, VmRefusedKeeps DEF GcpAttachVolume
<1>5. CASE GcpDetachVolume(c)
  <2>1. ASSUME NEW v \in OnNamed(c), <<v, Now(c).vol>> \in devices, Detaches(c, v) PROVE MachineInv'
    <3>1. PICK m \in machines : m.id = Now(c).inst /\ v \in m.disks
      BY <2>1 DEF OnNamed, WithId
    <3>2. \A a \in attached : a[1] = v => Names(c, a)
      BY <1>0, <2>1, <3>1, AttachedWhereHeld DEF Names
    <3> QED
      BY <1>0, <2>1, <3>2, VmDetaches
  <2> QED
    BY <1>5, <2>1, VmRefusedKeeps DEF GcpDetachVolume
<1>6. CASE \/ GcpRebootInstances(c) \/ GcpCreateVolume(c) \/ GcpDeleteVolume(c)
           \/ GcpCreateSnapshot(c) \/ GcpDeleteSnapshot(c)
  BY <1>6, VmAside, VmRefusedKeeps
     DEF GcpRebootInstances, GcpCreateVolume, GcpDeleteVolume, GcpCreateSnapshot, GcpDeleteSnapshot
<1> QED
  BY <1>1, <1>2, <1>3, <1>4, <1>5, <1>6

LEMMA AwsKeepsAttachments ==
    ASSUME MachineInv, NEW c, backend = "aws",
           \/ AwsRunInstances(c) \/ AwsStartInstances(c) \/ AwsStopInstances(c)
           \/ AwsTerminateInstances(c) \/ AwsRebootInstances(c)
           \/ AwsCreateVolume(c) \/ AwsDeleteVolume(c) \/ AwsAttachVolume(c)
           \/ AwsDetachVolume(c) \/ AwsCreateSnapshot(c) \/ AwsDeleteSnapshot(c)
    PROVE  MachineInv'
<1>0. VmCloud
  BY DEF VmCloud
<1>1. CASE AwsRunInstances(c)
  <2> DEFINE new == {Machine(made + i, Nameless, req[c].name) : i \in DOMAIN req[c].todo}
  <2>1. \A m \in new : m = VmRec(m) /\ m.disks = {}
    BY NewMachine
  <2>2. machines' = machines \cup new /\ attached' = attached
    BY <1>1 DEF AwsRunInstances
  <2>3. backend' = backend
    BY <1>1, VmGoesOn DEF AwsRunInstances
  <2> HIDE DEF new
  <2> QED
    BY <1>0, <2>1, <2>2, <2>3, MachinesAdded
<1>2. CASE AwsStartInstances(c) \/ AwsStopInstances(c)
  <2>1. PICK state, from : AwsAll(c, state, from)
    BY <1>2 DEF AwsStartInstances, AwsStopInstances
  <2>2. CASE VmRefused(c)
    BY <2>2, VmRefusedKeeps
  <2>3. CASE MovesTo(Chosen(c), state) /\ UNCHANGED attached /\ VmContinues(c, <<>>)
    BY <1>0, <2>3, VmGoesOn, MachinesMoved
  <2> QED
    BY <2>1, <2>2, <2>3 DEF AwsAll
<1>3. CASE AwsTerminateInstances(c)
  <2>1. CASE VmRefused(c)
    BY <2>1, VmRefusedKeeps
  <2>2. CASE /\ machines' = {IF m.id \in Chosen(c) THEN [InState(m, "terminated") EXCEPT !.disks = {}] ELSE m :
                               m \in machines}
             /\ attached' = {a \in attached : a[2] \notin Chosen(c)}
             /\ VmContinues(c, <<>>)
    <3>1. backend' = backend
      BY <2>2, VmGoesOn
    <3> QED
      BY <1>0, <2>2, <3>1, MachinesDropped
  <2> QED
    BY <1>3, <2>1, <2>2 DEF AwsTerminateInstances
<1>4. CASE AwsAttachVolume(c)
  <2>1. (\E m \in WithId(machines, Now(c).inst) : m.state # "terminated") => Now(c).inst \in IdsOf(machines)
    BY DEF WithId, IdsOf
  <2> QED
    BY <1>0, <1>4, <2>1, VmAttaches, VmRefusedKeeps DEF AwsAttachVolume
<1>5. CASE AwsDetachVolume(c)
  <2>1. ASSUME DetachesNamed(c), Detaches(c, Now(c).vol) PROVE MachineInv'
    <3>1. Now(c).inst = 0 \/ \E m \in machines : m.id = Now(c).inst /\ Now(c).vol \in m.disks
      BY <2>1 DEF DetachesNamed, HeldByNamed, OnNamed, WithId
    <3>2. \A a \in attached : a[1] = Now(c).vol => Names(c, a)
      BY <1>0, <3>1, AttachedWhereHeld DEF Names
    <3> QED
      BY <1>0, <2>1, <3>2, VmDetaches
  <2> QED
    BY <1>5, <2>1, VmRefusedKeeps DEF AwsDetachVolume
<1>6. CASE \/ AwsRebootInstances(c) \/ AwsCreateVolume(c) \/ AwsDeleteVolume(c)
           \/ AwsCreateSnapshot(c) \/ AwsDeleteSnapshot(c)
  BY <1>6, VmAside, VmRefusedKeeps
     DEF AwsRebootInstances, AwsCreateVolume, AwsDeleteVolume, AwsCreateSnapshot, AwsDeleteSnapshot
<1> QED
  BY <1>1, <1>2, <1>3, <1>4, <1>5, <1>6

LEMMA InmemKeepsAttachments ==
    ASSUME MachineInv, NEW c, backend = "inmem",
           \/ InmemRunInstances(c) \/ InmemStartInstances(c)
           \/ InmemStopInstances(c) \/ InmemTerminateInstances(c)
           \/ InmemRebootInstances(c) \/ InmemCreateVolume(c)
           \/ InmemDeleteVolume(c) \/ InmemAttachVolume(c) \/ InmemDetachVolume(c)
           \/ InmemCreateSnapshot(c) \/ InmemDeleteSnapshot(c)
    PROVE  MachineInv'
<1>0. VmCloud
  BY DEF VmCloud
<1>1. CASE InmemRunInstances(c)
  <2> DEFINE new == {Machine(made + i, Now(c).name, req[c].name) : i \in DOMAIN req[c].todo}
  <2>1. \A m \in new : m = VmRec(m) /\ m.disks = {}
    BY NewMachine
  <2>2. machines' = machines \cup new /\ attached' = attached
    BY <1>1 DEF InmemRunInstances
  <2>3. backend' = backend
    BY <1>1, VmGoesOn DEF InmemRunInstances
  <2> HIDE DEF new
  <2> QED
    BY <1>0, <2>1, <2>2, <2>3, MachinesAdded
<1>2. CASE InmemStartInstances(c) \/ InmemStopInstances(c) \/ InmemTerminateInstances(c)
  <2>1. PICK state : InmemEach(c, state)
    BY <1>2 DEF InmemStartInstances, InmemStopInstances, InmemTerminateInstances
  <2>2. \E ids : MovesTo(ids, state)
    BY <2>1 DEF InmemEach
  <2>3. attached' = attached /\ backend' = backend
    BY <2>1, VmGoesOn, VmFailsKeeps DEF InmemEach
  <2> QED
    BY <1>0, <2>2, <2>3, MachinesMoved
<1>3. CASE InmemDeleteVolume(c)
  <2>1. CASE VmRefused(c)
    BY <2>1, VmRefusedKeeps
  <2>2. CASE Frees(Now(c).vol) /\ attached' = {a \in attached : a[1] # Now(c).vol} /\ VmDone(c)
    BY <1>0, <2>2, VmDoneKeeps, MachinesFreed
  <2> QED
    BY <1>3, <2>1, <2>2 DEF InmemDeleteVolume
<1>4. CASE InmemAttachVolume(c)
  BY <1>0, <1>4, VmAttaches, VmRefusedKeeps DEF InmemAttachVolume
<1>5. CASE InmemDetachVolume(c)
  <2>1. \A a \in attached : a[1] = Now(c).vol => Names(c, a)
    BY DEF Names
  <2> QED
    BY <1>0, <1>5, <2>1, VmDetaches, VmRefusedKeeps DEF InmemDetachVolume
<1>6. CASE \/ InmemRebootInstances(c) \/ InmemCreateVolume(c)
           \/ InmemCreateSnapshot(c) \/ InmemDeleteSnapshot(c)
  BY <1>6, VmAside, VmRefusedKeeps
     DEF InmemRebootInstances, InmemCreateVolume, InmemCreateSnapshot, InmemDeleteSnapshot
<1> QED
  BY <1>1, <1>2, <1>3, <1>4, <1>5, <1>6

\* The other backends: only that the backend stays matters.
LEMMA OthersKeepBackend ==
    ASSUME NEW c,
           \/ K8sInstances(c) \/ K8sAttachments(c) \/ K8sSnapshots(c)
           \/ K8sCreateVolume(c) \/ K8sDeleteVolume(c)
           \/ AzureRunInstances(c) \/ AzureStartInstances(c)
           \/ AzureStopInstances(c) \/ AzureTerminateInstances(c)
           \/ AzureRebootInstances(c) \/ AzureCreateVolume(c)
           \/ AzureDeleteVolume(c) \/ AzureAttachVolume(c) \/ AzureDetachVolume(c)
           \/ AzurePutsVM(c) \/ AzureCreateSnapshot(c) \/ AzureDeleteSnapshot(c)
    PROVE  backend' = backend
<1>1. VmDone(c) \/ Fails(c) => backend' = backend
  BY VmGoesOn, VmFailsKeeps, VmDoneKeeps
<1>2. /\ \A id, name : AddsVolume(c, id, name) \/ AddsSnapshot(c, id, name) => backend' = backend
      /\ \A state : Sets(c, state) => backend' = backend
      /\ \A disks : GetsVM(c, disks) => backend' = backend
      /\ VmRefused(c) \/ Reboots(c) \/ Removes(c) \/ DropsSnapshot(c) \/ DropsFreeVolume(c) => backend' = backend
  <2>1. \A r : Goes(c, r) => backend' = backend
    BY DEF Goes
  <2> QED
    BY <1>1, <2>1 DEF AddsVolume, AddsSnapshot, Sets, GetsVM, VmRefused, Reboots, Removes, DropsSnapshot, DropsFreeVolume
<1>4. CASE \/ K8sInstances(c) \/ K8sAttachments(c) \/ K8sSnapshots(c)
           \/ K8sCreateVolume(c) \/ K8sDeleteVolume(c)
  BY <1>2, <1>4 DEF K8sInstances, K8sAttachments, K8sSnapshots, K8sCreateVolume, K8sDeleteVolume
<1>5. CASE \/ AzureRunInstances(c) \/ AzureStartInstances(c)
           \/ AzureStopInstances(c) \/ AzureTerminateInstances(c)
           \/ AzureRebootInstances(c) \/ AzureCreateVolume(c)
           \/ AzureDeleteVolume(c) \/ AzureAttachVolume(c) \/ AzureDetachVolume(c)
           \/ AzurePutsVM(c) \/ AzureCreateSnapshot(c) \/ AzureDeleteSnapshot(c)
  BY <1>1, <1>2, <1>5 DEF AzureRunInstances, AzureStartInstances, AzureStopInstances, AzureTerminateInstances,
     AzureRebootInstances, AzureCreateVolume, AzureDeleteVolume, AzureAttachVolume, AzureDetachVolume, AzurePutsVM,
     AzureCreateSnapshot, AzureDeleteSnapshot
<1> QED
  BY <1>4, <1>5

LEMMA MachinesStep ==
    ASSUME MachineInv, [MachinesNext]_<<shimVars, machineVars>>
    PROVE  MachineInv'
<1>1. CASE UNCHANGED <<shimVars, machineVars>>
  BY <1>1, MachinesIdle DEF shimVars, machineVars
<1>2. ASSUME NEW c, Dies(c), UNCHANGED machineVars
      PROVE  MachineInv'
  BY <1>2, VmFailsKeeps, MachinesIdle DEF Dies, machineVars
<1>3. ASSUME NEW c, MachinesCall(c)
      PROVE  MachineInv'
  <2>1. CASE FindInstance(c) \/ FindVolume(c) \/ FindSnapshot(c) \/ FindAttached(c)
    BY <2>1, VmFinds
  <2>2. CASE backend \in {"k8s", "azure"} /\ backend' = backend
    BY <2>2 DEF MachineInv, VmCloud
  <2> QED
    BY <1>3, <2>1, <2>2, OthersKeepBackend, InmemKeepsAttachments, GcpKeepsAttachments, AwsKeepsAttachments
       DEF MachinesCall
<1> QED
  BY <1>1, <1>2, <1>3, VmAsked DEF MachinesNext

\* Acknowledged attachments are kept (AttachVolume and DetachVolume of the inmem,
\* gcp and aws backends of services/compute): in every behaviour of the service,
\* an instance that was told to have a volume has it until a detach that names
\* the attachment succeeds, or the instance or the volume goes.  A detach names
\* it by the volume alone on inmem, by volume and instance (or no instance) on
\* aws, and by instance and device name on gcp.
THEOREM AttachmentsAlwaysKept == MachinesSpec => []AttachmentKept
<1>1. ShimInit /\ MachinesInit => MachineInv
  BY DEF MachinesInit, MachineInv, MachineShaped, Exclusive, Attachments
<1>2. MachineInv /\ [MachinesNext]_<<shimVars, machineVars>> => MachineInv'
  BY MachinesStep
<1>3. MachineInv => AttachmentKept
  BY DEF MachineInv, VmCloud, Attachments, AttachmentKept, WithId
<1> QED
  BY <1>1, <1>2, <1>3, PTL DEF MachinesSpec
-----------------------------------------------------------------------------
(* Machines: a virtual machine PUT *)

VmDos == {"Run", "Start", "Stop", "Terminate", "Reboot", "FindInstance"}
VmCalls == [do : VmDos, mode : {"must", "put"}, inst : Nat, vol : Nat, name : Nat]
Vms == [id : Nat, name : Nat, asked : Nat, state : {"running", "stopped", "terminated"}, disks : SUBSET Nat]
RunOf(n) == [do |-> "Run", mode |-> "must", inst |-> 1, vol |-> 0, name |-> n]
SeekOf(n) == [do |-> "FindInstance", mode |-> "put", inst |-> 0, vol |-> 0, name |-> n]

\* Only aws forgets the name; the identifiers of inmem are no names.
VmState ==
    /\ machines \subseteq Vms
    /\ made \in 0..MaxMade
    /\ \A m \in machines : /\ m.asked # Nameless => m.name = m.asked
                           /\ IF backend = "inmem" THEN m.id <= MaxMade ELSE m.id = m.name
VmShaped(r) == r = [op |-> r.op, todo |-> r.todo, name |-> r.name, had |-> r.had, clean |-> r.clean]
\* A call of a request that is no PUT: a look-up is not its last.
VmPlain(call, n, goesOn) ==
    /\ call.mode = "must"
    /\ call.do = "Run" => call.name = n
    /\ call.do = "FindInstance" => goesOn
VmOther(r) ==
    /\ r.op = "vm"
    /\ r.name \in Nat
    /\ r.todo \in Seq(VmCalls) /\ r.todo # <<>>
    /\ \A i \in 1..Len(r.todo) : VmPlain(r.todo[i], r.name, i # Len(r.todo))
VmPut(r) ==
    /\ r.op = "putVM"
    /\ r.name \in VmNames
    /\ r.todo = <<SeekOf(r.name), RunOf(r.name)>> \/ r.todo = <<RunOf(r.name)>>
VmReq(r) == r = Idle \/ (VmShaped(r) /\ (VmOther(r) \/ VmPut(r)))
VmReqs == req = [c \in Clients |-> req[c]] /\ \A c \in Clients : VmReq(req[c])
VmSole == \A c \in Clients : alone = c => \A d \in Clients : d # c => req[d] = Idle
\* What an undisturbed PUT has found still holds when it creates.
PutHolds(r) ==
    r.op = "putVM" /\ r.clean =>
        r.had = IdsOf(Live(r.name)) /\ (r.todo = <<RunOf(r.name)>> => Live(r.name) = {})
PutPromise == \A c \in Clients : alone = c => PutHolds(req[c])
NamedVm == service = "vm" /\ backend # "aws"
PutInv == NamedVm => VmState /\ VmReqs /\ VmSole /\ PutPromise /\ PutAgainAddsNothing

LEMMA VmNameIsGiven == \A n \in VmNames : n \in Nat /\ n # Nameless /\ n > MaxMade
  BY VmNamesAreNotGenerated, VmNamesAreNumbers DEF Nameless

LEMMA VmReqKinds ==
    ASSUME NEW r, VmReq(r), r # Idle
    PROVE  /\ VmShaped(r) /\ r.op \in {"vm", "putVM"}
           /\ r.op = "vm" => VmOther(r)
           /\ r.op = "putVM" => VmPut(r)
BY DEF VmReq, VmOther, VmPut

(* A request that goes on. *)
LEMMA VmGoesKeeps ==
    ASSUME PutInv, NamedVm, NEW c \in Clients, req[c] # Idle, VmState', NEW r, VmReq(r), r # Idle,
           Goes(c, r), alone = c => PutHolds(r)'
    PROVE  PutInv'
<1>1. /\ req' = [req EXCEPT ![c] = r] /\ alone' = alone /\ answer' = None
      /\ VmReqs /\ VmSole /\ PutPromise
  BY DEF Goes, PutInv
<1>2. req'[c] = r /\ \A d \in Clients : d # c => req'[d] = req[d]
  BY <1>1 DEF VmReqs
<1>3. VmReqs'
  BY <1>1, <1>2 DEF VmReqs
<1>4. VmSole'
  BY <1>1, <1>2 DEF VmSole
<1>5. PutPromise'
  <2> SUFFICES ASSUME NEW d \in Clients, alone' = d PROVE PutHolds(req[d])'
    BY DEF PutPromise
  <2>1. d = c
    BY <1>1 DEF VmSole
  <2>2. req'[d] = r /\ PutHolds(r)'
    BY <1>1, <1>2, <2>1
  <2> QED BY <2>2 DEF PutHolds, Live, IdsOf
<1>6. PutAgainAddsNothing'
  BY <1>1 DEF PutAgainAddsNothing
<1> QED BY <1>3, <1>4, <1>5, <1>6 DEF PutInv

(* A request that ends. *)
LEMMA VmEndsKeeps ==
    ASSUME PutInv, NamedVm, NEW c \in Clients, VmState', NEW a, Ends(c, a),
           alone = c /\ a # None =>
               IF a.had = {} THEN \E m \in machines' : Live(a.name)' = {m} ELSE IdsOf(Live(a.name)') = a.had
    PROVE  PutInv'
<1>1. /\ req' = [req EXCEPT ![c] = Idle] /\ alone' = None /\ answer' = IF alone = c THEN a ELSE None
      /\ VmReqs
  BY DEF Ends, PutInv
<1>2. req'[c] = Idle /\ \A d \in Clients : d # c => req'[d] = req[d]
  BY <1>1 DEF VmReqs
<1>3. VmReqs'
  BY <1>1, <1>2 DEF VmReqs, VmReq
<1>4. VmSole' /\ PutPromise'
  BY <1>1, NoneIsNoClient DEF VmSole, PutPromise
<1>5. PutAgainAddsNothing'
  BY <1>1 DEF PutAgainAddsNothing, Live, IdsOf
<1> QED BY <1>3, <1>4, <1>5 DEF PutInv

LEMMA VmFails ==
    ASSUME PutInv, NamedVm, NEW c \in Clients, VmState', Fails(c)
    PROVE  PutInv'
BY VmEndsKeeps DEF Fails

LEMMA VmStateKept ==
    ASSUME VmState, machines' = machines, made' = made, backend' = backend
    PROVE  VmState' /\ \A n : Live(n)' = Live(n)
BY DEF VmState, Live

LEMMA VmRefusal ==
    ASSUME PutInv, NamedVm, NEW c \in Clients, VmRefused(c)
    PROVE  PutInv'
BY VmStateKept, VmFails DEF VmRefused, machineVars, PutInv, Fails, Ends

(* The calls of the handlers, field by field. *)
LEMMA VmCallsMade ==
    ASSUME NEW do, NEW n, NEW i, NEW mode
    PROVE  /\ VmCall(do) = [do |-> do, mode |-> "must", inst |-> 0, vol |-> 0, name |-> Nameless]
           /\ Make(do, n) = [do |-> do, mode |-> "must", inst |-> 0, vol |-> 0, name |-> n]
           /\ [Make(do, n) EXCEPT !.inst = i] = [do |-> do, mode |-> "must", inst |-> i, vol |-> 0, name |-> n]
           /\ Seek(do, n, mode) = [do |-> do, mode |-> mode, inst |-> 0, vol |-> 0, name |-> n]
           /\ Of(do, i) = [do |-> do, mode |-> "must", inst |-> i, vol |-> 0, name |-> Nameless]
<1>1. VmCall(do) = [do |-> do, mode |-> "must", inst |-> 0, vol |-> 0, name |-> Nameless]
  BY DEF VmCall
<1>2. Make(do, n) = [do |-> do, mode |-> "must", inst |-> 0, vol |-> 0, name |-> n]
  BY <1>1 DEF Make
<1>3. [Make(do, n) EXCEPT !.inst = i] = [do |-> do, mode |-> "must", inst |-> i, vol |-> 0, name |-> n]
  BY <1>2
<1>4. Seek(do, n, mode) = [[VmCall(do) EXCEPT !.name = n] EXCEPT !.mode = mode]
  BY DEF Seek
<1>5. Seek(do, n, mode) = [do |-> do, mode |-> mode, inst |-> 0, vol |-> 0, name |-> n]
  BY <1>2, <1>4 DEF Make
<1>6. Of(do, i) = [do |-> do, mode |-> "must", inst |-> i, vol |-> 0, name |-> Nameless]
  BY <1>1 DEF Of
<1> QED BY <1>1, <1>2, <1>3, <1>5, <1>6

(* The request begins. *)
LEMMA VmBegins ==
    ASSUME PutInv, NamedVm, NEW c \in Clients, NEW r, VmReq(r), r # Idle, PutHolds(r),
           Begin(c, r), UNCHANGED machineVars
    PROVE  PutInv'
<1>1. /\ req' = [req EXCEPT ![c] = r] /\ alone' = (IF Running(c) = {} THEN c ELSE None) /\ answer' = None
      /\ VmReqs /\ VmSole /\ PutPromise /\ VmState /\ machines' = machines /\ made' = made /\ backend' = backend
  BY DEF Begin, PutInv, machineVars
<1>2. req'[c] = r /\ \A d \in Clients : d # c => req'[d] = req[d]
  BY <1>1 DEF VmReqs
<1>3. VmReqs'
  BY <1>1, <1>2 DEF VmReqs
<1>4. VmSole'
  BY <1>1, <1>2, NoneIsNoClient DEF VmSole, Running
<1>5. PutPromise'
  <2> SUFFICES ASSUME NEW d \in Clients, alone' = d PROVE PutHolds(req[d])'
    BY DEF PutPromise
  <2>1. d = c
    BY <1>1, NoneIsNoClient
  <2>2. req'[d] = r
    BY <1>2, <2>1
  <2> QED BY <1>1, <2>2 DEF PutHolds, Live, IdsOf
<1>6. PutAgainAddsNothing' /\ VmState'
  BY <1>1, VmStateKept DEF PutAgainAddsNothing
<1> QED BY <1>3, <1>4, <1>5, <1>6 DEF PutInv

LEMMA VmReqAsked ==
    ASSUME NEW n \in Nat, NEW s \in Seq(VmCalls), s # <<>>,
           \A i \in 1..Len(s) : VmPlain(s[i], n, i # Len(s))
    PROVE  LET r == [op |-> "vm", todo |-> s, name |-> n, had |-> {}, clean |-> TRUE] IN
           VmReq(r) /\ r # Idle /\ PutHolds(r)
<1> DEFINE r == [op |-> "vm", todo |-> s, name |-> n, had |-> {}, clean |-> TRUE]
<1>1. r.op = "vm" /\ r.todo = s /\ r.name = n /\ Idle.op = "idle"
  BY DEF Idle
<1>2. VmShaped(r)
  BY DEF VmShaped
<1> HIDE DEF r
<1>3. VmReq(r) /\ r # Idle /\ PutHolds(r)
  BY <1>1, <1>2 DEF VmReq, VmOther, PutHolds
<1> QED BY <1>3 DEF r

LEMMA VmAsks ==
    ASSUME PutInv, NamedVm, NEW c \in Clients, VmRequests(c)
    PROVE  PutInv'
<1>0. ASSUME NEW n \in Nat, NEW s \in Seq(VmCalls), s # <<>>,
             \A i \in 1..Len(s) : VmPlain(s[i], n, i # Len(s)), AsksVm(c, n, s)
      PROVE  PutInv'
  BY <1>0, VmReqAsked, VmBegins DEF AsksVm, Requests
<1>1. CASE RunInstances(c)
  <2>1. PICK n \in 1..MaxCount :
          AsksVm(c, Nameless, [i \in 1..n |-> [Make("Run", Nameless) EXCEPT !.inst = i]])
    BY <1>1 DEF RunInstances
  <2> DEFINE s == [i \in 1..n |-> [Make("Run", Nameless) EXCEPT !.inst = i]]
  <2>2. \A i \in 1..n : [Make("Run", Nameless) EXCEPT !.inst = i] =
            [do |-> "Run", mode |-> "must", inst |-> i, vol |-> 0, name |-> Nameless]
    BY VmCallsMade
  <2>3. n \in Nat /\ n > 0
    BY VmNamesAreNumbers
  <2>4. s \in Seq(VmCalls) /\ Len(s) = n
    <3>1. \A i \in 1..n : s[i] \in VmCalls
      <4> SUFFICES ASSUME NEW i \in 1..n PROVE s[i] \in VmCalls
        OBVIOUS
      <4>1. s[i] = [do |-> "Run", mode |-> "must", inst |-> i, vol |-> 0, name |-> Nameless] /\ i \in Nat
        BY <2>2, <2>3
      <4> QED BY <4>1 DEF VmCalls, VmDos, Nameless
    <3> QED BY <2>3, <3>1
  <2>5. \A i \in 1..Len(s) : VmPlain(s[i], Nameless, i # Len(s))
    BY <2>2, <2>4 DEF VmPlain
  <2>6. s # <<>> /\ Nameless \in Nat
    BY <2>3, <2>4 DEF Nameless
  <2> HIDE DEF s
  <2>7. AsksVm(c, Nameless, s)
    BY <2>1 DEF s
  <2> QED BY <2>4, <2>5, <2>6, <2>7, <1>0
<1>2. ASSUME NEW do \in VmDos \ {"Run", "FindInstance"}, ForInstances(c, do)
      PROVE  PutInv'
  <2>1. PICK ids \in UNION {[1..n -> IdsOf(machines)] : n \in 1..MaxCount} :
          AsksVm(c, Nameless, [i \in DOMAIN ids |-> Of(do, ids[i])])
    BY <1>2 DEF ForInstances
  <2>2. PICK n \in 1..MaxCount : ids \in [1..n -> IdsOf(machines)]
    BY <2>1
  <2>3. n \in Nat /\ n > 0 /\ DOMAIN ids = 1..n
    BY <2>2, VmNamesAreNumbers
  <2> DEFINE s == [i \in 1..n |-> Of(do, ids[i])]
  <2>4. \A i \in 1..n : s[i] \in VmCalls /\ s[i].do = do /\ s[i].mode = "must"
    <3> SUFFICES ASSUME NEW i \in 1..n
                 PROVE  s[i] \in VmCalls /\ s[i].do = do /\ s[i].mode = "must"
      OBVIOUS
    <3>1. ids[i] \in Nat
      <4>1. ids[i] \in IdsOf(machines)
        BY <2>2
      <4>2. machines \subseteq Vms
        BY DEF PutInv, VmState
      <4> QED BY <4>1, <4>2 DEF IdsOf, Vms
    <3>2. s[i] = [do |-> do, mode |-> "must", inst |-> ids[i], vol |-> 0, name |-> Nameless]
      BY VmCallsMade
    <3> QED BY <1>2, <3>1, <3>2 DEF VmCalls, VmDos, Nameless
  <2>5. s \in Seq(VmCalls) /\ Len(s) = n /\ s # <<>> /\ Nameless \in Nat
    BY <2>3, <2>4 DEF Nameless
  <2>6. \A i \in 1..Len(s) : VmPlain(s[i], Nameless, i # Len(s))
    BY <1>2, <2>4, <2>5 DEF VmPlain
  <2>7. AsksVm(c, Nameless, s)
    BY <2>1, <2>3
  <2> HIDE DEF s
  <2> QED BY <2>5, <2>6, <2>7, <1>0
<1>3. CASE insertInstance(c)
  <2>1. PICK n \in VmNames : AsksVm(c, n, <<[Make("Run", n) EXCEPT !.inst = 1]>>)
    BY <1>3 DEF insertInstance
  <2> DEFINE k == [Make("Run", n) EXCEPT !.inst = 1]
             s == <<k>>
  <2>2. k = [do |-> "Run", mode |-> "must", inst |-> 1, vol |-> 0, name |-> n]
    BY VmCallsMade
  <2>3. k \in VmCalls /\ k.do = "Run" /\ k.name = n /\ k.mode = "must" /\ n \in Nat
    BY <2>2, VmNameIsGiven DEF VmCalls, VmDos
  <2> HIDE DEF k
  <2>4. s \in Seq(VmCalls) /\ Len(s) = 1 /\ s[1] = k /\ s # <<>>
    BY <2>3
  <2>5. \A i \in 1..Len(s) : VmPlain(s[i], n, i # Len(s))
    BY <2>3, <2>4 DEF VmPlain
  <2>6. AsksVm(c, n, s)
    BY <2>1 DEF k
  <2> HIDE DEF s
  <2> QED BY <2>3, <2>4, <2>5, <2>6, <1>0
<1>4. ASSUME NEW do \in VmDos \ {"Run", "FindInstance"}, NamedInstance(c, do)
      PROVE  PutInv'
  <2>1. PICK n \in Known(machines) : AsksVm(c, Nameless, <<Seek("FindInstance", n, "must"), VmCall(do)>>)
    BY <1>4 DEF NamedInstance
  <2>2. n \in Nat
    <3>1. machines \subseteq Vms
      BY DEF PutInv, VmState
    <3> QED BY <2>1, <3>1, VmNameIsGiven DEF Known, IdsOf, Vms
  <2> DEFINE k == Seek("FindInstance", n, "must")
             l == VmCall(do)
             s == <<k, l>>
  <2>3. /\ k = [do |-> "FindInstance", mode |-> "must", inst |-> 0, vol |-> 0, name |-> n]
        /\ l = [do |-> do, mode |-> "must", inst |-> 0, vol |-> 0, name |-> Nameless]
    <3>0. \A d, m, mode : Seek(d, m, mode) = [do |-> d, mode |-> mode, inst |-> 0, vol |-> 0, name |-> m]
      BY VmCallsMade, Zenon
    <3>1. l = [do |-> do, mode |-> "must", inst |-> 0, vol |-> 0, name |-> Nameless]
      BY DEF VmCall
    <3> QED BY <3>0, <3>1, Zenon
  <2>4. /\ k \in VmCalls /\ k.do # "Run" /\ k.mode = "must"
        /\ l \in VmCalls /\ l.do \notin {"Run", "FindInstance"} /\ l.mode = "must" /\ Nameless \in Nat
    BY <2>2, <2>3 DEF VmCalls, VmDos, Nameless
  <2>7. AsksVm(c, Nameless, s)
    BY <2>1
  <2> HIDE DEF k, l
  <2>5. s \in Seq(VmCalls) /\ Len(s) = 2 /\ s[1] = k /\ s[2] = l /\ s # <<>>
    BY <2>4
  <2>6. \A i \in 1..Len(s) : VmPlain(s[i], Nameless, i # Len(s))
    BY <2>4, <2>5 DEF VmPlain
  <2> HIDE DEF s
  <2> QED BY <2>4, <2>5, <2>6, <2>7, <1>0
<1>5. CASE createOrUpdateVM(c)
  <2>1. PICK n \in VmNames :
          Requests(c, "putVM", n, <<Seek("FindInstance", n, "put"), [Make("Run", n) EXCEPT !.inst = 1]>>, IdsOf(Live(n)))
    BY <1>5 DEF createOrUpdateVM
  <2>2. Seek("FindInstance", n, "put") = SeekOf(n) /\ [Make("Run", n) EXCEPT !.inst = 1] = RunOf(n)
    <3>0. \A do, m, mode : Seek(do, m, mode) = [do |-> do, mode |-> mode, inst |-> 0, vol |-> 0, name |-> m]
      BY VmCallsMade, Zenon
    <3>1. Seek("FindInstance", n, "put") = [do |-> "FindInstance", mode |-> "put", inst |-> 0, vol |-> 0, name |-> n]
      BY <3>0, Zenon
    <3>2. [Make("Run", n) EXCEPT !.inst = 1] = [do |-> "Run", mode |-> "must", inst |-> 1, vol |-> 0, name |-> n]
      BY VmCallsMade
    <3> QED BY <3>1, <3>2, Zenon DEF SeekOf, RunOf
  <2> DEFINE r == [op |-> "putVM", todo |-> <<SeekOf(n), RunOf(n)>>, name |-> n, had |-> IdsOf(Live(n)), clean |-> TRUE]
  <2>3. /\ VmShaped(r) /\ r.op = "putVM" /\ r.name = n /\ r.had = IdsOf(Live(n))
        /\ r.todo = <<SeekOf(n), RunOf(n)>> /\ Idle.op = "idle"
    BY DEF Idle, VmShaped
  <2>4. Begin(c, r) /\ UNCHANGED machineVars
    BY <2>1, <2>2 DEF Requests
  <2> HIDE DEF r
  <2>5. r.todo # <<RunOf(n)>>
    BY <2>3
  <2>6. VmReq(r) /\ r # Idle /\ PutHolds(r)
    BY <2>3, <2>5 DEF VmReq, VmPut, PutHolds
  <2> QED BY <2>4, <2>6, VmBegins
<1>6. CASE \/ StartInstances(c) \/ StopInstances(c) \/ RebootInstances(c) \/ TerminateInstances(c)
           \/ startInstance(c) \/ stopInstance(c) \/ resetInstance(c) \/ deleteInstance(c)
           \/ deleteVM(c) \/ routeVMAction(c)
  <2>1. \E do \in VmDos \ {"Run", "FindInstance"} : ForInstances(c, do) \/ NamedInstance(c, do)
    <3>1. {"Terminate", "Start", "Stop", "Reboot"} \subseteq VmDos \ {"Run", "FindInstance"}
      BY DEF VmDos
    <3> QED BY <1>6, <3>1 DEF StartInstances, StopInstances, RebootInstances, TerminateInstances, startInstance,
       stopInstance, resetInstance, deleteInstance, deleteVM, routeVMAction
  <2> QED BY <2>1, <1>2, <1>4
<1> QED BY <1>1, <1>3, <1>5, <1>6 DEF VmRequests

-----------------------------------------------------------------------------
(* Machines: the calls of a virtual machine PUT and of the others *)

(* What is left of a request that is no PUT. *)
LEMMA VmRest ==
    ASSUME NEW r, VmReq(r), r # Idle, r.op = "vm"
    PROVE  /\ Tail(r.todo) \in Seq(VmCalls) /\ Len(Tail(r.todo)) = Len(r.todo) - 1
           /\ \A i \in 1..Len(Tail(r.todo)) : Tail(r.todo)[i] = r.todo[i + 1] /\ i + 1 \in 1..Len(r.todo)
<1>1. r.todo \in Seq(VmCalls) /\ r.todo # <<>>
  BY VmReqKinds DEF VmOther
<1> QED BY <1>1

LEMMA VmWithTodo ==
    ASSUME NEW r, VmReq(r), r # Idle, r.op = "vm", NEW s \in Seq(VmCalls), s # <<>>,
           NEW q, q = [r EXCEPT !.todo = s],
           \A i \in 1..Len(s) : VmPlain(s[i], r.name, i # Len(s))
    PROVE  VmReq(q) /\ q # Idle /\ PutHolds(q)'
<1>1. VmShaped(r) /\ r.name \in Nat
  BY VmReqKinds DEF VmOther
<1>2. q = [op |-> r.op, todo |-> s, name |-> r.name, had |-> r.had, clean |-> r.clean]
  BY <1>1 DEF VmShaped
<1>3. q.op = "vm" /\ q.todo = s /\ q.name = r.name /\ Idle.op = "idle"
  BY <1>2 DEF Idle
<1>4. VmShaped(q)
  BY <1>2 DEF VmShaped
<1>5. VmReq(q) /\ q # Idle /\ PutHolds(q)'
  BY <1>1, <1>3, <1>4 DEF VmReq, VmOther, PutHolds
<1> QED BY <1>5

(* A call of a request that is no PUT is done. *)
LEMMA VmOtherDone ==
    ASSUME PutInv, NamedVm, NEW c \in Clients, req[c] # Idle, req[c].op = "vm", VmState',
           VmDone(c) \/ VmContinues(c, <<>>)
    PROVE  PutInv'
<1>1. VmReq(req[c])
  BY DEF PutInv, VmReqs
<1>2. CASE VmContinues(c, <<>>)
  <2>1. Ends(c, None)
    BY <1>2 DEF VmContinues
  <2> QED BY <2>1, VmEndsKeeps
<1>3. CASE VmDone(c) /\ Tail(req[c].todo) # <<>>
  <2> DEFINE s == Tail(req[c].todo)
  <2>1. Goes(c, [req[c] EXCEPT !.todo = s]) /\ s # <<>>
    BY <1>3 DEF VmDone, VmContinues
  <2>2. s \in Seq(VmCalls) /\ \A i \in 1..Len(s) : VmPlain(s[i], req[c].name, i # Len(s))
    BY <1>1, VmRest, VmReqKinds DEF VmOther, VmPlain
  <2> HIDE DEF s
  <2>0. PICK q : q = [req[c] EXCEPT !.todo = s]
    OBVIOUS
  <2>3. VmReq(q) /\ q # Idle /\ PutHolds(q)'
    BY <1>1, <2>0, <2>1, <2>2, VmWithTodo
  <2>4. Goes(c, q)
    BY <2>0, <2>1
  <2> QED BY <2>3, <2>4, VmGoesKeeps
<1>4. CASE VmDone(c) /\ Tail(req[c].todo) = <<>>
  BY <1>2, <1>4 DEF VmDone
<1> QED BY <1>2, <1>3, <1>4

\* A call that is neither a look-up nor a creation is no PUT's.
LEMMA VmOthersCalls ==
    ASSUME PutInv, NamedVm, NEW c \in Clients, req[c] # Idle
    PROVE  /\ req[c].op = "vm" => Now(c) \in VmCalls /\ Now(c).mode = "must"
                               /\ (Now(c).do = "Run" => Now(c).name = req[c].name)
                               /\ (Now(c).do = "FindInstance" => Tail(req[c].todo) # <<>>)
           /\ req[c].op = "putVM" =>
                \/ Now(c) = SeekOf(req[c].name) /\ Tail(req[c].todo) = <<RunOf(req[c].name)>>
                \/ Now(c) = RunOf(req[c].name) /\ req[c].todo = <<RunOf(req[c].name)>> /\ Tail(req[c].todo) = <<>>
           /\ req[c].op \in {"vm", "putVM"}
           /\ Now(c).do \in VmDos
<1>1. VmReq(req[c])
  BY DEF PutInv, VmReqs
<1>2. req[c].op \in {"vm", "putVM"}
  BY <1>1, VmReqKinds
<1>3. CASE req[c].op = "vm"
  <2>1. /\ req[c].todo \in Seq(VmCalls) /\ req[c].todo # <<>>
        /\ \A i \in 1..Len(req[c].todo) : VmPlain(req[c].todo[i], req[c].name, i # Len(req[c].todo))
    BY <1>1, <1>3, VmReqKinds DEF VmOther
  <2>2. 1 \in 1..Len(req[c].todo) /\ Now(c) = req[c].todo[1] /\ Now(c) \in VmCalls
    BY <2>1 DEF Now
  <2>3. Now(c).do \in VmDos
    BY <2>2 DEF VmCalls
  <2>4. VmPlain(Now(c), req[c].name, 1 # Len(req[c].todo))
    BY <2>1, <2>2
  <2>5. 1 # Len(req[c].todo) => Tail(req[c].todo) # <<>>
    <3>1. Len(Tail(req[c].todo)) = Len(req[c].todo) - 1 /\ Len(req[c].todo) \in Nat
      BY <1>1, <1>3, <2>1, VmRest
    <3>2. Len(<<>>) = 0
      OBVIOUS
    <3>3. ASSUME Tail(req[c].todo) = <<>> PROVE Len(Tail(req[c].todo)) = 0
      BY <3>2, <3>3, Zenon
    <3>4. ASSUME Len(Tail(req[c].todo)) = 0 PROVE Len(req[c].todo) = 1
      BY <3>1, <3>4
    <3> QED BY <3>3, <3>4, Zenon
  <2> QED BY <1>3, <2>2, <2>3, <2>4, <2>5 DEF VmPlain
<1>4. CASE req[c].op = "putVM"
  <2>1. req[c].todo = <<SeekOf(req[c].name), RunOf(req[c].name)>> \/ req[c].todo = <<RunOf(req[c].name)>>
    BY <1>1, <1>4, VmReqKinds DEF VmPut
  <2>2. SeekOf(req[c].name).do = "FindInstance" /\ RunOf(req[c].name).do = "Run"
    BY DEF SeekOf, RunOf
  <2>3. CASE req[c].todo = <<SeekOf(req[c].name), RunOf(req[c].name)>>
    <3>1. Now(c) = SeekOf(req[c].name) /\ Tail(req[c].todo) = <<RunOf(req[c].name)>>
      BY <2>3 DEF Now
    <3> QED BY <1>4, <2>2, <3>1 DEF VmDos
  <2>4. CASE req[c].todo = <<RunOf(req[c].name)>>
    <3>1. Now(c) = RunOf(req[c].name) /\ Tail(req[c].todo) = <<>>
      BY <2>4 DEF Now
    <3> QED BY <1>4, <2>2, <2>4, <3>1 DEF VmDos
  <2> QED BY <2>1, <2>3, <2>4
<1> QED BY <1>2, <1>3, <1>4

LEMMA VmLookUp ==
    ASSUME PutInv, NamedVm, NEW c \in Clients, req[c] # Idle, FindInstance(c)
    PROVE  PutInv'
<1> DEFINE rest == Tail(req[c].todo)
           found == MatchesNameOrId(c)
<1>1. /\ UNCHANGED machineVars
      /\ \/ \E m \in found :
              IF Now(c).mode = "put" THEN VmContinues(c, <<>>)
              ELSE Goes(c, [req[c] EXCEPT !.todo = [i \in DOMAIN rest |-> [rest[i] EXCEPT !.inst = m.id]]])
         \/ /\ found = {}
            /\ CASE Now(c).mode = "must" -> Fails(c)
                 [] Now(c).mode = "put" -> Goes(c, [req[c] EXCEPT !.todo = rest])
                 [] OTHER -> Goes(c, [req[c] EXCEPT !.todo = GoingByName(c, rest)])
         \/ /\ Now(c).mode = "put"
            /\ Goes(c, [req[c] EXCEPT !.todo = rest, !.clean = FALSE])
         \/ /\ Now(c).mode = "opt"
            /\ Goes(c, [req[c] EXCEPT !.todo = GoingByName(c, rest)])
  BY DEF FindInstance, Seeks
<1>2. VmState /\ VmReq(req[c]) /\ VmSole /\ PutPromise /\ machines' = machines /\ made' = made
  BY <1>1 DEF PutInv, VmReqs, machineVars
<1>3. backend' = backend
  BY <1>1 DEF VmContinues, Ends, Goes, Fails
<1>4. VmState' /\ \A n : Live(n)' = Live(n)
  BY <1>2, <1>3, VmStateKept
<1>5. CASE req[c].op = "vm"
  <2>1. Now(c).mode = "must"
    BY <1>5, VmOthersCalls
  <2>2. CASE Fails(c)
    BY <1>4, <2>2, VmFails
  <2>3. ASSUME NEW m \in found, Goes(c, [req[c] EXCEPT !.todo = [i \in DOMAIN rest |-> [rest[i] EXCEPT !.inst = m.id]]])
        PROVE  PutInv'
    <3> DEFINE s == [i \in DOMAIN rest |-> [rest[i] EXCEPT !.inst = m.id]]
    <3>1. rest \in Seq(VmCalls) /\ DOMAIN rest = 1..Len(rest) /\ Len(rest) \in Nat
      BY <1>2, <1>5, VmRest
    <3>2. m.id \in Nat
      BY <1>2 DEF VmState, Vms, MatchesNameOrId
    <3>3. ASSUME NEW i \in 1..Len(rest)
          PROVE  /\ [rest[i] EXCEPT !.inst = m.id] \in VmCalls
                 /\ [rest[i] EXCEPT !.inst = m.id].do = rest[i].do
                 /\ [rest[i] EXCEPT !.inst = m.id].name = rest[i].name
                 /\ [rest[i] EXCEPT !.inst = m.id].mode = rest[i].mode
                 /\ VmPlain(rest[i], req[c].name, i # Len(rest))
      <4>1. rest[i] \in VmCalls
        BY <3>1
      <4>2. VmPlain(rest[i], req[c].name, i # Len(rest))
        BY <1>2, <1>5, VmRest, VmReqKinds DEF VmOther, VmPlain
      <4> QED BY <3>2, <4>1, <4>2 DEF VmCalls
    <3>4. /\ s \in Seq(VmCalls) /\ Len(s) = Len(rest)
          /\ \A i \in 1..Len(s) : VmPlain(s[i], req[c].name, i # Len(s))
      <4>1. s = [i \in 1..Len(rest) |-> [rest[i] EXCEPT !.inst = m.id]]
        BY <3>1
      <4>2. s \in Seq(VmCalls) /\ Len(s) = Len(rest)
        BY <3>1, <3>3, <4>1
      <4> QED BY <3>3, <4>1, <4>2 DEF VmPlain
    <3> HIDE DEF s
    <3>5. PICK q : q = [req[c] EXCEPT !.todo = s]
      OBVIOUS
    <3>6. Goes(c, q)
      BY <2>3, <3>5 DEF s
    <3>7. s # <<>>
      <4>1. rest # <<>>
        BY <1>5, VmOthersCalls DEF FindInstance, Doing, Now
      <4> QED BY <3>1, <3>4, <4>1
    <3>8. VmReq(q) /\ q # Idle /\ PutHolds(q)'
      BY <1>2, <1>5, <3>4, <3>5, <3>7, VmWithTodo
    <3> QED BY <1>4, <3>6, <3>8, VmGoesKeeps
  <2> QED BY <1>1, <2>1, <2>2, <2>3
<1>6. CASE req[c].op = "putVM"
  <2>a. VmShaped(req[c]) /\ VmPut(req[c])
    BY <1>2, <1>6, VmReqKinds
  <2>1. /\ Now(c) = SeekOf(req[c].name) /\ rest = <<RunOf(req[c].name)>>
        /\ req[c].name \in VmNames
    <3>1. RunOf(req[c].name).do = "Run" /\ Now(c).do = "FindInstance"
      BY DEF RunOf, FindInstance, Doing, Now
    <3> QED BY <1>6, <2>a, <3>1, VmOthersCalls DEF VmPut
  <2>2. Now(c).mode = "put" /\ Now(c).name = req[c].name
    BY <2>1 DEF SeekOf
  <2>3. found = Live(req[c].name)
    <3>1. \A m \in machines : m.id = req[c].name => m.name = req[c].name
      <4> SUFFICES ASSUME NEW m \in machines, m.id = req[c].name PROVE m.name = req[c].name
        OBVIOUS
      <4>1. req[c].name \in Nat /\ req[c].name > MaxMade
        BY <2>1, VmNameIsGiven
      <4>2. ~(m.id <= MaxMade)
        BY <4>1, VmNamesAreNumbers
      <4> QED BY <1>2, <4>2 DEF VmState
    <3>2. \A m \in machines : m.asked = req[c].name => m.name = req[c].name
      BY <1>2, <2>1, VmNameIsGiven DEF VmState
    <3> QED BY <2>2, <3>1, <3>2 DEF MatchesNameOrId, Live
  <2>4. CASE VmContinues(c, <<>>) /\ found # {}
    <3>1. PICK a : a = IF req[c].op = "putVM" /\ req[c].clean THEN [name |-> req[c].name, had |-> req[c].had] ELSE None
      OBVIOUS
    <3>2. Ends(c, a)
      BY <2>4, <3>1 DEF VmContinues
    <3>3. ASSUME alone = c, a # None
          PROVE  IF a.had = {} THEN \E m \in machines' : Live(a.name)' = {m} ELSE IdsOf(Live(a.name)') = a.had
      <4>1. req[c].clean /\ a = [name |-> req[c].name, had |-> req[c].had]
        BY <3>1, <3>3
      <4>2. req[c].had = IdsOf(Live(req[c].name))
        BY <1>2, <1>6, <3>3, <4>1 DEF PutPromise, PutHolds
      <4>3. a.name = req[c].name /\ a.had = IdsOf(Live(req[c].name)) /\ a.had # {}
        BY <2>3, <2>4, <4>1, <4>2 DEF IdsOf
      <4>4. Live(a.name)' = Live(a.name)
        BY <1>4
      <4> QED BY <4>3, <4>4
    <3> QED BY <1>4, <3>2, <3>3, VmEndsKeeps
  <2>5. CASE Goes(c, [req[c] EXCEPT !.todo = rest]) /\ found = {}
    <3>1. PICK q : q = [req[c] EXCEPT !.todo = rest]
      OBVIOUS
    <3>2. q = [op |-> req[c].op, todo |-> rest, name |-> req[c].name, had |-> req[c].had, clean |-> req[c].clean]
      BY <2>a, <3>1 DEF VmShaped
    <3> HIDE DEF rest
    <3>3. /\ q.op = "putVM" /\ q.todo = <<RunOf(q.name)>> /\ q.name = req[c].name /\ q.had = req[c].had
          /\ q.clean = req[c].clean /\ VmShaped(q) /\ Idle.op = "idle"
      BY <1>6, <2>1, <3>2 DEF VmShaped, Idle
    <3>4. VmReq(q) /\ q # Idle
      BY <2>1, <3>3 DEF VmReq, VmPut
    <3>5. alone = c => PutHolds(q)'
      <4> SUFFICES ASSUME alone = c, q.clean PROVE q.had = IdsOf(Live(q.name)') /\ Live(q.name)' = {}
        BY DEF PutHolds, IdsOf
      <4>1. req[c].had = IdsOf(Live(req[c].name)) /\ Live(req[c].name) = {}
        BY <1>2, <1>6, <2>3, <2>5, <3>3 DEF PutPromise, PutHolds
      <4> QED BY <1>4, <3>3, <4>1
    <3> QED BY <1>4, <2>5, <3>1, <3>4, <3>5, VmGoesKeeps
  <2>6. CASE Goes(c, [req[c] EXCEPT !.todo = rest, !.clean = FALSE])
    <3>1. PICK q : q = [req[c] EXCEPT !.todo = rest, !.clean = FALSE]
      OBVIOUS
    <3>2. q = [op |-> req[c].op, todo |-> rest, name |-> req[c].name, had |-> req[c].had, clean |-> FALSE]
      BY <2>a, <3>1 DEF VmShaped
    <3> HIDE DEF rest
    <3>3. q.op = "putVM" /\ q.todo = <<RunOf(q.name)>> /\ q.name = req[c].name /\ Idle.op = "idle"
      BY <1>6, <2>1, <3>2 DEF Idle
    <3>4. VmShaped(q) /\ ~q.clean
      BY <3>2 DEF VmShaped
    <3>5. VmReq(q) /\ q # Idle /\ PutHolds(q)'
      BY <2>1, <3>3, <3>4 DEF VmReq, VmPut, PutHolds
    <3> QED BY <1>4, <2>6, <3>1, <3>5, VmGoesKeeps
  <2> QED BY <1>1, <2>2, <2>4, <2>5, <2>6
<1> QED BY <1>5, <1>6, VmOthersCalls

(* A shim stays with its service and its backend. *)
LEMMA VmDeploymentFixed ==
    ASSUME NEW c, InstanceRequests(c) \/ VmRequests(c) \/ SnapshotRequests(c) \/ MachinesCall(c) \/ Dies(c)
    PROVE  service' = service /\ backend' = backend
<1> DEFINE Fixed == service' = service /\ backend' = backend
<1>1. ASSUME NEW r, Goes(c, r) \/ Ends(c, r) \/ Fails(c) \/ VmRefused(c) \/ VmContinues(c, r) \/ VmDone(c) PROVE Fixed
  BY <1>1 DEF Goes, Ends, Fails, VmRefused, VmContinues, VmDone
<1>2. ASSUME NEW op, NEW name, NEW calls, NEW had, Requests(c, op, name, calls, had) PROVE Fixed
  BY <1>2 DEF Requests, Begin
<1>3. ASSUME NEW name, NEW calls, AsksVm(c, name, calls) PROVE Fixed
  BY <1>2, <1>3 DEF AsksVm
<1>4. ASSUME NEW do, ForInstances(c, do) \/ NamedInstance(c, do) PROVE Fixed
  BY <1>3, <1>4 DEF ForInstances, NamedInstance
<1>5. ASSUME NEW found, NEW with(_, _), Seeks(c, found, with) PROVE Fixed
  BY <1>1, <1>5 DEF Seeks
<1>6. ASSUME NEW s, NEW id, NEW name, NEW from, NEW d,
             \/ Sets(c, s) \/ Removes(c) \/ Reboots(c) \/ DropsFreeVolume(c) \/ DropsSnapshot(c) \/ Attaches(c)
             \/ Detaches(c, id) \/ AddsVolume(c, id, name) \/ AddsSnapshot(c, id, name) \/ InmemEach(c, s)
             \/ GetsVM(c, d) \/ AwsAll(c, s, from)
      PROVE  Fixed
  BY <1>1, <1>6 DEF Sets, Removes, Reboots, DropsFreeVolume, DropsSnapshot, Attaches, Detaches, AddsVolume,
     AddsSnapshot, InmemEach, GetsVM, AwsAll
<1> HIDE DEF Fixed
<1>7. CASE InstanceRequests(c)
  BY <1>3, <1>4, <1>7 DEF InstanceRequests, RunInstances, TerminateInstances, deleteInstance,
     CreateVolume, DeleteVolume, AttachVolume, DetachVolume, insertDisk, attachDisk, detachDisk, Fixed
<1>8. CASE VmRequests(c)
  BY <1>2, <1>3, <1>4, <1>8 DEF VmRequests, RunInstances, StartInstances, StopInstances, RebootInstances,
     TerminateInstances, insertInstance, startInstance, stopInstance, resetInstance, deleteInstance,
     createOrUpdateVM, deleteVM, routeVMAction, Fixed
<1>9. CASE SnapshotRequests(c)
  BY <1>3, <1>9 DEF SnapshotRequests, CreateVolume, DeleteVolume, CreateSnapshot, DeleteSnapshot, insertDisk,
     deleteDisk, insertSnapshot, deleteSnapshot, createOrUpdateDisk, deleteAzureDisk, createOrUpdateSnapshot,
     deleteAzureSnapshot, Fixed
<1>10. CASE MachinesCall(c)
  <2>1. CASE FindInstance(c) \/ FindVolume(c) \/ FindSnapshot(c) \/ FindAttached(c)
    BY <1>5, <2>1 DEF FindInstance, FindVolume, FindSnapshot, FindAttached, Fixed
  <2>2. ASSUME \/ InmemRunInstances(c) \/ InmemStartInstances(c)
               \/ InmemStopInstances(c) \/ InmemTerminateInstances(c)
               \/ InmemRebootInstances(c) \/ InmemCreateVolume(c)
               \/ InmemDeleteVolume(c) \/ InmemAttachVolume(c) \/ InmemDetachVolume(c)
               \/ InmemCreateSnapshot(c) \/ InmemDeleteSnapshot(c)
        PROVE  Fixed
    BY <1>1, <1>6, <2>2 DEF InmemRunInstances, InmemStartInstances, InmemStopInstances, InmemTerminateInstances,
       InmemRebootInstances, InmemCreateVolume, InmemDeleteVolume, InmemAttachVolume, InmemDetachVolume,
       InmemCreateSnapshot, InmemDeleteSnapshot
  <2>3. ASSUME \/ K8sInstances(c) \/ K8sAttachments(c) \/ K8sSnapshots(c)
               \/ K8sCreateVolume(c) \/ K8sDeleteVolume(c)
        PROVE  Fixed
    BY <1>1, <1>6, <2>3 DEF K8sInstances, K8sAttachments, K8sSnapshots, K8sCreateVolume, K8sDeleteVolume
  <2>4. ASSUME \/ GcpRunInstances(c) \/ GcpStartInstances(c) \/ GcpStopInstances(c)
               \/ GcpTerminateInstances(c) \/ GcpRebootInstances(c)
               \/ GcpCreateVolume(c) \/ GcpDeleteVolume(c) \/ GcpAttachVolume(c)
               \/ GcpDetachVolume(c) \/ GcpCreateSnapshot(c) \/ GcpDeleteSnapshot(c)
        PROVE  Fixed
    BY <1>1, <1>6, <2>4 DEF GcpRunInstances, GcpStartInstances, GcpStopInstances, GcpTerminateInstances,
       GcpRebootInstances, GcpCreateVolume, GcpDeleteVolume, GcpAttachVolume, GcpDetachVolume, GcpCreateSnapshot,
       GcpDeleteSnapshot
  <2>5. ASSUME \/ AzureRunInstances(c) \/ AzureStartInstances(c)
               \/ AzureStopInstances(c) \/ AzureTerminateInstances(c)
               \/ AzureRebootInstances(c) \/ AzureCreateVolume(c)
               \/ AzureDeleteVolume(c) \/ AzureAttachVolume(c) \/ AzureDetachVolume(c)
               \/ AzurePutsVM(c) \/ AzureCreateSnapshot(c) \/ AzureDeleteSnapshot(c)
        PROVE  Fixed
    BY <1>1, <1>6, <2>5 DEF AzureRunInstances, AzureStartInstances, AzureStopInstances, AzureTerminateInstances,
       AzureRebootInstances, AzureCreateVolume, AzureDeleteVolume, AzureAttachVolume, AzureDetachVolume,
       AzurePutsVM, AzureCreateSnapshot, AzureDeleteSnapshot
  <2>6. ASSUME \/ AwsRunInstances(c) \/ AwsStartInstances(c) \/ AwsStopInstances(c)
               \/ AwsTerminateInstances(c) \/ AwsRebootInstances(c)
               \/ AwsCreateVolume(c) \/ AwsDeleteVolume(c) \/ AwsAttachVolume(c)
               \/ AwsDetachVolume(c) \/ AwsCreateSnapshot(c) \/ AwsDeleteSnapshot(c)
        PROVE  Fixed
    BY <1>1, <1>6, <2>6 DEF AwsRunInstances, AwsStartInstances, AwsStopInstances, AwsTerminateInstances,
       AwsRebootInstances, AwsCreateVolume, AwsDeleteVolume, AwsAttachVolume, AwsDetachVolume, AwsCreateSnapshot,
       AwsDeleteSnapshot
  <2> QED BY <1>10, <2>1, <2>2, <2>3, <2>4, <2>5, <2>6 DEF MachinesCall, Fixed
<1>11. CASE Dies(c)
  BY <1>1, <1>11 DEF Dies, Fixed
<1> QED BY <1>7, <1>8, <1>9, <1>10, <1>11

LEMMA VmSettled ==
    ASSUME VmState, NEW ids, NEW s \in {"running", "stopped", "terminated"}, MovesTo(ids, s),
           made' = made, backend' = backend
    PROVE  VmState'
<1>1. \A m \in machines : /\ InState(m, s) \in Vms /\ InState(m, s).id = m.id
                          /\ InState(m, s).name = m.name /\ InState(m, s).asked = m.asked
  <2> SUFFICES ASSUME NEW m \in machines
               PROVE  /\ InState(m, s) \in Vms /\ InState(m, s).id = m.id
                      /\ InState(m, s).name = m.name /\ InState(m, s).asked = m.asked
    OBVIOUS
  <2>1. m \in Vms
    BY DEF VmState
  <2> QED BY <2>1 DEF Vms, InState
<1>2. \A m \in machines' : \E n \in machines : m = n \/ m = InState(n, s)
  BY DEF MovesTo
<1>3. ASSUME NEW m \in machines' PROVE m \in Vms /\ \E n \in machines : m.id = n.id /\ m.name = n.name /\ m.asked = n.asked
  BY <1>1, <1>2, <1>3 DEF VmState
<1> QED BY <1>3 DEF VmState

(* The creation of a virtual machine: new is the only one of the name a PUT *)
(* found none of.                                                           *)
LEMMA VmCreated ==
    ASSUME PutInv, NamedVm, NEW c \in Clients, req[c] # Idle, Now(c).do = "Run", VmState',
           NEW id \in Nat, NEW name \in Nat,
           NEW old \in SUBSET machines,
           req[c].op = "putVM" => /\ machines' = old \cup {Machine(id, name, req[c].name)},
           VmDone(c) \/ VmContinues(c, <<>>)
    PROVE  PutInv'
<1>1. VmReq(req[c]) /\ VmState /\ PutPromise
  BY DEF PutInv, VmReqs
<1>2. CASE req[c].op = "vm"
  BY <1>2, VmOtherDone
<1>3. CASE req[c].op = "putVM"
  <2>1. /\ Now(c) = RunOf(req[c].name) /\ req[c].todo = <<RunOf(req[c].name)>> /\ Tail(req[c].todo) = <<>>
    <3>1. SeekOf(req[c].name).do = "FindInstance"
      BY DEF SeekOf
    <3> QED BY <1>3, <3>1, VmOthersCalls
  <2>2. PICK a : a = IF req[c].op = "putVM" /\ req[c].clean THEN [name |-> req[c].name, had |-> req[c].had] ELSE None
    OBVIOUS
  <2>3. Ends(c, a)
    BY <2>1, <2>2 DEF VmContinues, VmDone
  <2>4. ASSUME alone = c, a # None
        PROVE  IF a.had = {} THEN \E m \in machines' : Live(a.name)' = {m} ELSE IdsOf(Live(a.name)') = a.had
    <3>1. req[c].clean /\ a = [name |-> req[c].name, had |-> req[c].had]
      BY <2>2, <2>4
    <3>2. req[c].had = IdsOf(Live(req[c].name)) /\ Live(req[c].name) = {}
      BY <1>1, <1>3, <2>1, <2>4, <3>1 DEF PutPromise, PutHolds
    <3>3. a.name = req[c].name /\ a.had = {} /\ Live(a.name) = {}
      BY <3>1, <3>2 DEF IdsOf
    <3> DEFINE m == Machine(id, name, a.name)
    <3>4. machines' = old \cup {m} /\ m.asked = a.name /\ m.state = "running"
      BY <1>3, <3>3 DEF Machine
    <3> HIDE DEF m
    <3>5. Live(a.name)' = {m}
      BY <3>3, <3>4 DEF Live
    <3> QED BY <3>3, <3>4, <3>5
  <2> QED BY <2>3, <2>4, VmEndsKeeps
<1> QED BY <1>2, <1>3, VmOthersCalls

LEMMA VmAdded ==
    ASSUME VmState, backend' = backend, made' \in 0..MaxMade, NEW old \in SUBSET machines,
           NEW new, machines' = old \cup new,
           \A m \in new : \E id \in Nat, name \in Nat, asked \in Nat :
               /\ m = Machine(id, name, asked)
               /\ asked # Nameless => name = asked
               /\ IF backend = "inmem" THEN id <= MaxMade ELSE id = name
    PROVE  VmState'
<1>1. \A m \in new : /\ m \in Vms /\ (m.asked # Nameless => m.name = m.asked)
                     /\ IF backend = "inmem" THEN m.id <= MaxMade ELSE m.id = m.name
  <2> SUFFICES ASSUME NEW m \in new
               PROVE  /\ m \in Vms /\ (m.asked # Nameless => m.name = m.asked)
                      /\ IF backend = "inmem" THEN m.id <= MaxMade ELSE m.id = m.name
    OBVIOUS
  <2>1. PICK id \in Nat, name \in Nat, asked \in Nat :
               /\ m = Machine(id, name, asked)
               /\ asked # Nameless => name = asked
               /\ IF backend = "inmem" THEN id <= MaxMade ELSE id = name
    OBVIOUS
  <2>2. m.id = id /\ m.name = name /\ m.asked = asked /\ m \in Vms
    BY <2>1 DEF Machine, Vms
  <2> QED BY <2>1, <2>2
<1> QED BY <1>1 DEF VmState

LEMMA VmRuns ==
    ASSUME PutInv, NamedVm, NEW c \in Clients, req[c] # Idle,
           InmemRunInstances(c) \/ GcpRunInstances(c) \/ AzureRunInstances(c)
    PROVE  PutInv'
<1>1. VmState /\ VmReq(req[c]) /\ Now(c).do = "Run" /\ MaxMade \in Nat /\ DefaultVm \in Nat
  BY VmNamesAreNumbers DEF PutInv, VmReqs, InmemRunInstances, GcpRunInstances, AzureRunInstances, Doing, Now
<1>2. Now(c).name = req[c].name /\ req[c].name \in Nat /\ Now(c).inst \in Nat
  <2>1. CASE req[c].op = "vm"
    BY <1>1, <2>1, VmOthersCalls, VmReqKinds DEF VmOther, VmCalls
  <2>2. CASE req[c].op = "putVM"
    <3>1. Now(c) = RunOf(req[c].name)
      <4>1. SeekOf(req[c].name).do = "FindInstance"
        BY DEF SeekOf
      <4> QED BY <1>1, <2>2, <4>1, VmOthersCalls
    <3>2. RunOf(req[c].name).name = req[c].name /\ RunOf(req[c].name).inst = 1
      BY DEF RunOf
    <3>3. req[c].name \in Nat
      BY <1>1, <2>2, VmReqKinds, VmNameIsGiven DEF VmPut
    <3> QED BY <3>1, <3>2, <3>3
  <2> QED BY <2>1, <2>2, VmOthersCalls
<1>3. Len(req[c].todo) \in Nat /\ DOMAIN req[c].todo = 1..Len(req[c].todo)
      /\ (req[c].op = "putVM" => Len(req[c].todo) = 1)
  <2>1. CASE req[c].op = "vm"
    BY <1>1, <2>1, VmReqKinds DEF VmOther
  <2>2. CASE req[c].op = "putVM"
    <3>1. req[c].todo = <<RunOf(req[c].name)>>
      <4>1. SeekOf(req[c].name).do = "FindInstance"
        BY DEF SeekOf
      <4> QED BY <1>1, <2>2, <4>1, VmOthersCalls
    <3> QED BY <3>1
  <2> QED BY <2>1, <2>2, VmOthersCalls
<1>4. VmName(c) \in Nat /\ (req[c].name # Nameless => VmName(c) = req[c].name)
  BY <1>1, <1>2 DEF VmName
<1>5. CASE InmemRunInstances(c)
  <2> DEFINE n == Len(req[c].todo)
             new == {Machine(made + i, Now(c).name, req[c].name) : i \in DOMAIN req[c].todo}
  <2>1. /\ machines' = machines \cup new /\ made + n <= MaxMade /\ made' = made + n
        /\ VmContinues(c, <<>>) /\ backend = "inmem"
    BY <1>5 DEF InmemRunInstances, Numbered, Doing
  <2>2. backend' = backend
    BY <2>1, VmGoesOn
  <2>3. made' \in 0..MaxMade /\ made \in Nat
    BY <1>1, <1>3, <2>1 DEF VmState
  <2>4. \A m \in new : \E id \in Nat, name \in Nat, asked \in Nat :
               /\ m = Machine(id, name, asked)
               /\ asked # Nameless => name = asked
               /\ IF backend = "inmem" THEN id <= MaxMade ELSE id = name
    <3> SUFFICES ASSUME NEW i \in 1..n
                 PROVE  made + i \in Nat /\ made + i <= MaxMade
      BY <1>2, <1>3, <2>1
    <3> QED BY <1>1, <1>3, <2>1, <2>3
  <2>5. VmState'
    <3> HIDE DEF new
    <3> QED BY <1>1, <2>1, <2>2, <2>3, <2>4, VmAdded
  <2>6. req[c].op = "putVM" => machines' = machines \cup {Machine(made + 1, Now(c).name, req[c].name)}
    <3> SUFFICES ASSUME req[c].op = "putVM" PROVE new = {Machine(made + 1, Now(c).name, req[c].name)}
      BY <2>1
    <3>1. DOMAIN req[c].todo = {1}
      <4>1. DOMAIN req[c].todo = 1..1
        BY <1>3
      <4>2. 1..1 = {1}
        OBVIOUS
      <4> QED BY <4>1, <4>2, Zenon
    <3> QED BY <3>1
  <2>7. made + 1 \in Nat
    BY <2>3
  <2> HIDE DEF new, n
  <2> QED BY <1>1, <1>2, <2>1, <2>5, <2>6, <2>7, VmCreated
<1>6. ASSUME NEW old \in SUBSET machines,
             machines' = old \cup {Machine(VmName(c), VmName(c), req[c].name)},
             made' = made, VmDone(c), backend # "inmem"
      PROVE  PutInv'
  <2> DEFINE new == {Machine(VmName(c), VmName(c), req[c].name)}
  <2>1. backend' = backend
    BY <1>6, VmDoneKeeps
  <2>2. made' \in 0..MaxMade
    BY <1>1, <1>6 DEF VmState
  <2>3. \A m \in new : \E id \in Nat, name \in Nat, asked \in Nat :
               /\ m = Machine(id, name, asked)
               /\ asked # Nameless => name = asked
               /\ IF backend = "inmem" THEN id <= MaxMade ELSE id = name
    BY <1>2, <1>4, <1>6
  <2>4. VmState'
    <3>1. machines' = old \cup new
      BY <1>6
    <3> HIDE DEF new
    <3> QED BY <1>1, <2>1, <2>2, <2>3, <3>1, VmAdded
  <2> QED BY <1>1, <1>4, <1>6, <2>4, VmCreated
<1>7. CASE GcpRunInstances(c)
  <2>1. CASE VmRefused(c)
    BY <2>1, VmRefusal
  <2>2. CASE ~VmRefused(c)
    BY <1>6, <1>7, <2>2 DEF GcpRunInstances, OnlyMachines, Doing
  <2> QED BY <2>1, <2>2
<1>8. CASE AzureRunInstances(c)
  <2> DEFINE old == {m \in machines : m.id # VmName(c)}
  <2>1. /\ machines' = old \cup {Machine(VmName(c), VmName(c), req[c].name)}
        /\ made' = made /\ VmDone(c) /\ backend # "inmem"
    BY <1>8 DEF AzureRunInstances, OnlyMachines, Doing
  <2>2. old \in SUBSET machines
    OBVIOUS
  <2> HIDE DEF old
  <2> QED BY <1>6, <2>1, <2>2
<1> QED BY <1>5, <1>7, <1>8

(* The other calls on instances. *)
LEMMA VmManaged ==
    ASSUME PutInv, NamedVm, NEW c \in Clients, req[c] # Idle, Now(c).do \in VmDos \ {"Run", "FindInstance"}, VmState',
           VmDone(c) \/ VmContinues(c, <<>>) \/ Fails(c)
    PROVE  PutInv'
<1>1. req[c].op = "vm"
  <2>1. SeekOf(req[c].name).do = "FindInstance" /\ RunOf(req[c].name).do = "Run"
    BY DEF SeekOf, RunOf
  <2> QED BY <2>1, VmOthersCalls
<1>2. CASE Fails(c)
  BY <1>2, VmFails
<1> QED BY <1>1, <1>2, VmOtherDone

LEMMA VmCalled ==
    ASSUME PutInv, NamedVm, NEW c \in Clients, MachinesCall(c)
    PROVE  PutInv'
<1>0. VmState /\ req[c] # Idle /\ Now(c).do \in VmDos
  BY VmOthersCalls DEF PutInv, MachinesCall
<1>1. CASE VmRefused(c)
  BY <1>1, VmRefusal
<1>2. CASE FindInstance(c)
  BY <1>0, <1>2, VmLookUp
<1>3. CASE InmemRunInstances(c) \/ GcpRunInstances(c) \/ AzureRunInstances(c)
  BY <1>0, <1>3, VmRuns
<1>4. ASSUME NEW s \in {"running", "stopped", "terminated"}, NEW do \in {"Start", "Stop", "Terminate"},
             Now(c).do = do, Sets(c, s) \/ InmemEach(c, s)
      PROVE  PutInv'
  <2>1. CASE ~VmRefused(c)
    <3>1. (\E ids : MovesTo(ids, s)) /\ made' = made /\ (VmDone(c) \/ VmContinues(c, <<>>) \/ Fails(c))
      BY <1>4, <2>1 DEF Sets, InmemEach, OnlyMachines
    <3>2. backend' = backend
      BY <3>1, VmDoneKeeps, VmGoesOn, VmFailsKeeps
    <3>3. VmState'
      BY <1>0, <3>1, <3>2, VmSettled
    <3> QED BY <1>0, <1>4, <3>1, <3>3, VmManaged
  <2> QED BY <1>1, <2>1
<1>5. ASSUME Now(c).do = "Terminate", Removes(c)
      PROVE  PutInv'
  <2>1. CASE ~VmRefused(c)
    <3>1. machines' \subseteq machines /\ made' = made /\ VmDone(c)
      BY <1>5, <2>1 DEF Removes, OnlyMachines
    <3>2. backend' = backend
      BY <3>1, VmDoneKeeps
    <3>3. VmState'
      BY <1>0, <3>1, <3>2 DEF VmState
    <3> QED BY <1>0, <1>5, <3>1, <3>3, VmManaged
  <2> QED BY <1>1, <2>1
<1>6. ASSUME Now(c).do = "Reboot", Reboots(c)
      PROVE  PutInv'
  <2>1. CASE ~VmRefused(c)
    <3>1. UNCHANGED machineVars /\ VmDone(c)
      BY <1>6, <2>1 DEF Reboots
    <3>2. backend' = backend
      BY <3>1, VmDoneKeeps
    <3>3. VmState'
      BY <1>0, <3>1, <3>2, VmStateKept DEF machineVars
    <3> QED BY <1>0, <1>6, <3>1, <3>3, VmManaged
  <2> QED BY <1>1, <2>1
<1>7. CASE backend = "inmem"
  <2>1. \/ FindInstance(c) \/ InmemRunInstances(c) \/ InmemStartInstances(c) \/ InmemStopInstances(c)
        \/ InmemTerminateInstances(c) \/ InmemRebootInstances(c)
    BY <1>0, <1>7 DEF MachinesCall, VmDos, FindVolume, FindSnapshot, FindAttached, InmemCreateVolume,
       InmemDeleteVolume, InmemAttachVolume, InmemDetachVolume, InmemCreateSnapshot, InmemDeleteSnapshot, Doing, Now
  <2> QED BY <1>2, <1>3, <1>4, <1>6, <2>1 DEF InmemStartInstances, InmemStopInstances, InmemTerminateInstances,
       InmemRebootInstances, Doing, Now
<1>8. CASE backend = "k8s"
  <2>1. FindInstance(c) \/ VmRefused(c)
    BY <1>0, <1>8 DEF MachinesCall, VmDos, FindVolume, FindSnapshot, FindAttached, K8sInstances, K8sAttachments,
       K8sSnapshots, K8sCreateVolume, K8sDeleteVolume, Doing, Now
  <2> QED BY <1>1, <1>2, <2>1
<1>9. CASE backend = "gcp"
  <2>1. \/ FindInstance(c) \/ GcpRunInstances(c) \/ GcpStartInstances(c) \/ GcpStopInstances(c)
        \/ GcpTerminateInstances(c) \/ GcpRebootInstances(c)
    BY <1>0, <1>9 DEF MachinesCall, VmDos, FindVolume, FindSnapshot, FindAttached, GcpCreateVolume,
       GcpDeleteVolume, GcpAttachVolume, GcpDetachVolume, GcpCreateSnapshot, GcpDeleteSnapshot, Doing, Now
  <2> QED BY <1>2, <1>3, <1>4, <1>5, <1>6, <2>1 DEF GcpStartInstances, GcpStopInstances, GcpTerminateInstances,
       GcpRebootInstances, Doing, Now
<1>10. CASE backend = "azure"
  <2>1. \/ FindInstance(c) \/ AzureRunInstances(c) \/ AzureStartInstances(c) \/ AzureStopInstances(c)
        \/ AzureTerminateInstances(c) \/ AzureRebootInstances(c)
    BY <1>0, <1>10 DEF MachinesCall, VmDos, FindVolume, FindSnapshot, FindAttached, AzureCreateVolume,
       AzureDeleteVolume, AzureAttachVolume, AzureDetachVolume, AzurePutsVM, AzureCreateSnapshot,
       AzureDeleteSnapshot, Doing, Now
  <2> QED BY <1>2, <1>3, <1>4, <1>5, <1>6, <2>1 DEF AzureStartInstances, AzureStopInstances,
       AzureTerminateInstances, AzureRebootInstances, Doing, Now
<1>11. CASE backend \notin {"inmem", "k8s", "gcp", "azure"}
  <2>1. FindInstance(c)
    BY <1>0, <1>11 DEF MachinesCall, NamedVm, VmDos, FindVolume, FindSnapshot, FindAttached, Doing, Now
  <2> QED BY <1>2, <2>1
<1> QED BY <1>7, <1>8, <1>9, <1>10, <1>11

LEMMA PutStep ==
    ASSUME PutInv, [MachinesNext]_<<shimVars, machineVars>>
    PROVE  PutInv'
<1>1. CASE UNCHANGED <<shimVars, machineVars>>
  BY <1>1 DEF shimVars, machineVars, PutInv, NamedVm, VmState, VmReqs, VmSole, PutPromise, PutHolds, PutAgainAddsNothing,
     Live, IdsOf
<1>2. CASE MachinesNext /\ NamedVm
  <2>1. PICK c \in Clients : \/ InstanceRequests(c) \/ VmRequests(c) \/ SnapshotRequests(c)
                             \/ MachinesCall(c)
                             \/ Dies(c) /\ UNCHANGED machineVars
    BY <1>2 DEF MachinesNext
  <2>2. VmRequests(c) \/ MachinesCall(c) \/ VmRefused(c)
    BY <1>2, <2>1 DEF InstanceRequests, SnapshotRequests, NamedVm, Dies, VmRefused
  <2> QED BY <1>2, <2>2, VmAsks, VmCalled, VmRefusal
<1>3. CASE MachinesNext /\ ~NamedVm
  <2>1. service' = service /\ backend' = backend
    BY <1>3, VmDeploymentFixed DEF MachinesNext
  <2> QED BY <1>3, <2>1 DEF PutInv, NamedVm
<1> QED BY <1>1, <1>2, <1>3

\* PutIsIdempotent: a virtual machine PUT of azure_compute that ran alone, over
\* any backend but aws, adds an instance only if there was none of that name,
\* for any number of clients, names and instances.
THEOREM PutsAlwaysIdempotent == MachinesSpec => []PutIsIdempotent
<1>1. ShimInit /\ MachinesInit => PutInv
  <2> SUFFICES ASSUME ShimInit, MachinesInit PROVE PutInv
    OBVIOUS
  <2>1. VmState
    BY VmNamesAreNumbers DEF MachinesInit, VmState
  <2>2. VmReqs /\ VmSole /\ PutPromise /\ PutAgainAddsNothing
    BY NoneIsNoClient DEF ShimInit, VmReqs, VmReq, VmSole, PutPromise, PutAgainAddsNothing
  <2> QED BY <2>1, <2>2 DEF PutInv
<1>2. PutInv /\ [MachinesNext]_<<shimVars, machineVars>> => PutInv'
  BY PutStep
<1>3. PutInv => PutIsIdempotent
  BY DEF PutInv, NamedVm, PutIsIdempotent, PutAgainAddsNothing
<1> QED BY <1>1, <1>2, <1>3, PTL DEF MachinesSpec

-----------------------------------------------------------------------------
(* Load balancers: what was added stays *)

PoolRec(p) == [id |-> p.id, name |-> p.name, targets |-> p.targets]
ListenerRec(l) ==
    [id |-> l.id, lb |-> l.lb, app |-> l.app, port |-> l.port, pool |-> l.pool, proxy |-> l.proxy]
RouteRec(r) == [id |-> r.id, lsn |-> r.lsn, priority |-> r.priority, pool |-> r.pool]
PartsShaped ==
    /\ \A p \in pools : p = PoolRec(p)
    /\ \A l \in listeners : l = ListenerRec(l)
    /\ \A r \in routes : r = RouteRec(r)
\* A target group is known by its identifier: on inmem and aws by a number that
\* was generated once, on k8s by a name that Kubernetes takes once.
PoolsOnce == \A p \in pools, q \in pools : p.id = q.id => p = q
PoolsNumbered ==
    /\ lbSeq \in [{"lb", "pool", "listener", "route"} -> Nat]
    /\ backend # "k8s" => \A p \in pools : p.id \in Nat /\ p.id <= lbSeq["pool"]

KeptTarget(a) == \E p \in pools : \E t \in p.targets : a = <<"target", p.id, t>>
KeptListener(a) == \E l \in listeners : a = <<"listener", l.id>>
KeptRoute(a) == \E r \in routes : a = <<"route", r.id>>
PartsKept == \A a \in assured : KeptTarget(a) \/ KeptListener(a) \/ KeptRoute(a)
BalancerInv == PartsShaped /\ PoolsOnce /\ PoolsNumbered /\ PartsKept

LEMMA PartsKeptIsAssuredKept == PartsKept <=> AssuredKept
<1>1. ASSUME NEW a
      PROVE  a \in UNION {TargetsOf(p.id, p.targets) : p \in pools} <=> KeptTarget(a)
  BY DEF KeptTarget, TargetsOf
<1>2. ASSUME NEW a
      PROVE  /\ a \in {<<"listener", l.id>> : l \in listeners} <=> KeptListener(a)
             /\ a \in {<<"route", r.id>> : r \in routes} <=> KeptRoute(a)
  BY DEF KeptListener, KeptRoute
<1> QED
  BY <1>1, <1>2 DEF PartsKept, AssuredKept

LEMMA KindsDiffer ==
    ASSUME NEW a, NEW i
    PROVE  /\ KeptTarget(a) => a[1] = "target"
           /\ a = <<"listener", i>> => a[1] = "listener" /\ a[2] = i
           /\ a = <<"route", i>> => a[1] = "route" /\ a[2] = i
BY DEF KeptTarget

-----------------------------------------------------------------------------
(* Load balancers: what a call leaves *)

LEMMA PartsIdle ==
    ASSUME BalancerInv, UNCHANGED <<pools, listeners, routes, lbSeq, assured, backend>>
    PROVE  BalancerInv'
BY DEF BalancerInv, PartsShaped, PoolsOnce, PoolsNumbered, PartsKept, KeptTarget, KeptListener, KeptRoute

\* What is there stays, and what is new in the history is there.
LEMMA PartsAdded ==
    ASSUME BalancerInv, UNCHANGED <<pools, backend>>,
           lbSeq' \in [{"lb", "pool", "listener", "route"} -> Nat], lbSeq'["pool"] = lbSeq["pool"],
           listeners \subseteq listeners', \A l \in listeners' : l = ListenerRec(l),
           routes \subseteq routes', \A r \in routes' : r = RouteRec(r),
           \A a \in assured' : a \in assured \/ KeptListener(a)' \/ KeptRoute(a)'
    PROVE  BalancerInv'
<1>1. PartsShaped' /\ PoolsOnce' /\ PoolsNumbered'
  BY DEF BalancerInv, PartsShaped, PoolsOnce, PoolsNumbered
<1>2. \A a : (KeptTarget(a) => KeptTarget(a)') /\ (KeptListener(a) => KeptListener(a)') /\ (KeptRoute(a) => KeptRoute(a)')
  BY DEF KeptTarget, KeptListener, KeptRoute
<1>3. PartsKept'
  BY <1>2 DEF BalancerInv, PartsKept
<1> QED
  BY <1>1, <1>3 DEF BalancerInv

\* Listeners and rules go, and so does what the history has of them.
LEMMA PartsRemoved ==
    ASSUME BalancerInv, UNCHANGED <<pools, backend, lbSeq>>,
           listeners' \subseteq listeners, routes' \subseteq routes, assured' \subseteq assured,
           \A l \in listeners : l \in listeners' \/ <<"listener", l.id>> \notin assured',
           \A r \in routes : r \in routes' \/ <<"route", r.id>> \notin assured'
    PROVE  BalancerInv'
<1>1. PartsShaped' /\ PoolsOnce' /\ PoolsNumbered'
  BY DEF BalancerInv, PartsShaped, PoolsOnce, PoolsNumbered
<1>2. ASSUME NEW a \in assured'
      PROVE  (KeptTarget(a) => KeptTarget(a)') /\ (KeptListener(a) => KeptListener(a)') /\ (KeptRoute(a) => KeptRoute(a)')
  BY DEF KeptTarget, KeptListener, KeptRoute
<1>3. PartsKept'
  BY <1>2 DEF BalancerInv, PartsKept
<1> QED
  BY <1>1, <1>3 DEF BalancerInv

LEMMA PoolAdded ==
    ASSUME BalancerInv, UNCHANGED <<listeners, routes, assured, backend>>, NEW id, NEW n,
           pools' = pools \cup {[id |-> id, name |-> n, targets |-> {}]},
           \/ backend = "k8s" /\ PoolById(id) = {} /\ UNCHANGED lbSeq
           \/ id = lbSeq["pool"] + 1 /\ lbSeq' = [lbSeq EXCEPT !["pool"] = @ + 1] /\ backend # "k8s"
    PROVE  BalancerInv'
<1> DEFINE new == [id |-> id, name |-> n, targets |-> {}]
<1>1. new = PoolRec(new) /\ new.id = id
  BY DEF PoolRec
<1>2. pools' = pools \cup {new}
  OBVIOUS
<1> HIDE DEF new
<1>3. \A p \in pools : p.id # id
  BY DEF BalancerInv, PoolsNumbered, PoolById
<1>4. PartsShaped'
  BY <1>1, <1>2 DEF BalancerInv, PartsShaped
<1>5. PoolsOnce'
  BY <1>1, <1>2, <1>3 DEF BalancerInv, PoolsOnce
<1>6. PoolsNumbered'
  <2>1. CASE backend = "k8s" /\ UNCHANGED lbSeq
    BY <2>1 DEF BalancerInv, PoolsNumbered
  <2>2. CASE id = lbSeq["pool"] + 1 /\ lbSeq' = [lbSeq EXCEPT !["pool"] = @ + 1] /\ backend # "k8s"
    <3>1. lbSeq' \in [{"lb", "pool", "listener", "route"} -> Nat] /\ lbSeq'["pool"] = lbSeq["pool"] + 1
      BY <2>2 DEF BalancerInv, PoolsNumbered
    <3>2. lbSeq["pool"] \in Nat
      BY DEF BalancerInv, PoolsNumbered
    <3> QED
      BY <1>1, <1>2, <2>2, <3>1, <3>2 DEF BalancerInv, PoolsNumbered
  <2> QED
    BY <2>1, <2>2
<1>7. PartsKept'
  <2>1. \A a : (KeptTarget(a) => KeptTarget(a)') /\ (KeptListener(a) => KeptListener(a)') /\ (KeptRoute(a) => KeptRoute(a)')
    BY <1>2 DEF KeptTarget, KeptListener, KeptRoute
  <2> QED
    BY <2>1 DEF BalancerInv, PartsKept
<1> QED
  BY <1>4, <1>5, <1>6, <1>7 DEF BalancerInv

LEMMA PoolDropped ==
    ASSUME BalancerInv, UNCHANGED <<listeners, routes, lbSeq, backend>>, NEW id,
           pools' = pools \ PoolById(id), assured' = {a \in assured : ~(a[1] = "target" /\ a[2] = id)}
    PROVE  BalancerInv'
<1>1. PartsShaped' /\ PoolsOnce' /\ PoolsNumbered'
  BY DEF BalancerInv, PartsShaped, PoolsOnce, PoolsNumbered
<1>2. ASSUME NEW a \in assured'
      PROVE  KeptTarget(a)' \/ KeptListener(a)' \/ KeptRoute(a)'
  <2>1. KeptListener(a) => KeptListener(a)'
    BY DEF KeptListener
  <2>2. KeptRoute(a) => KeptRoute(a)'
    BY DEF KeptRoute
  <2>3. ASSUME KeptTarget(a)
        PROVE  KeptTarget(a)'
    <3>1. PICK p \in pools : \E t \in p.targets : a = <<"target", p.id, t>>
      BY <2>3 DEF KeptTarget
    <3>2. a[1] = "target" /\ a[2] = p.id
      BY <3>1
    <3>3. p \in pools'
      BY <3>2 DEF PoolById
    <3> QED
      BY <3>1, <3>3 DEF KeptTarget
  <2> QED
    BY <2>1, <2>2, <2>3 DEF BalancerInv, PartsKept
<1>3. PartsKept'
  BY <1>2 DEF PartsKept
<1> QED
  BY <1>1, <1>3 DEF BalancerInv

\* The targets of one group are set, and the history follows.
LEMMA TargetsChanged ==
    ASSUME BalancerInv, UNCHANGED <<listeners, routes, lbSeq, backend>>, NEW p \in pools, NEW T,
           pools' = (pools \ PoolById(p.id)) \cup {[p EXCEPT !.targets = T]},
           \A a \in assured' : \/ a \in assured /\ \A t \in p.targets \ T : a # <<"target", p.id, t>>
                               \/ \E t \in T : a = <<"target", p.id, t>>
    PROVE  BalancerInv'
<1> DEFINE new == [p EXCEPT !.targets = T]
<1>1. new = [id |-> p.id, name |-> p.name, targets |-> T]
  BY DEF BalancerInv, PartsShaped, PoolRec
<1>2. new = PoolRec(new) /\ new.id = p.id /\ new.targets = T
  BY <1>1 DEF PoolRec
<1>3. pools' = (pools \ PoolById(p.id)) \cup {new}
  OBVIOUS
<1> HIDE DEF new
<1>4. pools' = (pools \ {p}) \cup {new}
  BY <1>3 DEF BalancerInv, PoolsOnce, PoolById
<1>5. PartsShaped'
  BY <1>2, <1>4 DEF BalancerInv, PartsShaped
<1>6. PoolsOnce'
  BY <1>2, <1>4 DEF BalancerInv, PoolsOnce
<1>7. PoolsNumbered'
  BY <1>2, <1>4 DEF BalancerInv, PoolsNumbered
<1>8. ASSUME NEW a \in assured'
      PROVE  KeptTarget(a)' \/ KeptListener(a)' \/ KeptRoute(a)'
  <2>1. CASE \E t \in T : a = <<"target", p.id, t>>
    BY <1>2, <1>4, <2>1 DEF KeptTarget
  <2>2. CASE a \in assured /\ \A t \in p.targets \ T : a # <<"target", p.id, t>>
    <3>1. (KeptListener(a) => KeptListener(a)') /\ (KeptRoute(a) => KeptRoute(a)')
      BY DEF KeptListener, KeptRoute
    <3>2. ASSUME KeptTarget(a)
          PROVE  KeptTarget(a)'
      <4>1. PICK q \in pools : \E t \in q.targets : a = <<"target", q.id, t>>
        BY <3>2 DEF KeptTarget
      <4>2. CASE q = p
        BY <1>2, <1>4, <2>2, <4>1, <4>2 DEF KeptTarget
      <4>3. CASE q # p
        BY <1>4, <4>1, <4>3 DEF KeptTarget
      <4> QED
        BY <4>2, <4>3
    <3> QED
      BY <2>2, <3>1, <3>2 DEF BalancerInv, PartsKept
  <2> QED
    BY <2>1, <2>2
<1>9. PartsKept'
  BY <1>8 DEF PartsKept
<1> QED
  BY <1>5, <1>6, <1>7, <1>9 DEF BalancerInv
-----------------------------------------------------------------------------
(* Load balancers: the steps *)

LEMMA LbGoesOnKeeps ==
    ASSUME NEW c
    PROVE  /\ \A calls : LbGoesOn(c, calls) => backend' = backend
           /\ \A r : Goes(c, r) => backend' = backend
           /\ \A says : Ends(c, says) => backend' = backend
           /\ Fails(c) => backend' = backend
           /\ LbDone(c) => backend' = backend
BY DEF LbGoesOn, LbDone, Goes, Ends, Fails

LEMMA LbMadeKeeps ==
    ASSUME NEW c, NEW n, NEW id
    PROVE  /\ LbMade(c, id) => backend' = backend
           /\ ListenerMade(c, id) => backend' = backend
           /\ PoolKnown(c, n, id) => backend' = backend
BY LbGoesOnKeeps DEF LbMade, ListenerMade, PoolKnown

LEMMA LbIdleKeeps ==
    ASSUME BalancerInv, UNCHANGED lbVars, backend' = backend
    PROVE  BalancerInv'
BY PartsIdle DEF lbVars

LEMMA LbRefusedKeeps ==
    ASSUME BalancerInv, NEW c, LbRefused(c)
    PROVE  BalancerInv'
<1>1. UNCHANGED lbVars /\ backend' = backend
  BY LbGoesOnKeeps DEF LbRefused
<1> QED
  BY <1>1, LbIdleKeeps

LEMMA LbAsked ==
    ASSUME BalancerInv, NEW c, BalancerRequests(c) \/ RoutingRequests(c) \/ GatewayRequests(c)
    PROVE  BalancerInv'
<1>1. \A says, calls : SendsFor(c, says, calls) => UNCHANGED lbVars /\ backend' = backend
  BY DEF SendsFor, Begin
<1>2. \A calls : Sends(c, calls) => UNCHANGED lbVars /\ backend' = backend
  BY <1>1 DEF Sends
<1>3. CASE BalancerRequests(c)
  <2>1. UNCHANGED lbVars /\ backend' = backend
    BY <1>2, <1>3 DEF BalancerRequests, CreateLoadBalancer, DeleteLoadBalancer, CreateTargetGroup,
       DeleteTargetGroup, RegisterTargets, DeregisterTargets, CreateListener, DeleteListener,
       insertForwardingRule, deleteForwardingRule, insertBackendService, deleteBackendService,
       addBackend, removeBackend, createOrUpdateLB, deleteLB, createOrUpdatePool, deletePool
  <2> QED
    BY <2>1, LbIdleKeeps
<1>4. CASE RoutingRequests(c)
  <2>1. UNCHANGED lbVars /\ backend' = backend
    BY <1>1, <1>2, <1>4 DEF RoutingRequests, CreateRule, DeleteRule, ModifyRule, SetRulePriorities,
       ModifyListener, insertGlobalBackendService, deleteGlobalBackendService, insertGlobalUrlMap,
       patchGlobalUrlMap, deleteGlobalUrlMap, insertGlobalTargetHttpsProxy, deleteGlobalTargetHttpsProxy,
       insertGlobalForwardingRule, deleteGlobalForwardingRule, CreateLoadBalancer, CreateTargetGroup, CreateListener
  <2> QED
    BY <2>1, LbIdleKeeps
<1>5. CASE GatewayRequests(c)
  <2>1. UNCHANGED lbVars /\ backend' = backend
    BY <1>2, <1>5 DEF GatewayRequests, createOrUpdateAppGateway, deleteAppGateway,
       insertGlobalSslCertificate, deleteGlobalSslCertificate
  <2> QED
    BY <2>1, LbIdleKeeps
<1> QED
  BY <1>3, <1>4, <1>5

\* Lookups, lists and blobs leave the parts alone.
LEMMA LbLooksKeep ==
    ASSUME BalancerInv, NEW c,
           \/ FindsLb(c) \/ FindsPool(c) \/ PutsBlob(c) \/ DeletesBlob(c)
           \/ ReadsExisting(c) \/ ReadsPatched(c) \/ ReadsProxy(c) \/ ReadsMap(c)
           \/ ReadsGateway(c) \/ ListsListeners(c) \/ ListsRules(c) \/ ListsTagged(c)
           \/ LbCallIgnored(c)
    PROVE  BalancerInv'
<1>1. FindsNothing(c) => backend' = backend
  BY LbGoesOnKeeps DEF FindsNothing
<1>2. CASE FindsLb(c) \/ FindsPool(c)
  <2>1. UNCHANGED lbVars /\ backend' = backend
    BY <1>1, <1>2, LbGoesOnKeeps, LbMadeKeeps DEF FindsLb, FindsPool
  <2> QED
    BY <2>1, LbIdleKeeps
<1>3. CASE PutsBlob(c) \/ DeletesBlob(c)
  <2>1. CASE LbRefused(c)
    BY <2>1, LbRefusedKeeps
  <2>2. CASE UNCHANGED <<lbs, pools, listeners, routes, lbSeq, assured>> /\ LbDone(c)
    BY <2>2, LbGoesOnKeeps, PartsIdle
  <2> QED
    BY <1>3, <2>1, <2>2 DEF PutsBlob, DeletesBlob
<1>4. ASSUME NEW do, NEW next(_), Reads(c, do, next)
      PROVE  BalancerInv'
  <2>1. CASE LbRefused(c)
    BY <2>1, LbRefusedKeeps
  <2>2. CASE UNCHANGED lbVars /\ backend' = backend
    BY <2>2, LbIdleKeeps
  <2> QED
    BY <1>4, <2>1, <2>2, LbGoesOnKeeps DEF Reads
<1>5. CASE ReadsExisting(c) \/ ReadsPatched(c) \/ ReadsProxy(c) \/ ReadsGateway(c)
  BY <1>4, <1>5 DEF ReadsExisting, ReadsPatched, ReadsProxy, ReadsGateway
<1>6. CASE ReadsMap(c) \/ ListsListeners(c) \/ ListsRules(c) \/ ListsTagged(c)
  <2>1. UNCHANGED lbVars /\ backend' = backend
    BY <1>6, LbGoesOnKeeps DEF ReadsMap, ListsListeners, ListsRules, ListsTagged
  <2> QED
    BY <2>1, LbIdleKeeps
<1>7. CASE LbCallIgnored(c)
  BY <1>7, LbRefusedKeeps DEF LbCallIgnored
<1> QED
  BY <1>2, <1>3, <1>5, <1>6, <1>7

\* Load balancers themselves.
LEMMA LbAdds ==
    ASSUME BalancerInv, NEW c, NEW id, AddsLb(c, id), Counts("lb") \/ UNCHANGED lbSeq
    PROVE  BalancerInv'
<1>1. UNCHANGED <<pools, listeners, routes, assured, backend>>
  BY LbMadeKeeps DEF AddsLb
<1>2. lbSeq' \in [{"lb", "pool", "listener", "route"} -> Nat] /\ lbSeq'["pool"] = lbSeq["pool"]
  BY DEF Counts, BalancerInv, PoolsNumbered
<1> QED
  BY <1>1, <1>2, PartsAdded DEF BalancerInv, PartsShaped

LEMMA PoolAdds ==
    ASSUME BalancerInv, NEW c, NEW id, AddsPool(c, id),
           \/ backend = "k8s" /\ PoolById(id) = {} /\ UNCHANGED lbSeq
           \/ id = Fresh("pool") /\ Counts("pool") /\ backend # "k8s"
    PROVE  BalancerInv'
<1>1. /\ UNCHANGED <<listeners, routes, assured, backend>>
      /\ pools' = pools \cup {[id |-> id, name |-> Now(c).name, targets |-> {}]}
  BY LbMadeKeeps DEF AddsPool
<1>2. \/ backend = "k8s" /\ PoolById(id) = {} /\ UNCHANGED lbSeq
      \/ id = lbSeq["pool"] + 1 /\ lbSeq' = [lbSeq EXCEPT !["pool"] = @ + 1] /\ backend # "k8s"
  BY DEF Fresh, Counts
<1> QED
  BY <1>1, <1>2, PoolAdded

LEMMA PoolDrops ==
    ASSUME BalancerInv, NEW c, DropsPool(c)
    PROVE  BalancerInv'
BY PoolDropped, LbGoesOnKeeps DEF DropsPool

LEMMA PoolRegisters ==
    ASSUME BalancerInv, NEW c, NEW p \in pools, Registers(c, p) \/ Deregisters(c, p)
    PROVE  BalancerInv'
<1>1. CASE Registers(c, p)
  <2> DEFINE T == p.targets \cup Now(c).arg
  <2>1. /\ UNCHANGED <<listeners, routes, lbSeq, backend>>
        /\ pools' = (pools \ PoolById(p.id)) \cup {[p EXCEPT !.targets = T]}
        /\ assured' = assured \cup TargetsOf(p.id, Now(c).arg)
    BY <1>1, LbGoesOnKeeps DEF Registers, SetsTargets
  <2>2. \A a \in assured' : \/ a \in assured /\ \A t \in p.targets \ T : a # <<"target", p.id, t>>
                            \/ \E t \in T : a = <<"target", p.id, t>>
    BY <2>1 DEF TargetsOf
  <2> HIDE DEF T
  <2> QED
    BY <2>1, <2>2, TargetsChanged
<1>2. CASE Deregisters(c, p)
  <2> DEFINE T == p.targets \ Now(c).arg
  <2>1. /\ UNCHANGED <<listeners, routes, lbSeq, backend>>
        /\ pools' = (pools \ PoolById(p.id)) \cup {[p EXCEPT !.targets = T]}
        /\ assured' = assured \ TargetsOf(p.id, Now(c).arg)
    BY <1>2, LbGoesOnKeeps DEF Deregisters, SetsTargets
  <2>2. \A a \in assured' : \/ a \in assured /\ \A t \in p.targets \ T : a # <<"target", p.id, t>>
                            \/ \E t \in T : a = <<"target", p.id, t>>
    BY <2>1 DEF TargetsOf
  <2> HIDE DEF T
  <2> QED
    BY <2>1, <2>2, TargetsChanged
<1> QED
  BY <1>1, <1>2
LEMMA CountsOther ==
    ASSUME BalancerInv, NEW kind \in {"lb", "listener", "route"}, Counts(kind)
    PROVE  lbSeq' \in [{"lb", "pool", "listener", "route"} -> Nat] /\ lbSeq'["pool"] = lbSeq["pool"]
BY DEF Counts, BalancerInv, PoolsNumbered

LEMMA ListenerIsShaped ==
    ASSUME NEW c, NEW id, NEW app, NEW pool, NEW l,
           \/ l = NewListener(c, id, app, pool)
           \/ l = [NewListener(c, id, app, pool) EXCEPT !.proxy = None]
    PROVE  l = ListenerRec(l) /\ l.id = id
<1>1. [NewListener(c, id, app, pool) EXCEPT !.proxy = None]
        = [id |-> id, lb |-> Now(c).lb, app |-> app, port |-> Now(c).port, pool |-> pool, proxy |-> None]
  BY DEF NewListener
<1>2. l = [NewListener(c, id, app, pool) EXCEPT !.proxy = None] => l = ListenerRec(l) /\ l.id = id
  BY <1>1 DEF ListenerRec
<1>3. l = NewListener(c, id, app, pool) => l = ListenerRec(l) /\ l.id = id
  BY DEF ListenerRec, NewListener
<1> QED
  BY <1>2, <1>3

\* A new listener is there, and is noted.
LEMMA ListenerAdded ==
    ASSUME BalancerInv, UNCHANGED <<pools, routes, backend>>, NEW l, l = ListenerRec(l),
           lbSeq' \in [{"lb", "pool", "listener", "route"} -> Nat], lbSeq'["pool"] = lbSeq["pool"],
           listeners' = listeners \cup {l}, assured' = assured \cup {<<"listener", l.id>>}
    PROVE  BalancerInv'
<1>1. \A a \in assured' : a \in assured \/ KeptListener(a)'
  BY DEF KeptListener
<1> QED
  BY <1>1, PartsAdded DEF BalancerInv, PartsShaped

LEMMA RouteAdded ==
    ASSUME BalancerInv, UNCHANGED <<pools, listeners, backend>>, NEW c, NEW id,
           lbSeq' \in [{"lb", "pool", "listener", "route"} -> Nat], lbSeq'["pool"] = lbSeq["pool"],
           routes' = routes \cup {NewRoute(c, id)}, assured' = assured \cup {<<"route", id>>}
    PROVE  BalancerInv'
<1>1. NewRoute(c, id) = RouteRec(NewRoute(c, id)) /\ NewRoute(c, id).id = id
  BY DEF NewRoute, RouteRec
<1>2. \A a \in assured' : a \in assured \/ KeptRoute(a)'
  BY <1>1 DEF KeptRoute
<1> QED
  BY <1>1, <1>2, PartsAdded DEF BalancerInv, PartsShaped

\* Listeners and rules keep their identifiers when they are changed.
LEMMA PartsChanged ==
    ASSUME BalancerInv, UNCHANGED <<pools, lbSeq, assured, backend>>,
           \A l \in listeners : \E k \in listeners' : k.id = l.id,
           \A l \in listeners' : l = ListenerRec(l),
           \A r \in routes : \E k \in routes' : k.id = r.id,
           \A r \in routes' : r = RouteRec(r)
    PROVE  BalancerInv'
<1>1. PartsShaped' /\ PoolsOnce' /\ PoolsNumbered'
  BY DEF BalancerInv, PartsShaped, PoolsOnce, PoolsNumbered
<1>2. \A a : (KeptTarget(a) => KeptTarget(a)') /\ (KeptListener(a) => KeptListener(a)') /\ (KeptRoute(a) => KeptRoute(a)')
  BY DEF KeptTarget, KeptListener, KeptRoute
<1>3. PartsKept'
  BY <1>2 DEF BalancerInv, PartsKept
<1> QED
  BY <1>1, <1>3 DEF BalancerInv

LEMMA InmemUpdatesKeep ==
    ASSUME BalancerInv, NEW c, InmemUpdateListener(c) \/ InmemUpdateRule(c) \/ InmemSetRulePriorities(c)
    PROVE  BalancerInv'
<1>1. CASE InmemUpdateListener(c)
  <2>1. CASE LbRefused(c)
    BY <2>1, LbRefusedKeeps
  <2>2. ASSUME NEW l \in listeners, NEW port, NEW pool,
               listeners' = (listeners \ {l}) \cup {[l EXCEPT !.port = port, !.pool = pool]},
               UNCHANGED <<pools, routes, lbSeq, assured>>, LbDone(c)
        PROVE  BalancerInv'
    <3> DEFINE new == [l EXCEPT !.port = port, !.pool = pool]
    <3>1. new = [[l EXCEPT !.port = port] EXCEPT !.pool = pool]
      OBVIOUS
    <3>2. new = [id |-> l.id, lb |-> l.lb, app |-> l.app, port |-> port, pool |-> pool, proxy |-> l.proxy]
      <4> DEFINE half == [l EXCEPT !.port = port]
      <4>1. half = [id |-> l.id, lb |-> l.lb, app |-> l.app, port |-> port, pool |-> l.pool, proxy |-> l.proxy]
        BY DEF BalancerInv, PartsShaped, ListenerRec
      <4>2. new = [half EXCEPT !.pool = pool]
        BY <3>1
      <4> HIDE DEF half, new
      <4> QED
        BY <4>1, <4>2
    <3>3. listeners' = (listeners \ {l}) \cup {new}
      BY <2>2
    <3> HIDE DEF new
    <3>4. new = ListenerRec(new) /\ new.id = l.id
      BY <3>2 DEF ListenerRec
    <3> QED
      BY <2>2, <3>3, <3>4, PartsChanged, LbGoesOnKeeps DEF BalancerInv, PartsShaped
  <2> QED
    BY <1>1, <2>1, <2>2 DEF InmemUpdateListener, ListenerById
<1>2. CASE InmemUpdateRule(c)
  <2>1. CASE LbRefused(c)
    BY <2>1, LbRefusedKeeps
  <2>2. ASSUME NEW r \in routes, NEW pool,
               routes' = (routes \ {r}) \cup {[r EXCEPT !.pool = pool]},
               UNCHANGED <<pools, listeners, lbSeq, assured>>, LbDone(c)
        PROVE  BalancerInv'
    <3> DEFINE new == [r EXCEPT !.pool = pool]
    <3>1. new = [id |-> r.id, lsn |-> r.lsn, priority |-> r.priority, pool |-> pool]
      BY DEF BalancerInv, PartsShaped, RouteRec
    <3>2. routes' = (routes \ {r}) \cup {new}
      BY <2>2
    <3> HIDE DEF new
    <3>3. new = RouteRec(new) /\ new.id = r.id
      BY <3>1 DEF RouteRec
    <3> QED
      BY <2>2, <3>2, <3>3, PartsChanged, LbGoesOnKeeps DEF BalancerInv, PartsShaped
  <2> QED
    BY <1>2, <2>1, <2>2 DEF InmemUpdateRule, RouteById
<1>3. CASE InmemSetRulePriorities(c)
  <2>1. PICK done : routes' = {IF r.id \in done THEN [r EXCEPT !.priority = Now(c).arg[r.id]] ELSE r : r \in routes}
    BY <1>3 DEF InmemSetRulePriorities
  <2> DEFINE new(r) == [r EXCEPT !.priority = Now(c).arg[r.id]]
  <2>2. \A r \in routes :
          new(r) = [id |-> r.id, lsn |-> r.lsn, priority |-> Now(c).arg[r.id], pool |-> r.pool]
    BY DEF BalancerInv, PartsShaped, RouteRec
  <2>3. routes' = {IF r.id \in done THEN new(r) ELSE r : r \in routes}
    BY <2>1
  <2> HIDE DEF new
  <2>4. \A r \in routes : new(r) = RouteRec(new(r)) /\ new(r).id = r.id
    BY <2>2 DEF RouteRec
  <2>5. UNCHANGED <<pools, listeners, lbSeq, assured>> /\ backend' = backend
    BY <1>3, LbGoesOnKeeps DEF InmemSetRulePriorities
  <2>6. /\ \A r \in routes : \E k \in routes' : k.id = r.id
        /\ \A r \in routes' : r = RouteRec(r)
    BY <2>3, <2>4 DEF BalancerInv, PartsShaped
  <2> QED
    BY <2>5, <2>6, PartsChanged DEF BalancerInv, PartsShaped
<1> QED
  BY <1>1, <1>2, <1>3
\* A listener goes, by its identifier.
LEMMA ListenerDropped ==
    ASSUME BalancerInv, NEW c, listeners' = listeners \ ListenerById(Now(c).lsn),
           assured' = assured \ {<<"listener", Now(c).lsn>>},
           UNCHANGED <<lbs, pools, routes, blobs, lbSeq>>, LbDone(c)
    PROVE  BalancerInv'
<1>1. backend' = backend
  BY LbGoesOnKeeps
<1>2. \A l \in listeners : l \in listeners' \/ <<"listener", l.id>> \notin assured'
  BY DEF ListenerById
<1> QED
  BY <1>1, <1>2, PartsRemoved

LEMMA InmemBalancerKeeps ==
    ASSUME BalancerInv, NEW c, backend = "inmem",
           \/ InmemCreateLoadBalancer(c) \/ InmemDeleteLoadBalancer(c)
           \/ InmemCreateTargetGroup(c) \/ InmemDeleteTargetGroup(c)
           \/ InmemRegisterTargets(c) \/ InmemDeregisterTargets(c)
           \/ InmemCreateListener(c) \/ InmemDeleteListener(c)
           \/ InmemUpdateListener(c) \/ InmemCreateRule(c) \/ InmemDeleteRule(c)
           \/ InmemUpdateRule(c) \/ InmemSetRulePriorities(c)
    PROVE  BalancerInv'
<1>1. CASE LbRefused(c)
  BY <1>1, LbRefusedKeeps
<1>2. CASE InmemCreateLoadBalancer(c)
  BY <1>1, <1>2, LbAdds DEF InmemCreateLoadBalancer
<1>3. CASE InmemDeleteLoadBalancer(c)
  BY <1>1, <1>3, LbGoesOnKeeps, PartsIdle DEF InmemDeleteLoadBalancer
<1>4. CASE InmemCreateTargetGroup(c)
  BY <1>1, <1>4, PoolAdds DEF InmemCreateTargetGroup
<1>5. CASE InmemDeleteTargetGroup(c)
  BY <1>1, <1>5, PoolDrops DEF InmemDeleteTargetGroup
<1>6. CASE InmemRegisterTargets(c) \/ InmemDeregisterTargets(c)
  BY <1>1, <1>6, PoolRegisters DEF InmemRegisterTargets, InmemDeregisterTargets, PoolById
<1>7. CASE InmemCreateListener(c)
  <2>1. CASE /\ Counts("listener")
             /\ \E p \in DefaultPools(c) :
                  listeners' = listeners \cup {NewListener(c, Fresh("listener"), FALSE, p)}
             /\ assured' = assured \cup {<<"listener", Fresh("listener")>>}
             /\ UNCHANGED <<lbs, pools, routes, blobs>>
             /\ ListenerMade(c, Fresh("listener"))
    <3>1. PICK p : listeners' = listeners \cup {NewListener(c, Fresh("listener"), FALSE, p)}
      BY <2>1
    <3>2. PICK l, app : app = FALSE /\ l = NewListener(c, Fresh("listener"), app, p)
      OBVIOUS
    <3>3. l = ListenerRec(l) /\ l.id = Fresh("listener")
      BY <3>2, ListenerIsShaped
    <3>4. listeners' = listeners \cup {l} /\ assured' = assured \cup {<<"listener", l.id>>}
      BY <2>1, <3>1, <3>2, <3>3
    <3>5. backend' = backend
      BY <2>1, LbMadeKeeps
    <3> QED
      BY <2>1, <3>3, <3>4, <3>5, CountsOther, ListenerAdded
  <2> QED
    BY <1>1, <1>7, <2>1 DEF InmemCreateListener
<1>8. CASE InmemDeleteListener(c)
  BY <1>1, <1>8, ListenerDropped DEF InmemDeleteListener
<1>9. CASE InmemCreateRule(c)
  <2>1. CASE /\ Counts("route")
             /\ routes' = routes \cup {NewRoute(c, Fresh("route"))}
             /\ assured' = assured \cup {<<"route", Fresh("route")>>}
             /\ UNCHANGED <<lbs, pools, listeners, blobs>>
             /\ LbDone(c)
    BY <2>1, CountsOther, RouteAdded, LbGoesOnKeeps
  <2> QED
    BY <1>1, <1>9, <2>1 DEF InmemCreateRule
<1>10. CASE InmemDeleteRule(c)
  <2>1. CASE /\ routes' = routes \ RouteById(Now(c).lsn)
             /\ assured' = assured \ {<<"route", Now(c).lsn>>}
             /\ UNCHANGED <<lbs, pools, listeners, blobs, lbSeq>>
             /\ LbDone(c)
    <3>1. backend' = backend
      BY <2>1, LbGoesOnKeeps
    <3>2. \A r \in routes : r \in routes' \/ <<"route", r.id>> \notin assured'
      BY <2>1 DEF RouteById
    <3> QED
      BY <2>1, <3>1, <3>2, PartsRemoved
  <2> QED
    BY <1>1, <1>10, <2>1 DEF InmemDeleteRule
<1>11. CASE InmemUpdateListener(c) \/ InmemUpdateRule(c) \/ InmemSetRulePriorities(c)
  BY <1>11, InmemUpdatesKeep
<1> QED
  BY <1>2, <1>3, <1>4, <1>5, <1>6, <1>7, <1>8, <1>9, <1>10, <1>11

LEMMA AwsBalancerKeeps ==
    ASSUME BalancerInv, NEW c, backend = "aws",
           \/ AwsCreateLoadBalancer(c) \/ AwsDeleteLoadBalancer(c)
           \/ AwsCreateTargetGroup(c) \/ AwsDeleteTargetGroup(c)
           \/ AwsRegisterTargets(c) \/ AwsDeregisterTargets(c)
           \/ AwsCreateListener(c) \/ AwsDeleteListener(c) \/ AwsUpdates(c)
    PROVE  BalancerInv'
<1>0. CASE /\ UNCHANGED lbVars
           /\ LbDone(c) \/ \E id : LbMade(c, id) \/ ListenerMade(c, id) \/ \E n : PoolKnown(c, n, id)
  <2>1. backend' = backend
    BY <1>0, LbGoesOnKeeps DEF LbDone, LbMade, ListenerMade, PoolKnown
  <2> QED
    BY <1>0, <2>1, LbIdleKeeps
<1>1. CASE LbRefused(c)
  BY <1>1, LbRefusedKeeps
<1>2. CASE AwsCreateLoadBalancer(c)
  BY <1>0, <1>1, <1>2, LbAdds DEF AwsCreateLoadBalancer
<1>3. CASE AwsDeleteLoadBalancer(c)
  <2> DEFINE its == {l \in listeners : l.lb = Now(c).lb}
  <2>1. CASE /\ listeners' = listeners \ its
             /\ assured' = assured \ {<<"listener", l.id>> : l \in its}
             /\ UNCHANGED <<pools, routes, blobs, lbSeq>>
             /\ LbDone(c)
    <3>1. backend' = backend
      BY <2>1, LbGoesOnKeeps
    <3>2. \A l \in listeners : l \in listeners' \/ <<"listener", l.id>> \notin assured'
      BY <2>1
    <3> HIDE DEF its
    <3> QED
      BY <2>1, <3>1, <3>2, PartsRemoved
  <2> QED
    BY <1>0, <1>1, <1>3, <2>1 DEF AwsDeleteLoadBalancer
<1>4. CASE AwsCreateTargetGroup(c)
  BY <1>0, <1>1, <1>4, PoolAdds DEF AwsCreateTargetGroup
<1>5. CASE AwsDeleteTargetGroup(c)
  BY <1>1, <1>5, PoolDrops DEF AwsDeleteTargetGroup
<1>6. CASE AwsRegisterTargets(c) \/ AwsDeregisterTargets(c)
  BY <1>1, <1>6, PoolRegisters DEF AwsRegisterTargets, AwsDeregisterTargets, PoolById
<1>7. CASE AwsCreateListener(c)
  <2>0. PICK l, app : app = FALSE /\ l = [NewListener(c, Fresh("listener"), app, Now(c).pool) EXCEPT !.proxy = None]
    OBVIOUS
  <2>1. CASE /\ Counts("listener")
             /\ listeners' = listeners \cup {l}
             /\ assured' = assured \cup {<<"listener", Fresh("listener")>>}
             /\ UNCHANGED <<lbs, pools, routes, blobs>>
             /\ ListenerMade(c, Fresh("listener"))
    <3>1. l = ListenerRec(l) /\ l.id = Fresh("listener")
      BY <2>0, ListenerIsShaped
    <3>2. backend' = backend /\ assured' = assured \cup {<<"listener", l.id>>}
      BY <2>1, <3>1, LbMadeKeeps
    <3> QED
      BY <2>1, <3>1, <3>2, CountsOther, ListenerAdded
  <2> QED
    BY <1>0, <1>1, <1>7, <2>0, <2>1 DEF AwsCreateListener
<1>8. CASE AwsDeleteListener(c)
  BY <1>1, <1>8, ListenerDropped DEF AwsDeleteListener
<1>9. CASE AwsUpdates(c)
  BY <1>1, <1>9 DEF AwsUpdates
<1> QED
  BY <1>2, <1>3, <1>4, <1>5, <1>6, <1>7, <1>8, <1>9

\* k8s: a write of what was read and is still there.
LEMMA ObjectWritten ==
    ASSUME BalancerInv, NEW n, NEW app, NEW read, SameObject(n, app, read), backend' = backend,
           NEW lsns, NEW rules, NEW history, WritesObject(n, app, lsns, rules, history)
    PROVE  /\ UNCHANGED <<pools, lbSeq>> /\ assured' = history
           /\ read.lsns \subseteq listeners /\ read.rules \subseteq routes
           /\ listeners' = (listeners \ read.lsns) \cup lsns
           /\ routes' = (routes \ read.rules) \cup rules
<1>1. Object(n, app) = read /\ Object(n, app).lsns \subseteq listeners /\ Object(n, app).rules \subseteq routes
  BY DEF SameObject, Object
<1> QED
  BY <1>1 DEF WritesObject

LEMMA K8sListenerWritten ==
    ASSUME BalancerInv, NEW c, NEW app, NEW pool, NEW id, NEW read, NEW n, NEW rules, SameObject(n, app, read),
           rules = read.rules, ListenerMade(c, id),
           WritesObject(n, app, read.lsns \cup {[NewListener(c, id, app, pool) EXCEPT !.proxy = None]}, rules,
                        assured \cup {<<"listener", id>>})
    PROVE  BalancerInv'
<1>0. PICK l : l = [NewListener(c, id, app, pool) EXCEPT !.proxy = None]
  OBVIOUS
<1>1. l = ListenerRec(l) /\ l.id = id
  BY <1>0, ListenerIsShaped
<1>2. WritesObject(n, app, read.lsns \cup {l}, rules, assured \cup {<<"listener", id>>})
  BY <1>0
<1>3. backend' = backend
  BY LbMadeKeeps
<1>4. /\ UNCHANGED <<pools, lbSeq>> /\ assured' = assured \cup {<<"listener", l.id>>}
      /\ listeners' = listeners \cup {l} /\ routes' = routes
  BY <1>1, <1>2, <1>3, ObjectWritten
<1> QED
  BY <1>1, <1>3, <1>4, ListenerAdded DEF BalancerInv, PoolsNumbered

LEMMA K8sRuleWritten ==
    ASSUME BalancerInv, NEW c, NEW app, NEW id, NEW read, NEW n, SameObject(n, app, read), LbDone(c),
           WritesObject(n, app, read.lsns, read.rules \cup {NewRoute(c, id)}, assured \cup {<<"route", id>>})
    PROVE  BalancerInv'
<1>1. backend' = backend
  BY LbGoesOnKeeps
<1>2. /\ UNCHANGED <<pools, lbSeq>> /\ assured' = assured \cup {<<"route", id>>}
      /\ read.lsns \subseteq listeners /\ read.rules \subseteq routes
      /\ listeners' = (listeners \ read.lsns) \cup read.lsns
      /\ routes' = (routes \ read.rules) \cup (read.rules \cup {NewRoute(c, id)})
  BY <1>1, ObjectWritten
<1>3. listeners' = listeners /\ routes' = routes \cup {NewRoute(c, id)}
  BY <1>2
<1> QED
  BY <1>1, <1>2, <1>3, RouteAdded DEF BalancerInv, PoolsNumbered

LEMMA K8sRuleTaken ==
    ASSUME BalancerInv, NEW c, NEW app, NEW id, NEW read, NEW n, SameObject(n, app, read), LbDone(c),
           WritesObject(n, app, read.lsns, {r \in read.rules : r.id # id}, assured \ {<<"route", id>>})
    PROVE  BalancerInv'
<1> DEFINE left == {r \in read.rules : r.id # id}
<1>1. left \subseteq read.rules /\ \A r \in read.rules : r.id # id => r \in left
  OBVIOUS
<1>2. backend' = backend
  BY LbGoesOnKeeps
<1>3. WritesObject(n, app, read.lsns, left, assured \ {<<"route", id>>})
  OBVIOUS
<1> HIDE DEF left
<1>4. /\ UNCHANGED <<pools, lbSeq>> /\ assured' = assured \ {<<"route", id>>}
      /\ read.lsns \subseteq listeners /\ read.rules \subseteq routes
      /\ listeners' = (listeners \ read.lsns) \cup read.lsns
      /\ routes' = (routes \ read.rules) \cup left
  BY <1>2, <1>3, ObjectWritten
<1>5. listeners' = listeners /\ routes' \subseteq routes
  BY <1>1, <1>4
<1>6. \A r \in routes : r \in routes' \/ <<"route", r.id>> \notin assured'
  BY <1>1, <1>4
<1> QED
  BY <1>2, <1>4, <1>5, <1>6, PartsRemoved

LEMMA K8sDropsObject ==
    ASSUME BalancerInv, NEW c, NEW app, DropsObject(c, app)
    PROVE  BalancerInv'
<1> DEFINE L == Object(Now(c).lb, app).lsns
           R == Object(Now(c).lb, app).rules
<1>1. /\ listeners' = listeners \ L /\ routes' = routes \ R
      /\ assured' = assured \ ({<<"listener", l.id>> : l \in L} \cup {<<"route", r.id>> : r \in R})
      /\ UNCHANGED <<pools, lbSeq>> /\ backend' = backend
  BY LbGoesOnKeeps DEF DropsObject
<1> HIDE DEF L, R
<1>2. \A l \in listeners : l \in listeners' \/ <<"listener", l.id>> \notin assured'
  BY <1>1
<1>3. \A r \in routes : r \in routes' \/ <<"route", r.id>> \notin assured'
  BY <1>1
<1> QED
  BY <1>1, <1>2, <1>3, PartsRemoved

LEMMA K8sBalancerKeeps ==
    ASSUME BalancerInv, NEW c, backend = "k8s",
           \/ K8sCreateLoadBalancer(c) \/ K8sDeleteLoadBalancer(c)
           \/ K8sDeleteIngress(c) \/ K8sCreateTargetGroup(c)
           \/ K8sDeleteTargetGroup(c) \/ K8sRegisterTargets(c)
           \/ K8sDeregisterTargets(c) \/ K8sUpdateAdding(c)
           \/ K8sUpdateRemoving(c) \/ K8sCreateListener(c)
           \/ createIngressListener(c) \/ K8sGetService(c)
           \/ createServiceListener(c) \/ K8sDeleteListener(c) \/ K8sCreateRule(c)
           \/ K8sUpdateRules(c) \/ K8sDeleteRule(c) \/ K8sUpdateWithout(c)
           \/ K8sUpdates(c)
    PROVE  BalancerInv'
<1>1. CASE LbRefused(c)
  BY <1>1, LbRefusedKeeps
<1>2. CASE UNCHANGED lbVars /\ backend' = backend
  BY <1>2, LbIdleKeeps
<1>3. /\ \A do, read : Turns(c, do, read) => backend' = backend
      /\ \A p, do : TurnsPool(c, p, do) => backend' = backend
  BY LbGoesOnKeeps DEF Turns, TurnsPool
<1>4. CASE K8sCreateLoadBalancer(c)
  BY <1>1, <1>4, LbAdds DEF K8sCreateLoadBalancer
<1>5. CASE K8sDeleteLoadBalancer(c) \/ K8sDeleteIngress(c)
  BY <1>1, <1>2, <1>3, <1>5, K8sDropsObject DEF K8sDeleteLoadBalancer, K8sDeleteIngress
<1>6. CASE K8sCreateTargetGroup(c)
  BY <1>1, <1>6, PoolAdds DEF K8sCreateTargetGroup
<1>7. CASE K8sDeleteTargetGroup(c)
  BY <1>1, <1>7, PoolDrops DEF K8sDeleteTargetGroup
<1>8. CASE K8sRegisterTargets(c) \/ K8sDeregisterTargets(c)
  BY <1>1, <1>2, <1>3, <1>8, LbGoesOnKeeps DEF K8sRegisterTargets, K8sDeregisterTargets
<1>9. CASE K8sUpdateAdding(c) \/ K8sUpdateRemoving(c)
  <2>1. SamePool(c) => Now(c).read \in pools
    BY DEF SamePool, PoolById
  <2> QED
    BY <1>1, <1>9, <2>1, PoolRegisters DEF K8sUpdateAdding, K8sUpdateRemoving
<1>10. CASE K8sCreateListener(c)
  <2>1. UNCHANGED lbVars /\ backend' = backend
    BY <1>3, <1>10, LbMadeKeeps DEF K8sCreateListener
  <2> QED
    BY <1>2, <2>1
<1>11. CASE createIngressListener(c)
  BY <1>1, <1>11, K8sListenerWritten DEF createIngressListener
<1>12. CASE createServiceListener(c)
  <2>1. ASSUME NEW n, NEW read, SameObject(n, FALSE, read)
        PROVE  read.rules = {}
    BY <2>1 DEF SameObject, Object
  <2> QED
    BY <1>1, <1>12, <2>1, K8sListenerWritten DEF createServiceListener
<1>13. CASE K8sGetService(c) \/ K8sDeleteListener(c) \/ K8sCreateRule(c) \/ K8sDeleteRule(c) \/ K8sUpdates(c)
  BY <1>1, <1>2, <1>3, <1>13, LbGoesOnKeeps
     DEF K8sGetService, K8sDeleteListener, K8sCreateRule, K8sDeleteRule, K8sUpdates
<1>14. CASE K8sUpdateRules(c)
  BY <1>1, <1>14, K8sRuleWritten DEF K8sUpdateRules
<1>15. CASE K8sUpdateWithout(c)
  BY <1>1, <1>15, K8sRuleTaken DEF K8sUpdateWithout
<1> QED
  BY <1>4, <1>5, <1>6, <1>7, <1>8, <1>9, <1>10, <1>11, <1>12, <1>13, <1>14, <1>15

LEMMA BalancerStep ==
    ASSUME BalancerInv, [BalancerNext]_<<shimVars, lbVars>>
    PROVE  BalancerInv'
<1>1. CASE UNCHANGED <<shimVars, lbVars>>
  BY <1>1, LbIdleKeeps DEF shimVars
<1>2. ASSUME NEW c, Dies(c), UNCHANGED lbVars
      PROVE  BalancerInv'
  BY <1>2, LbGoesOnKeeps, LbIdleKeeps DEF Dies
<1>3. ASSUME NEW c, BalancerSteps(c)
      PROVE  BalancerInv'
  BY <1>3, LbLooksKeep, InmemBalancerKeeps, K8sBalancerKeeps, AwsBalancerKeeps DEF BalancerSteps
<1> QED
  BY <1>1, <1>2, <1>3, LbAsked DEF BalancerNext

\* What a load balancer was given stays (services/loadbalancer, every backend):
\* in every behaviour of the service, a target, listener or rule whose addition
\* was accepted is there until a call removes it or what it belongs to.  On k8s
\* this rests on the version that Kubernetes compares when the ingress, service
\* or endpoints object that was read is written back.
THEOREM AssuredAlwaysKept == BalancerSpec => []AssuredKept
<1>1. ShimInit /\ BalancerInit => BalancerInv
  BY DEF BalancerInit, BalancerInv, PartsShaped, PoolsOnce, PoolsNumbered, PartsKept
<1>2. BalancerInv /\ [BalancerNext]_<<shimVars, lbVars>> => BalancerInv'
  BY BalancerStep
<1>3. BalancerInv => AssuredKept
  BY PartsKeptIsAssuredKept DEF BalancerInv
<1> QED
  BY <1>1, <1>2, <1>3, PTL DEF BalancerSpec

-----------------------------------------------------------------------------
(* Network: lists of rules *)

IsList(s) == s \in Seq(Members(s))

LEMMA ListFacts ==
    ASSUME NEW s, IsList(s)
    PROVE  /\ Len(s) \in Nat /\ DOMAIN s = 1..Len(s)
           /\ \A i \in 1..Len(s) : s[i] \in Members(s)
           /\ \A x \in Members(s) : \E i \in 1..Len(s) : x = s[i]
           /\ s = <<>> <=> Len(s) = 0
BY DEF IsList, Members

LEMMA ListMade ==
    ASSUME NEW n \in Nat, NEW t, DOMAIN t = 1..n, t = [i \in 1..n |-> t[i]]
    PROVE  IsList(t) /\ Len(t) = n
<1>1. \A i \in 1..n : t[i] \in Members(t)
  BY DEF Members
<1>2. t \in [1..n -> Members(t)]
  BY <1>1
<1>3. t \in Seq(Members(t))
  BY <1>2
<1>4. Len(t) = n
  BY <1>2, <1>3
<1> QED
  BY <1>3, <1>4 DEF IsList

LEMMA SequencesAreLists ==
    ASSUME NEW S, NEW t \in Seq(S)
    PROVE  IsList(t)
<1>1. Len(t) \in Nat /\ DOMAIN t = 1..Len(t)
  OBVIOUS
<1>2. \A i \in 1..Len(t) : t[i] \in Members(t)
  BY <1>1 DEF Members
<1> QED
  BY <1>1, <1>2 DEF IsList

LEMMA ListAppend ==
    ASSUME NEW s, IsList(s), NEW r
    PROVE  IsList(Append(s, r)) /\ Members(Append(s, r)) = Members(s) \cup {r}
<1> DEFINE t == Append(s, r)
           n == Len(s)
<1>1. n \in Nat /\ DOMAIN s = 1..n /\ s \in Seq(Members(s) \cup {r})
  <2>1. s \in Seq(Members(s)) /\ Members(s) \subseteq Members(s) \cup {r}
    BY DEF IsList
  <2> QED
    BY <2>1, ListFacts
<1>2. Len(t) = n + 1 /\ t[n + 1] = r /\ (\A i \in 1..n : t[i] = s[i]) /\ t \in Seq(Members(s) \cup {r})
  BY <1>1
<1>3. DOMAIN t = 1..(n + 1)
  BY <1>1, <1>2
<1> HIDE DEF t, n
<1>4. IsList(t)
  BY <1>2, SequencesAreLists
<1>5. Members(t) = Members(s) \cup {r}
  <2>1. \A x \in Members(t) : x \in Members(s) \cup {r}
    <3> SUFFICES ASSUME NEW i \in 1..(n + 1) PROVE t[i] \in Members(s) \cup {r}
      BY <1>3 DEF Members
    <3>1. i = n + 1 \/ i \in 1..n
      BY <1>1
    <3> QED
      BY <3>1, <1>1, <1>2 DEF Members
  <2>2. r \in Members(t)
    BY <1>1, <1>2, <1>3 DEF Members
  <2>3. \A x \in Members(s) : x \in Members(t)
    <3> SUFFICES ASSUME NEW i \in 1..n PROVE s[i] \in Members(t)
      BY <1>1 DEF Members
    <3>1. i \in 1..(n + 1)
      BY <1>1
    <3> QED
      BY <3>1, <1>2, <1>3 DEF Members
  <2> QED
    BY <2>1, <2>2, <2>3
<1> QED
  BY <1>4, <1>5 DEF t

LEMMA ListTail ==
    ASSUME NEW s, IsList(s), s # <<>>
    PROVE  /\ Len(s) \in Nat \ {0} /\ DOMAIN s = 1..Len(s) /\ Head(s) = s[1]
           /\ IsList(Tail(s)) /\ Len(Tail(s)) = Len(s) - 1 /\ DOMAIN Tail(s) = 1..(Len(s) - 1)
           /\ \A i \in 1..(Len(s) - 1) : Tail(s)[i] = s[i + 1]
<1>1. s \in Seq(Members(s)) /\ Len(s) \in Nat \ {0} /\ DOMAIN s = 1..Len(s) /\ Head(s) = s[1]
  BY ListFacts DEF IsList
<1>2. Tail(s) \in Seq(Members(s)) /\ Len(Tail(s)) = Len(s) - 1
  BY <1>1
<1>3. DOMAIN Tail(s) = 1..(Len(s) - 1) /\ \A i \in 1..(Len(s) - 1) : Tail(s)[i] = s[i + 1]
  BY <1>1, <1>2
<1>5. IsList(Tail(s))
  BY <1>2, SequencesAreLists
<1> QED
  BY <1>1, <1>2, <1>3, <1>5

\* One list after the other.
LEMMA ListJoined ==
    ASSUME NEW s, IsList(s), NEW t, IsList(t)
    PROVE  /\ IsList(s \o t) /\ Len(s \o t) = Len(s) + Len(t)
           /\ \A i \in 1..Len(s) : (s \o t)[i] = s[i]
           /\ \A i \in 1..Len(t) : (s \o t)[Len(s) + i] = t[i]
<1> DEFINE S == Members(s) \cup Members(t)
           u == s \o t
           n == Len(s)
           m == Len(t)
<1>1. n \in Nat /\ m \in Nat /\ DOMAIN s = 1..n /\ DOMAIN t = 1..m
  BY ListFacts
<1>2. s \in Seq(S) /\ t \in Seq(S)
  <2>1. s \in Seq(Members(s)) /\ t \in Seq(Members(t)) /\ Members(s) \subseteq S /\ Members(t) \subseteq S
    BY DEF IsList
  <2> HIDE DEF S
  <2> QED
    BY <2>1
<1> HIDE DEF S
<1>3. u \in Seq(S) /\ Len(u) = n + m /\ (\A i \in 1..n : u[i] = s[i]) /\ \A i \in 1..m : u[n + i] = t[i]
  <2>1. \A i \in 1..m : n + i \in 1..(n + m) /\ ~(n + i <= n) /\ n + i - n = i
    BY <1>1
  <2> QED
    BY <1>1, <1>2, <2>1
<1> HIDE DEF u, n, m
<1>5. IsList(u)
  BY <1>3, SequencesAreLists
<1> QED
  BY <1>3, <1>5 DEF u, n, m

\* What the filter of RemoveRule leaves.
LEMMA ListWithout ==
    ASSUME NEW s, IsList(s), NEW r, NEW t \in Without(s, r)
    PROVE  IsList(t) /\ Members(t) = Members(s) \ {r}
<1> DEFINE kept == {i \in DOMAIN s : s[i] # r}
<1>1. PICK n \in 0..Len(s) : \E f \in [1..n -> kept] : Members(f) = kept /\ t = [i \in DOMAIN f |-> s[f[i]]]
  BY DEF Without, Kept
<1>f. PICK f \in [1..n -> kept] : Members(f) = kept /\ t = [i \in DOMAIN f |-> s[f[i]]]
  BY <1>1
<1>2. n \in Nat
  BY <1>1, ListFacts
<1>3. DOMAIN f = 1..n /\ DOMAIN t = 1..n /\ \A i \in 1..n : t[i] = s[f[i]] /\ f[i] \in kept
  BY <1>f
<1>4. t = [i \in 1..n |-> t[i]]
  BY <1>f, <1>3
<1>5. IsList(t)
  BY <1>2, <1>3, <1>4, ListMade
<1>6. \A x \in Members(t) : x \in Members(s) \ {r}
  BY <1>3 DEF Members
<1>7. \A x \in Members(s) \ {r} : x \in Members(t)
  <2> SUFFICES ASSUME NEW j \in DOMAIN s, s[j] # r PROVE s[j] \in Members(t)
    BY DEF Members
  <2>1. j \in Members(f)
    BY <1>f
  <2>2. PICK i \in 1..n : j = f[i]
    BY <1>3, <2>1 DEF Members
  <2> QED
    BY <1>3, <2>2 DEF Members
<1> QED
  BY <1>5, <1>6, <1>7

\* A rule in its place.
LEMMA ListPlaced ==
    ASSUME NEW s, IsList(s), NEW r, NEW t \in Placed(s, r)
    PROVE  IsList(t) /\ Members(t) = Members(s) \cup {r}
<1>1. Len(s) \in Nat /\ DOMAIN s = 1..Len(s)
  BY ListFacts
<1> DEFINE At(n) == [i \in 1..Len(s) + 1 |-> IF i <= n THEN s[i] ELSE IF i = n + 1 THEN r ELSE s[i - 1]]
           last == IF Inbound(r) THEN {n \in 0..Len(s) : \A i \in DOMAIN s : Inbound(s[i]) <=> i <= n} ELSE {Len(s)}
<1>a. last \subseteq 0..Len(s)
  BY <1>1
<1>b. t \in {At(n) : n \in last}
  BY DEF Placed
<1>c. PICK n \in 0..Len(s) : t = At(n)
  <2> HIDE DEF At, last
  <2> QED
    BY <1>a, <1>b
<1>2. t = [i \in 1..Len(s) + 1 |-> IF i <= n THEN s[i] ELSE IF i = n + 1 THEN r ELSE s[i - 1]]
  BY <1>c
<1>3. \A i \in 1..Len(s) + 1 : t[i] = IF i <= n THEN s[i] ELSE IF i = n + 1 THEN r ELSE s[i - 1]
  BY <1>2
<1>4. Len(s) + 1 \in Nat /\ DOMAIN t = 1..Len(s) + 1 /\ t = [i \in 1..Len(s) + 1 |-> t[i]]
  BY <1>1, <1>2
<1>5. IsList(t)
  BY <1>4, ListMade
<1>6. ASSUME NEW x \in Members(t) PROVE x \in Members(s) \cup {r}
  <2>1. PICK i \in 1..Len(s) + 1 : x = t[i]
    BY <1>4 DEF Members
  <2>2. CASE i <= n
    <3>1. i \in 1..Len(s) /\ x = s[i]
      BY <1>1, <1>3, <2>1, <2>2
    <3> QED
      BY <1>1, <3>1 DEF Members
  <2>3. CASE i = n + 1
    <3>1. x = r
      BY <1>1, <1>3, <2>1, <2>3
    <3> QED
      BY <3>1
  <2>4. CASE ~(i <= n) /\ i # n + 1
    <3>1. i - 1 \in 1..Len(s) /\ x = s[i - 1]
      BY <1>1, <1>3, <2>1, <2>4
    <3> QED
      BY <1>1, <3>1 DEF Members
  <2> QED
    BY <2>2, <2>3, <2>4
<1>7. r \in Members(t)
  <2>1. n + 1 \in 1..Len(s) + 1 /\ t[n + 1] = r
    BY <1>1, <1>3
  <2> QED
    BY <1>4, <2>1 DEF Members
<1>8. ASSUME NEW x \in Members(s) PROVE x \in Members(t)
  <2>1. PICK i \in 1..Len(s) : x = s[i]
    BY ListFacts
  <2>2. CASE i <= n
    <3>1. i \in 1..Len(s) + 1 /\ t[i] = x
      BY <1>1, <1>3, <2>1, <2>2
    <3> QED
      BY <1>4, <3>1 DEF Members
  <2>3. CASE ~(i <= n)
    <3>1. i + 1 \in 1..Len(s) + 1 /\ ~(i + 1 <= n) /\ i + 1 # n + 1 /\ i + 1 - 1 = i
      BY <1>1, <2>3
    <3>2. t[i + 1] = x
      BY <1>3, <2>1, <3>1
    <3> QED
      BY <1>4, <3>1, <3>2 DEF Members
  <2> QED
    BY <2>2, <2>3
<1> QED
  BY <1>5, <1>6, <1>7, <1>8

\* What removeDomainRule leaves.
LEMMA ListWithoutFirst ==
    ASSUME NEW s, IsList(s), NEW r, NEW t \in WithoutFirst(s, r)
    PROVE  /\ IsList(t)
           /\ Members(t) \subseteq Members(s)
           /\ \A x \in Members(s) : ~MatchesDomain(x, r) => x \in Members(t)
           /\ s # <<>> /\ MatchesDomain(s[1], r) => Len(t) = Len(s) - 1 /\ \A k \in 1..Len(t) : t[k] = s[k + 1]
<1> DEFINE first == {i \in DOMAIN s : MatchesDomain(s[i], r) /\ \A j \in 1..i - 1 : ~MatchesDomain(s[j], r)}
<1>1. Len(s) \in Nat /\ DOMAIN s = 1..Len(s)
  BY ListFacts DEF IsList
<1>2. CASE first = {}
  <2>1. t = s
    BY <1>2 DEF WithoutFirst
  <2>2. ASSUME s # <<>>, MatchesDomain(s[1], r) PROVE FALSE
    <3>1. 1 \in DOMAIN s /\ 1..1 - 1 = {}
      BY <1>1, <2>2
    <3> QED
      BY <1>2, <2>2, <3>1
  <2> QED
    BY <2>1, <2>2
<1>3. CASE first # {}
  <2> DEFINE n == Len(s) - 1
  <2>1. PICK i \in first : t = [k \in 1..n |-> s[IF k < i THEN k ELSE k + 1]]
    BY <1>3 DEF WithoutFirst
  <2>2. i \in 1..Len(s) /\ MatchesDomain(s[i], r) /\ \A j \in 1..i - 1 : ~MatchesDomain(s[j], r)
    BY <1>1
  <2>5. \A k \in 1..n : t[k] = IF k < i THEN s[k] ELSE s[k + 1]
    BY <2>1
  <2>6. n \in Nat /\ DOMAIN t = 1..n /\ t = [k \in 1..n |-> t[k]]
    BY <1>1, <2>1, <2>2
  <2>7. IsList(t)
    BY <2>6, ListMade
  <2>8. ASSUME NEW x \in Members(s), ~MatchesDomain(x, r) PROVE x \in Members(t)
    <3>1. PICK k \in 1..Len(s) : x = s[k]
      BY ListFacts
    <3>2. k # i
      BY <2>2, <2>8, <3>1
    <3>3. CASE k < i
      <4>1. k \in 1..n
        BY <1>1, <2>2, <3>3
      <4> QED
        BY <2>5, <2>6, <3>1, <3>3, <4>1 DEF Members
    <3>4. CASE k > i
      <4>1. k - 1 \in 1..n /\ ~(k - 1 < i) /\ k - 1 + 1 = k
        BY <1>1, <2>2, <3>4
      <4>2. t[k - 1] = x
        BY <2>5, <3>1, <4>1
      <4> QED
        BY <2>6, <4>1, <4>2 DEF Members
    <3> QED
      BY <1>1, <2>2, <3>2, <3>3, <3>4
  <2>9. ASSUME s # <<>>, MatchesDomain(s[1], r) PROVE Len(t) = n /\ \A k \in 1..Len(t) : t[k] = s[k + 1]
    <3>1. i = 1
      <4>1. ~(1 \in 1..i - 1)
        BY <2>2, <2>9
      <4> QED
        BY <1>1, <2>2, <4>1
    <3>2. \A k \in 1..n : ~(k < i) /\ t[k] = s[k + 1]
      BY <1>1, <2>5, <3>1
    <3> QED
      BY <2>6, <3>2, ListMade
  <2>10. ASSUME NEW x \in Members(t) PROVE x \in Members(s)
    <3>1. PICK k \in 1..n : x = t[k]
      BY <2>6 DEF Members
    <3>2. k \in 1..Len(s) /\ k + 1 \in 1..Len(s) /\ (x = s[k] \/ x = s[k + 1])
      BY <1>1, <2>5, <3>1
    <3> QED
      BY <1>1, <3>2 DEF Members
  <2> QED
    BY <2>7, <2>8, <2>9, <2>10
<1> QED
  BY <1>2, <1>3

-----------------------------------------------------------------------------
(* Network: acknowledged rules *)

\* backend is fixed: the clouds of which GrantsKept and FirewallAsAsked are claimed.
FwCloud == backend \in {"inmem", "k8s", "aws"}
GroupShape(g) == "id" \in DOMAIN g /\ "rules" \in DOMAIN g
\* A rule a policy holds matches itself, so that its removal finds one.
RuleList(rules) == IsList(rules) /\ (backend = "k8s" => \A r \in Members(rules) : MatchesDomain(r, r))
GroupsShaped == \A g \in groups : GroupShape(g) /\ RuleList(g.rules)
GroupsOnce == \A g \in groups, h \in groups : g.id = h.id => g = h
GroupsNumbered == netSeq \in Nat /\ (backend # "k8s" => \A g \in groups : g.id \in Nat /\ g.id <= netSeq)
GrantsThere == \A gr \in granted : \E g \in groups : g.id = gr[1] /\ gr[2] \in Members(g.rules)
GroupInv == FwCloud => GroupsShaped /\ GroupsOnce /\ GroupsNumbered /\ GrantsThere

\* What a step may do to the groups and the history.
GroupsStay == groups' = groups /\ granted' = granted /\ (netSeq' = netSeq \/ netSeq' = netSeq + 1)
GroupAdded(id) ==
    /\ GroupById(id) = {}
    /\ \E n, net : groups' = groups \cup {[id |-> id, name |-> n, net |-> net, rules |-> <<>>, ranges |-> <<>>]}
    /\ granted' = granted
    /\ IF backend = "k8s" THEN netSeq' = netSeq ELSE id = netSeq + 1 /\ netSeq' = netSeq + 1
GroupGone(id) ==
    /\ groups' = groups \ GroupById(id)
    /\ granted' = {gr \in granted : gr[1] # id}
    /\ netSeq' = netSeq
GroupChanged(g, rules) ==
    /\ g \in groups
    /\ RuleList(rules)
    /\ groups' = (groups \ GroupById(g.id)) \cup {[g EXCEPT !.rules = rules, !.ranges = <<>>]}
    /\ \A gr \in granted' : IF gr[1] = g.id THEN gr[2] \in Members(rules) ELSE gr \in granted
    /\ netSeq' = netSeq
GroupEffect ==
    \/ GroupsStay
    \/ \E id : GroupAdded(id) \/ GroupGone(id)
    \/ \E g, rules : GroupChanged(g, rules)

LEMMA RulesSet ==
    ASSUME NEW g, GroupShape(g), NEW rules
    PROVE  LET h == [g EXCEPT !.rules = rules, !.ranges = <<>>] IN
           GroupShape(h) /\ h.id = g.id /\ h.rules = rules
BY DEF GroupShape

LEMMA GroupsStaying ==
    ASSUME GroupInv, FwCloud, backend' = backend, GroupsStay
    PROVE  GroupInv'
<1>1. GroupsNumbered'
  BY DEF GroupInv, GroupsStay, GroupsNumbered
<1>2. GroupsShaped' /\ GroupsOnce' /\ GrantsThere'
  BY DEF GroupInv, GroupsStay, GroupsShaped, RuleList, GroupsOnce, GrantsThere
<1> QED
  BY <1>1, <1>2 DEF GroupInv

LEMMA EmptyList == IsList(<<>>) /\ Members(<<>>) = {}
<1>1. Members(<<>>) = {}
  BY DEF Members
<1> QED
  BY <1>1 DEF IsList

LEMMA GroupAdding ==
    ASSUME GroupInv, FwCloud, backend' = backend, NEW id, GroupAdded(id)
    PROVE  GroupInv'
<1>1. PICK n, net : groups' = groups \cup {[id |-> id, name |-> n, net |-> net, rules |-> <<>>, ranges |-> <<>>]}
  BY DEF GroupAdded
<1> DEFINE new == [id |-> id, name |-> n, net |-> net, rules |-> <<>>, ranges |-> <<>>]
<1>2. GroupShape(new) /\ new.id = id /\ new.rules = <<>> /\ groups' = groups \cup {new}
  BY <1>1 DEF GroupShape
<1> HIDE DEF new
<1>3. \A g \in groups : g.id # id
  BY DEF GroupAdded, GroupById
<1>4. GroupsShaped'
  BY <1>2, EmptyList DEF GroupInv, GroupsShaped, RuleList
<1>5. GroupsOnce'
  BY <1>2, <1>3 DEF GroupInv, GroupsOnce
<1>6. GroupsNumbered'
  BY <1>2 DEF GroupInv, GroupsNumbered, GroupAdded
<1>7. GrantsThere'
  BY <1>2 DEF GroupInv, GrantsThere, GroupAdded
<1> QED
  BY <1>4, <1>5, <1>6, <1>7 DEF GroupInv

LEMMA GroupGoing ==
    ASSUME GroupInv, FwCloud, backend' = backend, NEW id, GroupGone(id)
    PROVE  GroupInv'
<1>1. \A g : g \in groups' <=> g \in groups /\ g.id # id
  BY DEF GroupGone, GroupById
<1>2. GroupsShaped' /\ GroupsOnce'
  BY <1>1 DEF GroupInv, GroupsShaped, RuleList, GroupsOnce
<1>3. GroupsNumbered'
  BY <1>1 DEF GroupInv, GroupsNumbered, GroupGone
<1>4. GrantsThere'
  BY <1>1 DEF GroupInv, GrantsThere, GroupGone
<1> QED
  BY <1>2, <1>3, <1>4 DEF GroupInv

LEMMA GroupChanging ==
    ASSUME GroupInv, FwCloud, backend' = backend, NEW g, NEW rules, GroupChanged(g, rules)
    PROVE  GroupInv'
<1> DEFINE h == [g EXCEPT !.rules = rules, !.ranges = <<>>]
<1>1. g \in groups /\ RuleList(rules) /\ netSeq' = netSeq
  BY DEF GroupChanged
<1>2. GroupShape(h) /\ h.id = g.id /\ h.rules = rules
  BY <1>1, RulesSet DEF GroupInv, GroupsShaped
<1>3. groups' = (groups \ GroupById(g.id)) \cup {h}
  BY DEF GroupChanged
<1> HIDE DEF h
<1>4. \A x : x \in groups' <=> (x \in groups /\ x.id # g.id) \/ x = h
  BY <1>3 DEF GroupById
<1>5. GroupsShaped'
  BY <1>1, <1>2, <1>4 DEF GroupInv, GroupsShaped, RuleList
<1>6. GroupsOnce'
  BY <1>2, <1>4 DEF GroupInv, GroupsOnce
<1>7. GroupsNumbered'
  BY <1>1, <1>2, <1>4 DEF GroupInv, GroupsNumbered
<1>8. GrantsThere'
  <2> SUFFICES ASSUME NEW gr \in granted'
               PROVE  \E x \in groups' : x.id = gr[1] /\ gr[2] \in Members(x.rules)
    BY DEF GrantsThere
  <2>1. CASE gr[1] = g.id
    BY <1>2, <1>4, <2>1 DEF GroupChanged
  <2>2. CASE gr[1] # g.id
    BY <1>4, <2>2 DEF GroupChanged, GroupInv, GrantsThere
  <2> QED
    BY <2>1, <2>2
<1> QED
  BY <1>5, <1>6, <1>7, <1>8 DEF GroupInv

LEMMA GroupEffectKeeps ==
    ASSUME GroupInv, FwCloud, backend' = backend, GroupEffect
    PROVE  GroupInv'
BY GroupsStaying, GroupAdding, GroupGoing, GroupChanging DEF GroupEffect

-----------------------------------------------------------------------------
(* Network: what a step does to the request *)

NetReqRec(r) == [op |-> r.op, todo |-> r.todo, clean |-> r.clean, want |-> r.want]
NetReqs ==
    /\ DOMAIN req = Clients /\ req = [c \in Clients |-> req[c]]
    /\ \A c \in Clients : req[c] = Idle \/ req[c] = NetReqRec(req[c])

\* The request of c goes on as the same request, or ends.
NetStep(c) ==
    \/ \E r : Goes(c, r) /\ r = NetReqRec(r) /\ r.op = req[c].op
    \/ \E says : Ends(c, says) /\ (req[c].op # "firewall" => says = None)

LEMMA TodoSet ==
    ASSUME NEW r, r = NetReqRec(r), NEW t
    PROVE  /\ [r EXCEPT !.todo = t] = [op |-> r.op, todo |-> t, clean |-> r.clean, want |-> r.want]
           /\ [r EXCEPT !.todo = t] = NetReqRec([r EXCEPT !.todo = t])
<1>1. [r EXCEPT !.todo = t] = [op |-> r.op, todo |-> t, clean |-> r.clean, want |-> r.want]
  BY DEF NetReqRec
<1> QED
  BY <1>1 DEF NetReqRec

Continued(r, t, b) == [r EXCEPT !.todo = t, !.clean = b]

LEMMA TodoCleanSet ==
    ASSUME NEW r, r = NetReqRec(r), NEW t, NEW b
    PROVE  /\ Continued(r, t, b) = [op |-> r.op, todo |-> t, clean |-> b, want |-> r.want]
           /\ Continued(r, t, b) = NetReqRec(Continued(r, t, b))
<1> DEFINE q == [r EXCEPT !.todo = t]
           p == Continued(r, t, b)
<1>1. q = [op |-> r.op, todo |-> t, clean |-> r.clean, want |-> r.want]
  BY TodoSet
<1>2. p = [q EXCEPT !.clean = b]
  BY DEF NetReqRec, Continued
<1> HIDE DEF q, p
<1>3. [q EXCEPT !.clean = b] = [op |-> r.op, todo |-> t, clean |-> b, want |-> r.want]
  BY <1>1
<1>4. p = [op |-> r.op, todo |-> t, clean |-> b, want |-> r.want]
  BY <1>2, <1>3
<1>5. p = NetReqRec(p)
  BY <1>4 DEF NetReqRec
<1> QED
  BY <1>4, <1>5 DEF p

LEMMA NetGoesOn ==
    ASSUME NEW c, req[c] = NetReqRec(req[c]), NEW t, Goes(c, [req[c] EXCEPT !.todo = t])
    PROVE  NetStep(c)
<1> DEFINE r == [req[c] EXCEPT !.todo = t]
<1>1. r = NetReqRec(r) /\ r.op = req[c].op
  BY TodoSet
<1> HIDE DEF r
<1>2. Goes(c, r)
  BY DEF r
<1> QED
  BY <1>1, <1>2 DEF NetStep

LEMMA NetFails ==
    ASSUME NEW c, Ends(c, None)
    PROVE  NetStep(c)
BY DEF NetStep

LEMMA NetContinuing ==
    ASSUME NEW c, req[c] = NetReqRec(req[c]), NEW t, NEW b, NetContinues(c, t, b)
    PROVE  NetStep(c)
<1>1. CASE t = <<>>
  <2> DEFINE says == NetSays(c, Now(c).of, b)
  <2>1. Ends(c, says)
    BY <1>1 DEF NetContinues
  <2>2. req[c].op # "firewall" => says = None
    BY DEF NetSays
  <2> HIDE DEF says
  <2> QED
    BY <2>1, <2>2 DEF NetStep
<1>2. CASE t # <<>>
  <2> DEFINE r == Continued(req[c], t, b)
  <2>1. Goes(c, r)
    BY <1>2 DEF NetContinues, Continued
  <2>2. r = NetReqRec(r) /\ r.op = req[c].op
    BY TodoCleanSet
  <2> HIDE DEF r
  <2> QED
    BY <2>1, <2>2 DEF NetStep
<1> QED
  BY <1>1, <1>2

LEMMA NetDoneSteps ==
    ASSUME NEW c, req[c] = NetReqRec(req[c]), NetDone(c)
    PROVE  NetStep(c)
BY NetContinuing DEF NetDone

LEMMA NetMadeSteps ==
    ASSUME NEW c, req[c] = NetReqRec(req[c]), NEW id, NetMade(c, id)
    PROVE  NetStep(c)
<1> DEFINE rest == Tail(req[c].todo)
           says == NetSays(c, id, TRUE)
           t == [i \in DOMAIN rest |-> [rest[i] EXCEPT !.of = id]]
<1>1. CASE rest = <<>>
  <2>1. Ends(c, says)
    BY <1>1 DEF NetMade
  <2>2. req[c].op # "firewall" => says = None
    BY DEF NetSays
  <2> HIDE DEF says
  <2> QED
    BY <2>1, <2>2 DEF NetStep
<1>2. CASE rest # <<>>
  <2>1. Goes(c, [req[c] EXCEPT !.todo = t])
    BY <1>2 DEF NetMade
  <2> HIDE DEF t
  <2> QED
    BY <2>1, NetGoesOn
<1> QED
  BY <1>1, <1>2

\* A step of a call, as far as groups, history and request go.
NetEffect(c) == GroupEffect /\ NetStep(c)

LEMMA NetRefusedEffect ==
    ASSUME NEW c, req[c] = NetReqRec(req[c]), NetRefused(c)
    PROVE  NetEffect(c)
<1>1. GroupEffect
  BY DEF NetRefused, netVars, GroupEffect, GroupsStay
<1>2. CASE Now(c).mode = "may"
  BY <1>1, <1>2, NetContinuing DEF NetRefused, NetEffect
<1>3. CASE Now(c).mode # "may"
  BY <1>1, <1>3, NetFails DEF NetRefused, Fails, NetEffect
<1> QED
  BY <1>2, <1>3

LEMMA NetIdleEffect ==
    ASSUME NEW c, NetStep(c), groups' = groups, granted' = granted, netSeq' = netSeq \/ netSeq' = netSeq + 1
    PROVE  NetEffect(c)
BY DEF NetEffect, GroupEffect, GroupsStay

LEMMA MakesNetEffect ==
    ASSUME NEW c, req[c] = NetReqRec(req[c]), MakesNet(c) \/ MakesSubnet(c)
    PROVE  NetEffect(c)
<1>1. NetMade(c, NewId(c)) /\ groups' = groups /\ granted' = granted /\ Numbers
  BY DEF MakesNet, MakesSubnet
<1>2. netSeq' = netSeq \/ netSeq' = netSeq + 1
  BY <1>1 DEF Numbers
<1>3. NetStep(c)
  BY <1>1, NetMadeSteps
<1> QED
  BY <1>1, <1>2, <1>3, NetIdleEffect

LEMMA MakesGroupEffect ==
    ASSUME NEW c, req[c] = NetReqRec(req[c]), GroupInv, FwCloud, MakesGroup(c),
           backend = "k8s" => GroupById(Now(c).name) = {}
    PROVE  NetEffect(c) /\ GroupAdded(NewId(c)) /\ NetMade(c, NewId(c))
<1>1. Numbers /\ NetMade(c, NewId(c)) /\ granted' = granted
  BY DEF MakesGroup
<1>2. NetStep(c)
  BY <1>1, NetMadeSteps
<1>3. GroupById(NewId(c)) = {}
  <2>1. CASE backend = "k8s"
    BY <2>1 DEF NewId, ByName
  <2>2. CASE backend # "k8s"
    <3>1. NewId(c) = netSeq + 1 /\ netSeq \in Nat /\ \A g \in groups : g.id \in Nat /\ g.id <= netSeq
      BY <2>2 DEF FwCloud, NewId, ByName, GroupInv, GroupsNumbered
    <3>2. \A g \in groups : g.id # NewId(c)
      BY <3>1
    <3> QED
      BY <3>2 DEF GroupById
  <2> QED
    BY <2>1, <2>2
<1>4. GroupAdded(NewId(c))
  <2>1. \E n, net : groups' = groups \cup {[id |-> NewId(c), name |-> n, net |-> net, rules |-> <<>>, ranges |-> <<>>]}
    <3>1. groups' = groups
            \cup {[id |-> NewId(c), name |-> Now(c).name, net |-> Now(c).net, rules |-> <<>>, ranges |-> <<>>]}
      BY <1>3 DEF MakesGroup
    <3> QED
      BY <3>1
  <2>2. IF backend = "k8s" THEN netSeq' = netSeq ELSE NewId(c) = netSeq + 1 /\ netSeq' = netSeq + 1
    BY <1>1 DEF FwCloud, Numbers, NewId, ByName
  <2> QED
    BY <1>1, <1>3, <2>1, <2>2 DEF GroupAdded
<1> QED
  BY <1>1, <1>2, <1>4 DEF NetEffect, GroupEffect

LEMMA DropsNetEffect ==
    ASSUME NEW c, req[c] = NetReqRec(req[c]), DropsNet(c) \/ DropsSubnet(c) \/ DropsAddress(c)
    PROVE  NetEffect(c)
<1>1. CASE NetRefused(c)
  BY <1>1, NetRefusedEffect
<1>2. CASE ~NetRefused(c)
  <2>1. NetDone(c) /\ groups' = groups /\ granted' = granted /\ netSeq' = netSeq
    BY <1>2 DEF DropsNet, DropsSubnet, DropsAddress, OnlyNets, OnlySubnets, OnlyAddresses
  <2> QED
    BY <2>1, NetDoneSteps, NetIdleEffect
<1> QED
  BY <1>1, <1>2

LEMMA SetsHostEffect ==
    ASSUME NEW c, req[c] = NetReqRec(req[c]), NEW h, SetsHost(c, h)
    PROVE  NetEffect(c)
<1>1. CASE NetRefused(c)
  BY <1>1, NetRefusedEffect
<1>2. CASE ~NetRefused(c)
  <2>1. NetDone(c) /\ groups' = groups /\ granted' = granted /\ netSeq' = netSeq
    BY <1>2 DEF SetsHost, OnlyAddresses
  <2> QED
    BY <2>1, NetDoneSteps, NetIdleEffect
<1> QED
  BY <1>1, <1>2

LEMMA DropsGroupEffect ==
    ASSUME NEW c, req[c] = NetReqRec(req[c]), DropsGroup(c)
    PROVE  NetEffect(c)
<1>1. CASE NetRefused(c)
  BY <1>1, NetRefusedEffect
<1>2. CASE ~NetRefused(c)
  <2>1. NetDone(c) /\ GroupGone(Now(c).of)
    BY <1>2 DEF DropsGroup, OnlyGroups, GroupGone
  <2> QED
    BY <2>1, NetDoneSteps DEF NetEffect, GroupEffect
<1> QED
  BY <1>1, <1>2

LEMMA AddressEffect ==
    ASSUME NEW c, req[c] = NetReqRec(req[c]), NEW n, MakesAddress(c, n), NEW id, NetMade(c, id)
    PROVE  NetEffect(c)
<1>1. groups' = groups /\ granted' = granted /\ netSeq' = netSeq + 1
  BY DEF MakesAddress, OnlyAddresses
<1> QED
  BY <1>1, NetMadeSteps, NetIdleEffect

-----------------------------------------------------------------------------
(* Network: the calls *)

\* A rule as the backend b keeps it.
Filed(b, r) == IF b = "k8s" THEN PolicyRule(r) ELSE r
LEMMA PolicyRuleMatches ==
    ASSUME NEW r
    PROVE  MatchesDomain(PolicyRule(r), PolicyRule(r))
BY DEF PolicyRule, domainRuleToNPPort, MatchesDomain

\* A rule is added to, or taken from, the group the call names.
Adding(c) ==
    \E g \in GroupById(Now(c).of) : \E rules :
        /\ GroupChanged(g, rules)
        /\ Members(rules) = Members(g.rules) \cup {Filed(backend, Now(c).rule)}
        /\ NetDone(c)
Taken(old, new, r) ==
    IF backend = "k8s"
    THEN old # <<>> /\ MatchesDomain(old[1], r) => Len(new) = Len(old) - 1 /\ \A k \in 1..Len(new) : new[k] = old[k + 1]
    ELSE Members(new) = Members(old) \ {r}
Taking(c) ==
    \E g \in GroupById(Now(c).of) : \E rules :
        GroupChanged(g, rules) /\ Taken(g.rules, rules, Now(c).rule) /\ NetDone(c)

LEMMA AddingEffect ==
    ASSUME NEW c, req[c] = NetReqRec(req[c]), Adding(c) \/ Taking(c)
    PROVE  NetEffect(c)
BY NetDoneSteps DEF Adding, Taking, NetEffect, GroupEffect

LEMMA GrantsOfGroup ==
    ASSUME GroupInv, FwCloud, NEW g \in groups, NEW gr \in granted, gr[1] = g.id
    PROVE  gr[2] \in Members(g.rules)
BY DEF GroupInv, GrantsThere, GroupsOnce

LEMMA WritesAdding ==
    ASSUME NEW c, GroupInv, FwCloud, NEW g \in GroupById(Now(c).of), NEW rules, IsList(rules),
           Members(rules) = Members(g.rules) \cup {Filed(backend, Now(c).rule)},
           Writes(c, g, rules, <<>>), Grants(c, Filed(backend, Now(c).rule))
    PROVE  Adding(c)
<1> DEFINE new == Filed(backend, Now(c).rule)
<1>1. g \in groups /\ g.id = Now(c).of
  BY DEF GroupById
<1>2. RuleList(rules)
  <2>1. RuleList(g.rules)
    BY <1>1 DEF GroupInv, GroupsShaped
  <2>2. backend = "k8s" => MatchesDomain(new, new)
    BY PolicyRuleMatches DEF Filed
  <2> HIDE DEF new
  <2>3. Members(rules) = Members(g.rules) \cup {new}
    BY DEF new
  <2> QED
    BY <2>1, <2>2, <2>3 DEF RuleList
<1>3. groups' = (groups \ GroupById(g.id)) \cup {[g EXCEPT !.rules = rules, !.ranges = <<>>]} /\ netSeq' = netSeq
      /\ NetDone(c)
  BY DEF Writes, OnlyGroups
<1> HIDE DEF new
<1>4. ASSUME NEW gr \in granted' PROVE IF gr[1] = g.id THEN gr[2] \in Members(rules) ELSE gr \in granted
  <2>1. gr \in granted \/ gr = <<Now(c).of, new>>
    BY DEF Grants, new
  <2>0. Members(rules) = Members(g.rules) \cup {new}
    BY DEF new
  <2>2. CASE gr = <<Now(c).of, new>>
    BY <1>1, <2>0, <2>2
  <2>3. CASE gr \in granted
    BY <1>1, <2>0, <2>3, GrantsOfGroup
  <2> QED
    BY <2>1, <2>2, <2>3
<1>5. GroupChanged(g, rules)
  BY <1>1, <1>2, <1>3, <1>4 DEF GroupChanged
<1> QED
  BY <1>3, <1>5 DEF Adding

LEMMA WritesTaking ==
    ASSUME NEW c, GroupInv, FwCloud, NEW g \in GroupById(Now(c).of), NEW rules, IsList(rules),
           Members(rules) \subseteq Members(g.rules),
           Writes(c, g, rules, <<>>), Taken(g.rules, rules, Now(c).rule), granted' \subseteq granted,
           \A gr \in granted' : gr[1] = Now(c).of => (gr[2] \in Members(g.rules) => gr[2] \in Members(rules))
    PROVE  Taking(c)
<1>1. g \in groups /\ g.id = Now(c).of
  BY DEF GroupById
<1>2. RuleList(rules)
  BY <1>1 DEF GroupInv, GroupsShaped, RuleList
<1>3. groups' = (groups \ GroupById(g.id)) \cup {[g EXCEPT !.rules = rules, !.ranges = <<>>]} /\ netSeq' = netSeq
      /\ NetDone(c)
  BY DEF Writes, OnlyGroups
<1>4. ASSUME NEW gr \in granted' PROVE IF gr[1] = g.id THEN gr[2] \in Members(rules) ELSE gr \in granted
  BY <1>1, GrantsOfGroup
<1>5. GroupChanged(g, rules)
  BY <1>1, <1>2, <1>3, <1>4 DEF GroupChanged
<1> QED
  BY <1>3, <1>5 DEF Taking

LEMMA InmemAddRuleIs ==
    ASSUME NEW c, GroupInv, InmemAddRule(c)
    PROVE  NetRefused(c) \/ Adding(c)
<1>1. FwCloud /\ backend = "inmem"
  BY DEF InmemAddRule, Doing, FwCloud
<1>2. CASE ~NetRefused(c)
  <2>1. PICK g \in GroupById(Now(c).of) : Writes(c, g, Append(g.rules, Now(c).rule), <<>>) /\ Grants(c, Now(c).rule)
    BY <1>2 DEF InmemAddRule
  <2>2. IsList(g.rules) /\ Filed(backend, Now(c).rule) = Now(c).rule
    BY <1>1 DEF GroupById, GroupInv, GroupsShaped, RuleList, Filed
  <2> DEFINE rules == Append(g.rules, Now(c).rule)
  <2>3. IsList(rules) /\ Members(rules) = Members(g.rules) \cup {Now(c).rule} /\ Writes(c, g, rules, <<>>)
    BY <2>1, <2>2, ListAppend
  <2> HIDE DEF rules
  <2> QED
    BY <1>1, <2>1, <2>2, <2>3, WritesAdding
<1> QED
  BY <1>2

\* A rule in its place, as k8s and aws add it.
LEMMA PlacedAdding ==
    ASSUME NEW c, GroupInv, FwCloud, NEW g \in GroupById(Now(c).of),
           NEW rules \in Placed(g.rules, Filed(backend, Now(c).rule)),
           Writes(c, g, rules, <<>>), Grants(c, Filed(backend, Now(c).rule))
    PROVE  Adding(c)
<1>1. IsList(g.rules)
  BY DEF GroupById, GroupInv, GroupsShaped, RuleList
<1>2. IsList(rules) /\ Members(rules) = Members(g.rules) \cup {Filed(backend, Now(c).rule)}
  BY <1>1, ListPlaced
<1> QED
  BY <1>2, WritesAdding

LEMMA AwsAddRuleIs ==
    ASSUME NEW c, GroupInv, AwsAddRule(c)
    PROVE  NetRefused(c) \/ Adding(c)
<1>1. FwCloud /\ Filed(backend, Now(c).rule) = Now(c).rule
  BY DEF AwsAddRule, Doing, FwCloud, Filed
<1>2. NetRefused(c) \/
      \E g \in GroupById(Now(c).of) : \E rules \in Placed(g.rules, Now(c).rule) :
         Writes(c, g, rules, <<>>) /\ Grants(c, Now(c).rule)
  BY DEF AwsAddRule
<1> QED
  BY <1>1, <1>2, PlacedAdding

LEMMA FilteredTaking ==
    ASSUME NEW c, GroupInv, backend \in {"inmem", "aws"}, NEW g \in GroupById(Now(c).of),
           NEW rules \in Without(g.rules, Now(c).rule), Writes(c, g, rules, <<>>),
           granted' = {gr \in granted : gr[1] = Now(c).of => ~(gr[2] = Now(c).rule)}
    PROVE  Taking(c)
<1>1. FwCloud /\ backend # "k8s" /\ g \in groups
  BY DEF FwCloud, GroupById
<1>2. IsList(g.rules)
  BY <1>1 DEF GroupInv, GroupsShaped, RuleList
<1>3. IsList(rules) /\ Members(rules) = Members(g.rules) \ {Now(c).rule}
  BY <1>2, ListWithout
<1>4. Taken(g.rules, rules, Now(c).rule)
  BY <1>1, <1>3 DEF Taken
<1>5. \A gr \in granted' : gr[1] = Now(c).of => (gr[2] \in Members(g.rules) => gr[2] \in Members(rules))
  BY <1>3
<1>6. granted' \subseteq granted
  OBVIOUS
<1> QED
  BY <1>1, <1>3, <1>4, <1>5, <1>6, WritesTaking

LEMMA InmemRemoveRuleIs ==
    ASSUME NEW c, GroupInv, InmemRemoveRule(c)
    PROVE  NetRefused(c) \/ Taking(c)
<1>1. backend \in {"inmem", "aws"}
  BY DEF InmemRemoveRule, Doing
<1>2. NetRefused(c) \/
      \E g \in GroupById(Now(c).of) : \E rules \in Without(g.rules, Now(c).rule) :
         /\ Writes(c, g, rules, <<>>)
         /\ granted' = {gr \in granted : gr[1] = Now(c).of => ~(gr[2] = Now(c).rule)}
  BY DEF InmemRemoveRule, Withdraws
<1> QED
  BY <1>1, <1>2, FilteredTaking

LEMMA AwsRemoveRuleIs ==
    ASSUME NEW c, GroupInv, AwsRemoveRule(c)
    PROVE  NetRefused(c) \/ Taking(c)
<1>1. backend \in {"inmem", "aws"}
  BY DEF AwsRemoveRule, Doing
<1>2. NetRefused(c) \/
      \E g \in GroupById(Now(c).of) : \E rules \in Without(g.rules, Now(c).rule) :
         /\ Writes(c, g, rules, <<>>)
         /\ granted' = {gr \in granted : gr[1] = Now(c).of => ~(gr[2] = Now(c).rule)}
  BY DEF AwsRemoveRule, Withdraws
<1> QED
  BY <1>1, <1>2, FilteredTaking

LEMMA addDomainRuleIs ==
    ASSUME NEW c, GroupInv, addDomainRule(c)
    PROVE  NetRefused(c) \/ Adding(c)
<1>1. FwCloud /\ Filed(backend, Now(c).rule) = PolicyRule(Now(c).rule)
  BY DEF addDomainRule, Doing, FwCloud, Filed
<1>2. CASE NetRefused(c)
  BY <1>2
<1>3. CASE ~NetRefused(c)
  <2> DEFINE g == Now(c).read
  <2>1. g \in GroupById(Now(c).of)
    BY <1>3 DEF addDomainRule, SameVersion
  <2>2. PICK rules \in Placed(g.rules, PolicyRule(Now(c).rule)) :
           Writes(c, g, rules, <<>>) /\ Grants(c, PolicyRule(Now(c).rule))
    BY <1>3 DEF addDomainRule
  <2> HIDE DEF g
  <2> QED
    BY <1>1, <2>1, <2>2, PlacedAdding
<1> QED
  BY <1>2, <1>3

LEMMA removeDomainRuleIs ==
    ASSUME NEW c, GroupInv, removeDomainRule(c)
    PROVE  NetRefused(c) \/ Taking(c)
<1>1. FwCloud /\ backend = "k8s"
  BY DEF removeDomainRule, Doing, FwCloud
<1>2. CASE NetRefused(c)
  BY <1>2
<1>3. CASE ~NetRefused(c)
  <2> DEFINE g == Now(c).read
  <2>1. g \in GroupById(Now(c).of) /\ g \in groups
    BY <1>3 DEF removeDomainRule, SameVersion, GroupById
  <2>2. PICK rules \in WithoutFirst(g.rules, Now(c).rule) : Writes(c, g, rules, <<>>)
    BY <1>3 DEF removeDomainRule
  <2>3. granted' = {gr \in granted : gr[1] = Now(c).of => ~MatchesDomain(gr[2], Now(c).rule)}
    BY <1>3 DEF removeDomainRule, Withdraws
  <2> HIDE DEF g
  <2>4. IsList(g.rules)
    BY <1>1, <2>1 DEF GroupInv, GroupsShaped, RuleList
  <2>5. /\ IsList(rules) /\ Members(rules) \subseteq Members(g.rules)
        /\ \A x \in Members(g.rules) : ~MatchesDomain(x, Now(c).rule) => x \in Members(rules)
        /\ g.rules # <<>> /\ MatchesDomain(g.rules[1], Now(c).rule) =>
             Len(rules) = Len(g.rules) - 1 /\ \A k \in 1..Len(rules) : rules[k] = g.rules[k + 1]
    BY <2>2, <2>4, ListWithoutFirst
  <2>6. Taken(g.rules, rules, Now(c).rule)
    BY <1>1, <2>5 DEF Taken
  <2>7. \A gr \in granted' : gr[1] = Now(c).of => (gr[2] \in Members(g.rules) => gr[2] \in Members(rules))
    BY <2>3, <2>5
  <2>8. granted' \subseteq granted
    BY <2>3
  <2> QED
    BY <1>1, <2>1, <2>2, <2>5, <2>6, <2>7, <2>8, WritesTaking
<1> QED
  BY <1>2, <1>3

\* Lookups and reads change nothing but the request.
LEMMA UnchangedEffect ==
    ASSUME NEW c, NetStep(c), UNCHANGED netVars
    PROVE  NetEffect(c)
BY NetIdleEffect DEF netVars

LEMMA FindsEffect ==
    ASSUME NEW c, req[c] = NetReqRec(req[c]),
           FindNetwork(c) \/ FindSubnet(c) \/ FindGroup(c) \/ FindAddress(c) \/ ReadGroup(c)
    PROVE  NetEffect(c)
<1>1. UNCHANGED netVars
  BY DEF FindNetwork, FindSubnet, FindGroup, FindAddress, ReadGroup, LooksUp
<1>2. (\E t : Goes(c, [req[c] EXCEPT !.todo = t])) \/ Ends(c, None)
  <2>1. CASE FindNetwork(c)
    BY <2>1 DEF FindNetwork, LooksUp, Fails
  <2>2. CASE FindSubnet(c)
    BY <2>2 DEF FindSubnet, LooksUp, Fails
  <2>3. CASE FindGroup(c)
    BY <2>3 DEF FindGroup, LooksUp, Fails
  <2>4. CASE FindAddress(c)
    BY <2>4 DEF FindAddress, LooksUp, Fails
  <2>5. CASE ReadGroup(c)
    BY <2>5 DEF ReadGroup, LooksUp, Fails
  <2> QED
    BY <2>1, <2>2, <2>3, <2>4, <2>5
<1> QED
  BY <1>1, <1>2, NetGoesOn, NetFails, UnchangedEffect

LEMMA PicksEffect ==
    ASSUME NEW c, req[c] = NetReqRec(req[c]), PickRule(c) \/ Replace(c)
    PROVE  NetEffect(c)
<1>1. UNCHANGED netVars
  BY DEF PickRule, Replace
<1>2. (\E t : Goes(c, [req[c] EXCEPT !.todo = t])) \/ Ends(c, None) \/ (\E t, b : NetContinues(c, t, b))
  BY DEF PickRule, Replace, Fails
<1> QED
  BY <1>1, <1>2, NetGoesOn, NetFails, NetContinuing, UnchangedEffect

LEMMA GetsGroupEffect ==
    ASSUME NEW c, req[c] = NetReqRec(req[c]), NEW next, GetsGroup(c, next)
    PROVE  NetEffect(c)
<1>1. UNCHANGED netVars
  BY DEF GetsGroup
<1>2. NetRefused(c) \/ \E t : Goes(c, [req[c] EXCEPT !.todo = t])
  BY DEF GetsGroup
<1> QED
  BY <1>1, <1>2, NetGoesOn, NetRefusedEffect, UnchangedEffect

InmemNetCall(c) ==
    \/ InmemCreateNetwork(c) \/ InmemDeleteNetwork(c)
    \/ InmemCreateSubnet(c) \/ InmemDeleteSubnet(c)
    \/ InmemCreateSecurityGroup(c) \/ InmemDeleteSecurityGroup(c)
    \/ InmemAddRule(c) \/ InmemRemoveRule(c) \/ InmemAllocatePublicIP(c)
    \/ InmemReleasePublicIP(c) \/ InmemAssociatePublicIP(c)
    \/ InmemDisassociatePublicIP(c)
K8sNetCall(c) ==
    \/ K8sCreateNetwork(c) \/ K8sDeleteNetwork(c)
    \/ K8sCreateSecurityGroup(c) \/ K8sDeleteSecurityGroup(c)
    \/ K8sAddRule(c) \/ K8sRemoveRule(c) \/ addDomainRule(c)
    \/ removeDomainRule(c) \/ K8sNoSubnets(c) \/ K8sNoAddresses(c)
AwsNetCall(c) ==
    \/ AwsCreateNetwork(c) \/ AwsDeleteNetwork(c) \/ AwsCreateSubnet(c)
    \/ AwsDeleteSubnet(c) \/ AwsCreateSecurityGroup(c)
    \/ AwsDeleteSecurityGroup(c) \/ AwsAddRule(c) \/ AwsRemoveRule(c)
    \/ AwsAllocatePublicIP(c) \/ AwsReleasePublicIP(c)
    \/ AwsAssociatePublicIP(c) \/ AwsDisassociatePublicIP(c)
    \/ AwsDissolves(c)

\* A group is created by a call that finds none of its identifier, or is refused.
CreatesGroup(c) == InmemCreateSecurityGroup(c) \/ K8sCreateSecurityGroup(c) \/ AwsCreateSecurityGroup(c)
LEMMA CreatesGroupIs ==
    ASSUME NEW c, req[c] = NetReqRec(req[c]), GroupInv, CreatesGroup(c)
    PROVE  NetRefused(c) \/ (NetEffect(c) /\ GroupAdded(NewId(c)) /\ NetMade(c, NewId(c)))
<1>1. FwCloud
  BY DEF CreatesGroup, InmemCreateSecurityGroup, K8sCreateSecurityGroup, AwsCreateSecurityGroup, Doing, FwCloud
<1>2. NetRefused(c) \/ (MakesGroup(c) /\ (backend = "k8s" => GroupById(Now(c).name) = {}))
  BY DEF CreatesGroup, InmemCreateSecurityGroup, K8sCreateSecurityGroup, AwsCreateSecurityGroup, Doing
<1> QED
  BY <1>1, <1>2, MakesGroupEffect

LEMMA InmemNetEffect ==
    ASSUME NEW c, req[c] = NetReqRec(req[c]), GroupInv, InmemNetCall(c)
    PROVE  NetEffect(c)
<1>1. CASE InmemCreateNetwork(c)
  BY <1>1, NetRefusedEffect, MakesNetEffect DEF InmemCreateNetwork
<1>2. CASE InmemDeleteNetwork(c)
  BY <1>2, DropsNetEffect DEF InmemDeleteNetwork
<1>3. CASE InmemCreateSubnet(c)
  BY <1>3, NetRefusedEffect, MakesNetEffect DEF InmemCreateSubnet
<1>4. CASE InmemDeleteSubnet(c)
  BY <1>4, DropsNetEffect DEF InmemDeleteSubnet
<1>5. CASE InmemCreateSecurityGroup(c)
  BY <1>5, NetRefusedEffect, CreatesGroupIs DEF CreatesGroup
<1>6. CASE InmemDeleteSecurityGroup(c)
  BY <1>6, DropsGroupEffect DEF InmemDeleteSecurityGroup
<1>7. CASE InmemAddRule(c)
  BY <1>7, InmemAddRuleIs, NetRefusedEffect, AddingEffect
<1>8. CASE InmemRemoveRule(c)
  BY <1>8, InmemRemoveRuleIs, NetRefusedEffect, AddingEffect
<1>9. CASE InmemAllocatePublicIP(c)
  BY <1>9, AddressEffect DEF InmemAllocatePublicIP
<1>10. CASE InmemReleasePublicIP(c)
  BY <1>10, DropsNetEffect DEF InmemReleasePublicIP
<1>11. CASE InmemAssociatePublicIP(c)
  BY <1>11, SetsHostEffect DEF InmemAssociatePublicIP
<1>12. CASE InmemDisassociatePublicIP(c)
  BY <1>12, SetsHostEffect DEF InmemDisassociatePublicIP
<1> QED
  BY <1>1, <1>2, <1>3, <1>4, <1>5, <1>6, <1>7, <1>8, <1>9, <1>10, <1>11, <1>12 DEF InmemNetCall

LEMMA K8sNetEffect ==
    ASSUME NEW c, req[c] = NetReqRec(req[c]), GroupInv, K8sNetCall(c)
    PROVE  NetEffect(c)
<1>1. CASE K8sCreateNetwork(c)
  BY <1>1, NetRefusedEffect, MakesNetEffect DEF K8sCreateNetwork
<1>2. CASE K8sDeleteNetwork(c)
  BY <1>2, DropsNetEffect DEF K8sDeleteNetwork
<1>3. CASE K8sCreateSecurityGroup(c)
  BY <1>3, NetRefusedEffect, CreatesGroupIs DEF CreatesGroup
<1>4. CASE K8sDeleteSecurityGroup(c)
  BY <1>4, DropsGroupEffect DEF K8sDeleteSecurityGroup
<1>5. CASE K8sAddRule(c)
  BY <1>5, GetsGroupEffect DEF K8sAddRule
<1>6. CASE K8sRemoveRule(c)
  BY <1>6, GetsGroupEffect DEF K8sRemoveRule
<1>7. CASE addDomainRule(c)
  BY <1>7, addDomainRuleIs, NetRefusedEffect, AddingEffect
<1>8. CASE removeDomainRule(c)
  BY <1>8, removeDomainRuleIs, NetRefusedEffect, AddingEffect
<1>9. CASE K8sNoSubnets(c) \/ K8sNoAddresses(c)
  BY <1>9, NetRefusedEffect DEF K8sNoSubnets, K8sNoAddresses
<1> QED
  BY <1>1, <1>2, <1>3, <1>4, <1>5, <1>6, <1>7, <1>8, <1>9 DEF K8sNetCall

LEMMA AwsNetEffect ==
    ASSUME NEW c, req[c] = NetReqRec(req[c]), GroupInv, AwsNetCall(c)
    PROVE  NetEffect(c)
<1>1. CASE AwsCreateNetwork(c)
  BY <1>1, MakesNetEffect DEF AwsCreateNetwork
<1>2. CASE AwsDeleteNetwork(c)
  BY <1>2, NetRefusedEffect, DropsNetEffect DEF AwsDeleteNetwork
<1>3. CASE AwsCreateSubnet(c)
  BY <1>3, NetRefusedEffect, MakesNetEffect DEF AwsCreateSubnet
<1>4. CASE AwsDeleteSubnet(c)
  BY <1>4, DropsNetEffect DEF AwsDeleteSubnet
<1>5. CASE AwsCreateSecurityGroup(c)
  BY <1>5, NetRefusedEffect, CreatesGroupIs DEF CreatesGroup
<1>6. CASE AwsDeleteSecurityGroup(c)
  BY <1>6, DropsGroupEffect DEF AwsDeleteSecurityGroup
<1>7. CASE AwsAddRule(c)
  BY <1>7, AwsAddRuleIs, NetRefusedEffect, AddingEffect
<1>8. CASE AwsRemoveRule(c)
  BY <1>8, AwsRemoveRuleIs, NetRefusedEffect, AddingEffect
<1>9. CASE AwsAllocatePublicIP(c)
  BY <1>9, AddressEffect DEF AwsAllocatePublicIP
<1>10. CASE AwsReleasePublicIP(c)
  BY <1>10, DropsNetEffect DEF AwsReleasePublicIP
<1>11. CASE AwsAssociatePublicIP(c)
  BY <1>11, SetsHostEffect DEF AwsAssociatePublicIP
<1>12. CASE AwsDisassociatePublicIP(c)
  <2>1. UNCHANGED netVars
    BY <1>12 DEF AwsDisassociatePublicIP
  <2>2. Ends(c, None) \/ NetDone(c) \/ \E t : Goes(c, [req[c] EXCEPT !.todo = t])
    BY <1>12 DEF AwsDisassociatePublicIP, Fails
  <2> QED
    BY <2>1, <2>2, NetFails, NetDoneSteps, NetGoesOn, UnchangedEffect
<1>13. CASE AwsDissolves(c)
  BY <1>13, NetRefusedEffect, SetsHostEffect DEF AwsDissolves
<1> QED
  BY <1>1, <1>2, <1>3, <1>4, <1>5, <1>6, <1>7, <1>8, <1>9, <1>10, <1>11, <1>12, <1>13 DEF AwsNetCall

LEMMA NetCallKinds ==
    ASSUME NEW c, FwCloud, NetworkCall(c)
    PROVE  \/ FindNetwork(c) \/ FindSubnet(c) \/ FindGroup(c) \/ FindAddress(c)
           \/ ReadGroup(c) \/ PickRule(c) \/ Replace(c) \/ NetCallIgnored(c)
           \/ InmemNetCall(c) \/ K8sNetCall(c) \/ AwsNetCall(c)
BY DEF FwCloud, NetworkCall, InmemNetCall, K8sNetCall, AwsNetCall

LEMMA NetCallEffect ==
    ASSUME NEW c, req[c] = NetReqRec(req[c]), GroupInv, FwCloud, NetworkCall(c)
    PROVE  NetEffect(c)
<1>1. NetCallIgnored(c) => NetEffect(c)
  BY NetRefusedEffect DEF NetCallIgnored
<1> QED
  BY <1>1, NetCallKinds, FindsEffect, PicksEffect, InmemNetEffect, K8sNetEffect, AwsNetEffect

\* The requests.
LEMMA NetRequestsBegin ==
    ASSUME NEW c, NetworkRequests(c) \/ AddressRequests(c) \/ FirewallRequests(c) \/ GroupRequests(c)
    PROVE  \E op, want, calls : Requested(c, op, want, calls)
<1>1. CASE NetworkRequests(c)
  BY <1>1 DEF NetworkRequests, CreateVpc, DeleteVpc, CreateSubnet, DeleteSubnet, insertNetwork, deleteNetwork,
     insertSubnetwork, deleteSubnetwork, createOrUpdateVNet, deleteVNet, createOrUpdateSubnet, deleteVNetSubnet,
     AsksNetwork
<1>2. CASE AddressRequests(c)
  BY <1>2 DEF AddressRequests, AllocateAddress, ReleaseAddress, AssociateAddress, DisassociateAddress,
     AddressCall, insertAddress, deleteAddress, createOrUpdatePublicIP, deletePublicIP, AsksNetwork
<1>3. CASE FirewallRequests(c)
  BY <1>3 DEF FirewallRequests, AuthorizeSecurityGroupIngress, RevokeSecurityGroupIngress, insertFirewall,
     deleteFirewall, patchFirewall, AsksNetwork, AsksFirewall
<1>4. CASE GroupRequests(c)
  BY <1>4 DEF GroupRequests, CreateSecurityGroup, DeleteSecurityGroup, AuthorizeSecurityGroupEgress,
     RevokeSecurityGroupEgress, createOrUpdateNSG, deleteNSG, createOrUpdateSecurityRule, deleteSecurityRule,
     AsksNetwork
<1> QED
  BY <1>1, <1>2, <1>3, <1>4

-----------------------------------------------------------------------------
(* Network: an undisturbed firewall request *)

\* What the call x has that a lookup or a create may fill in, and what it leaves.
CallShape(x) == "do" \in DOMAIN x /\ "mode" \in DOMAIN x /\ "of" \in DOMAIN x /\ "rule" \in DOMAIN x
\* What a body asks for, as the frontend reads it and as the backend b keeps it.
BodyShape(w) == IsList(w[1]) /\ IsList(w[2]) /\ \A i \in 1..Len(w[1]) : IsList(w[1][i].ports)
BodyRules(w) == Members(FirewallBody(w[1], w[2]))
FiledAll(b, S) == {Filed(b, x) : x \in S}
LEMMA FiledAllIs ==
    ASSUME NEW b, NEW x, NEW S
    PROVE  FiledAll(b, {}) = {} /\ FiledAll(b, {x} \cup S) = {Filed(b, x)} \cup FiledAll(b, S)
BY DEF FiledAll

RulesFrom(t, n) == {t[i].rule : i \in n..Len(t)}
AddsFrom(t, n, want) == (\A i \in n..Len(t) : t[i].do = "AddRule") /\ RulesFrom(t, n) = want
\* Before the group is known, or its rules are.
FwStart(r) ==
    /\ r.clean = TRUE
    /\ \A i \in 1..Len(r.todo) : CallShape(r.todo[i])
    /\ \/ /\ r.todo[1].do = "FindNetwork" /\ r.todo[1].mode = "opt"
          /\ Len(r.todo) >= 2 /\ r.todo[2].do = "CreateGroup" /\ AddsFrom(r.todo, 3, BodyRules(r.want))
       \/ r.todo[1].do = "CreateGroup" /\ AddsFrom(r.todo, 2, BodyRules(r.want))
       \/ /\ r.todo[1].do = "FindGroup" /\ r.todo[1].mode = "must"
          /\ Len(r.todo) >= 2 /\ r.todo[2].do = "Replace" /\ AddsFrom(r.todo, 3, BodyRules(r.want))
       \/ /\ r.todo[1].do = "Replace" /\ AddsFrom(r.todo, 2, BodyRules(r.want))
          /\ \A i \in 1..Len(r.todo) : r.todo[i].of = r.todo[1].of
Removals == {"RemoveRule", "UpdateRemoving"}
Additions == {"AddRule", "UpdateAdding"}
\* The first k calls take away what is left of the old rules, the others add the new ones.
FwLeft(t, k, want, b, G) ==
    /\ \A i \in 1..Len(t) : t[i].of = t[1].of /\ t[i].do \in (IF i <= k THEN Removals ELSE Additions)
    /\ \A g \in G : g.id = t[1].of =>
         IF k = 0 THEN Members(g.rules) \cup FiledAll(b, RulesFrom(t, 1)) = FiledAll(b, want)
         ELSE /\ RulesFrom(t, k + 1) = want
              /\ IF b = "k8s" THEN Len(g.rules) = k /\ \A i \in 1..k : g.rules[i] = t[i].rule
                 ELSE \A x \in Members(g.rules) : \E i \in 1..k : x = t[i].rule
FwEdit(r, b, G) ==
    /\ r.clean \in BOOLEAN
    /\ \A i \in 1..Len(r.todo) : r.todo[i].do \in Removals \cup Additions
    /\ r.clean = TRUE => \E k \in 0..Len(r.todo) : FwLeft(r.todo, k, BodyRules(r.want), b, G)
FwWay(r, b, G) == BodyShape(r.want) /\ IsList(r.todo) /\ r.todo # <<>> /\ (FwStart(r) \/ FwEdit(r, b, G))
AnswerHolds(b, a, G) ==
    a # None => /\ BodyShape(a.want)
                /\ \A g \in G : g.id = a.of => Members(g.rules) = FiledAll(b, BodyRules(a.want))

NetSolo ==
    \A c \in Clients : alone = c =>
        /\ \A d \in Clients \ {c} : req[d] = Idle
        /\ req[c].op = "firewall" => FwWay(req[c], backend, groups)
FwInv == FwCloud => GroupInv /\ NetReqs /\ NetSolo /\ AnswerHolds(backend, answer, groups)

LEMMA LeftTail ==
    ASSUME NEW t, IsList(t), t # <<>>, NEW n \in 1..Len(t)
    PROVE  RulesFrom(Tail(t), n) = RulesFrom(t, n + 1)
<1>1. Len(t) \in Nat \ {0} /\ Len(Tail(t)) = Len(t) - 1 /\ \A i \in 1..(Len(t) - 1) : Tail(t)[i] = t[i + 1]
  BY ListTail
<1>2. ASSUME NEW i \in n..(Len(t) - 1) PROVE i + 1 \in (n + 1)..Len(t) /\ Tail(t)[i] = t[i + 1]
  BY <1>1
<1>3. ASSUME NEW i \in (n + 1)..Len(t) PROVE i - 1 \in n..(Len(t) - 1) /\ Tail(t)[i - 1] = t[i]
  <2>1. i - 1 \in 1..(Len(t) - 1) /\ i - 1 + 1 = i /\ i - 1 \in n..(Len(t) - 1)
    BY <1>1
  <2> QED
    BY <1>1, <2>1
<1>4. RulesFrom(Tail(t), n) = {Tail(t)[i].rule : i \in n..(Len(t) - 1)}
  BY <1>1 DEF RulesFrom
<1>5. \A x \in RulesFrom(Tail(t), n) : x \in RulesFrom(t, n + 1)
  <2> TAKE x \in RulesFrom(Tail(t), n)
  <2>1. PICK i \in n..(Len(t) - 1) : x = Tail(t)[i].rule
    BY <1>4
  <2>2. i + 1 \in (n + 1)..Len(t) /\ x = t[i + 1].rule
    BY <1>2, <2>1
  <2> QED
    BY <2>2, Zenon DEF RulesFrom
<1>6. \A x \in RulesFrom(t, n + 1) : x \in RulesFrom(Tail(t), n)
  <2> TAKE x \in RulesFrom(t, n + 1)
  <2>1. PICK i \in (n + 1)..Len(t) : x = t[i].rule
    BY Zenon DEF RulesFrom
  <2>2. i - 1 \in n..(Len(t) - 1) /\ x = Tail(t)[i - 1].rule
    BY <1>3, <2>1
  <2> QED
    BY <1>4, <2>2
<1> QED
  BY <1>5, <1>6, Zenon

\* The group g of G now has these rules.
Replaced(G, g, rules, H) ==
    /\ g \in G
    /\ \E h : h.id = g.id /\ h.rules = rules /\ \A x : x \in H <=> (x \in G /\ x.id # g.id) \/ x = h

LEMMA LeftTaken ==
    ASSUME NEW t, IsList(t), t # <<>>, NEW k \in 1..Len(t), NEW want, NEW G, NEW g, NEW rules, NEW H,
           FwLeft(t, k, want, backend, G), g \in G, g.id = t[1].of, RuleList(g.rules), RuleList(rules),
           Taken(g.rules, rules, t[1].rule), Replaced(G, g, rules, H)
    PROVE  IF Tail(t) = <<>> THEN \A x \in H : x.id = t[1].of => Members(x.rules) = FiledAll(backend, want)
           ELSE FwLeft(Tail(t), k - 1, want, backend, H)
<1> DEFINE u == Tail(t)
<1>1. Len(t) \in Nat \ {0} /\ Len(u) = Len(t) - 1 /\ \A i \in 1..(Len(t) - 1) : u[i] = t[i + 1]
  BY ListTail
<1>2. \A x \in H : x.id = t[1].of => x.rules = rules
  BY DEF Replaced
<1>3. RulesFrom(t, k + 1) = want /\ k \in Nat /\ k >= 1
  BY <1>1 DEF FwLeft
<1>4. ASSUME k = 1 PROVE Members(rules) = {}
  <2>1. CASE backend = "k8s"
    <3>1. Len(g.rules) = 1 /\ g.rules[1] = t[1].rule
      BY <1>4, <2>1 DEF FwLeft
    <3>2. g.rules # <<>> /\ MatchesDomain(g.rules[1], t[1].rule)
      <4>1. IsList(g.rules) /\ g.rules[1] \in Members(g.rules)
        BY <3>1, ListFacts DEF RuleList
      <4> QED
        BY <2>1, <3>1, <4>1 DEF RuleList
    <3>3. Len(rules) = 0
      BY <2>1, <3>1, <3>2 DEF Taken
    <3> QED
      BY <3>3, ListFacts DEF RuleList
  <2>2. CASE backend # "k8s"
    <3>0. \A x \in Members(g.rules) : \E i \in 1..k : x = t[i].rule
      <4>1. k # 0
        BY <1>4
      <4> QED
        BY <2>2, <4>1 DEF FwLeft
    <3>1. \A x \in Members(g.rules) : x = t[1].rule
      <4>1. \A i \in 1..k : i = 1
        BY <1>4
      <4> QED
        BY <3>0, <4>1
    <3> QED
      BY <2>2, <3>1 DEF Taken
  <2> QED
    BY <2>1, <2>2
<1>5. CASE u = <<>>
  <2>1. Len(t) = 1 /\ k = 1
    <3>1. Len(u) = 0
      BY <1>5, ListTail, ListFacts
    <3> HIDE DEF u
    <3>2. Len(t) = 1
      BY <1>1, <3>1
    <3>3. k \in 1..1
      BY <3>2
    <3> QED
      BY <3>2, <3>3
  <2>2. want = {} /\ FiledAll(backend, want) = {}
    <3>1. want = {}
      BY <1>3, <2>1 DEF RulesFrom
    <3> QED
      BY <3>1, FiledAllIs
  <2> QED
    BY <1>2, <1>4, <1>5, <2>1, <2>2
<1>6. CASE u # <<>>
  <2>0. Len(u) >= 1 /\ 1 \in 1..(Len(t) - 1) /\ u[1] = t[2] /\ 2 \in 1..Len(t)
    <3>1. IsList(u)
      BY ListTail
    <3>2. Len(u) # 0
      BY <1>6, <3>1, ListFacts
    <3> QED
      BY <1>1, <3>2
  <2>1. \A i \in 1..Len(u) : u[i].of = u[1].of /\ u[i].do \in (IF i <= k - 1 THEN Removals ELSE Additions)
    <3> SUFFICES ASSUME NEW i \in 1..Len(u)
                 PROVE  u[i].of = u[1].of /\ u[i].do \in (IF i <= k - 1 THEN Removals ELSE Additions)
      OBVIOUS
    <3>1. i + 1 \in 1..Len(t) /\ u[i] = t[i + 1] /\ (i + 1 <= k <=> i <= k - 1)
      BY <1>1, <1>3
    <3> QED
      BY <2>0, <3>1 DEF FwLeft
  <2>2. u[1].of = t[1].of
    BY <2>0 DEF FwLeft
  <2> SUFFICES ASSUME NEW x \in H, x.id = u[1].of
               PROVE  IF k - 1 = 0 THEN Members(x.rules) \cup FiledAll(backend, RulesFrom(u, 1)) = FiledAll(backend, want)
                      ELSE /\ RulesFrom(u, k - 1 + 1) = want
                           /\ IF backend = "k8s" THEN Len(x.rules) = k - 1 /\ \A i \in 1..(k - 1) : x.rules[i] = u[i].rule
                              ELSE \A y \in Members(x.rules) : \E i \in 1..(k - 1) : y = u[i].rule
    BY <1>6, <2>1 DEF FwLeft
  <2>3. x.rules = rules
    BY <1>2, <2>2
  <2>4. CASE k = 1
    <3>1. RulesFrom(u, 1) = RulesFrom(t, 1 + 1)
      BY <1>1, LeftTail
    <3> QED
      BY <1>3, <1>4, <2>3, <2>4, <3>1
  <2>5. CASE k # 1
    <3>1. k - 1 \in 1..Len(t) /\ k - 1 + 1 = k /\ k - 1 # 0
      BY <1>1, <1>3, <2>5
    <3>2. RulesFrom(u, k) = RulesFrom(t, k + 1)
      BY LeftTail
    <3>3. CASE backend = "k8s"
      <4>1. Len(g.rules) = k /\ \A i \in 1..k : g.rules[i] = t[i].rule
        BY <1>3, <3>3 DEF FwLeft
      <4>2. g.rules # <<>> /\ MatchesDomain(g.rules[1], t[1].rule)
        <5>1. 1 \in 1..k /\ k # 0
          BY <1>3
        <5>2. IsList(g.rules) /\ g.rules # <<>> /\ g.rules[1] \in Members(g.rules)
          BY <4>1, <5>1, ListFacts DEF RuleList
        <5> QED
          BY <3>3, <4>1, <5>1, <5>2 DEF RuleList
      <4>3. Len(rules) = k - 1 /\ \A i \in 1..(k - 1) : rules[i] = g.rules[i + 1]
        BY <3>3, <4>1, <4>2 DEF Taken
      <4>4. ASSUME NEW i \in 1..(k - 1) PROVE rules[i] = u[i].rule
        <5>1. i + 1 \in 1..k /\ i \in 1..(Len(t) - 1)
          BY <1>1, <1>3
        <5> QED
          BY <1>1, <4>1, <4>3, <5>1
      <4> QED
        BY <1>3, <2>3, <3>1, <3>2, <3>3, <4>3, <4>4
    <3>4. CASE backend # "k8s"
      <4>1. ASSUME NEW y \in Members(rules) PROVE \E i \in 1..(k - 1) : y = u[i].rule
        <5>1. y \in Members(g.rules) /\ y # t[1].rule
          BY <3>4 DEF Taken
        <5>a. k # 0
          BY <1>3
        <5>b. \A z \in Members(g.rules) : \E i \in 1..k : z = t[i].rule
          BY <3>4, <5>a DEF FwLeft
        <5>2. PICK j \in 1..k : y = t[j].rule
          BY <5>1, <5>b
        <5>3. j - 1 \in 1..(k - 1) /\ j - 1 \in 1..(Len(t) - 1) /\ j - 1 + 1 = j
          BY <1>1, <1>3, <5>1, <5>2
        <5>4. u[j - 1] = t[j]
          BY <1>1, <5>3
        <5> QED
          BY <5>2, <5>3, <5>4
      <4> QED
        BY <1>3, <2>3, <3>1, <3>2, <3>4, <4>1
    <3> QED
      BY <3>3, <3>4
  <2> QED
    BY <2>4, <2>5
<1> QED
  BY <1>5, <1>6

LEMMA LeftAdded ==
    ASSUME NEW t, IsList(t), t # <<>>, NEW want, NEW G, NEW g, NEW rules, NEW H,
           FwLeft(t, 0, want, backend, G), g \in G, g.id = t[1].of,
           Members(rules) = Members(g.rules) \cup {Filed(backend, t[1].rule)}, Replaced(G, g, rules, H)
    PROVE  IF Tail(t) = <<>> THEN \A x \in H : x.id = t[1].of => Members(x.rules) = FiledAll(backend, want)
           ELSE FwLeft(Tail(t), 0, want, backend, H)
<1> DEFINE u == Tail(t)
           added == FiledAll(backend, RulesFrom(t, 2))
<1>1. Len(t) \in Nat \ {0} /\ Len(u) = Len(t) - 1 /\ \A i \in 1..(Len(t) - 1) : u[i] = t[i + 1]
  BY ListTail
<1>3. \A x \in H : x.id = t[1].of => x.rules = rules
  BY DEF Replaced
<1>4. Members(g.rules) \cup FiledAll(backend, RulesFrom(t, 1)) = FiledAll(backend, want)
  BY DEF FwLeft
<1>a. RulesFrom(t, 1) = {t[1].rule} \cup RulesFrom(t, 2)
  <2>1. \A i \in 1..Len(t) : i = 1 \/ i \in 2..Len(t)
    BY <1>1
  <2>2. 1 \in 1..Len(t) /\ \A i \in 2..Len(t) : i \in 1..Len(t)
    BY <1>1
  <2> QED
    BY <2>1, <2>2 DEF RulesFrom
<1>5. Members(rules) \cup added = FiledAll(backend, want)
  <2>1. FiledAll(backend, RulesFrom(t, 1)) = {Filed(backend, t[1].rule)} \cup added
    BY <1>a, FiledAllIs
  <2> HIDE DEF added
  <2> QED
    BY <1>4, <2>1
<1>6. CASE u = <<>>
  <2>1. Len(t) = 1
    <3>1. Len(u) = 0
      BY <1>6, ListTail, ListFacts
    <3> HIDE DEF u
    <3> QED
      BY <1>1, <3>1
  <2>2. added = {}
    <3>1. RulesFrom(t, 2) = {}
      BY <2>1 DEF RulesFrom
    <3> QED
      BY <3>1, FiledAllIs
  <2> QED
    BY <1>3, <1>5, <1>6, <2>2
<1>7. CASE u # <<>>
  <2>0. 1 \in 1..(Len(t) - 1) /\ u[1] = t[2] /\ 2 \in 1..Len(t)
    <3>1. IsList(u)
      BY ListTail
    <3>2. Len(u) # 0
      BY <1>7, <3>1, ListFacts
    <3> QED
      BY <1>1, <3>2
  <2>1. ASSUME NEW i \in 1..Len(u)
        PROVE  u[i].of = u[1].of /\ u[i].do \in (IF i <= 0 THEN Removals ELSE Additions)
    <3>1. i + 1 \in 1..Len(t) /\ u[i] = t[i + 1] /\ ~(i + 1 <= 0) /\ ~(i <= 0)
      BY <1>1
    <3> QED
      BY <2>0, <3>1 DEF FwLeft
  <2>2. u[1].of = t[1].of
    BY <2>0 DEF FwLeft
  <2>3. RulesFrom(u, 1) = RulesFrom(t, 1 + 1)
    BY <1>1, LeftTail
  <2>4. ASSUME NEW x \in H, x.id = u[1].of
        PROVE  Members(x.rules) \cup FiledAll(backend, RulesFrom(u, 1)) = FiledAll(backend, want)
    <3>1. x.rules = rules
      BY <1>3, <2>2, <2>4
    <3>2. FiledAll(backend, RulesFrom(u, 1)) = added
      BY <2>3
    <3> QED
      BY <1>5, <3>1, <3>2
  <2> QED
    BY <1>7, <2>1, <2>4 DEF FwLeft
<1> QED
  BY <1>6, <1>7

LEMMA ReplacedIs ==
    ASSUME GroupInv, FwCloud, NEW g, NEW rules, GroupChanged(g, rules)
    PROVE  Replaced(groups, g, rules, groups') /\ RuleList(g.rules)
<1> DEFINE h == [g EXCEPT !.rules = rules, !.ranges = <<>>]
<1>1. g \in groups /\ RuleList(g.rules)
  BY DEF GroupChanged, GroupInv, GroupsShaped
<1>2. h.id = g.id /\ h.rules = rules
  BY <1>1, RulesSet DEF GroupInv, GroupsShaped
<1>3. groups' = (groups \ GroupById(g.id)) \cup {h}
  BY DEF GroupChanged
<1> HIDE DEF h
<1>4. \A x : x \in groups' <=> (x \in groups /\ x.id # g.id) \/ x = h
  BY <1>3 DEF GroupById
<1> QED
  BY <1>1, <1>2, <1>4 DEF Replaced

FwKept == NetReqs' /\ NetSolo' /\ AnswerHolds(backend', answer', groups')

LEMMA FwGoing ==
    ASSUME NetReqs, NetSolo, NEW c \in Clients, req[c] # Idle, NEW r, Goes(c, r), r = NetReqRec(r),
           alone = c /\ r.op = "firewall" => FwWay(r, backend, groups')
    PROVE  FwKept
<1>1. req' = [req EXCEPT ![c] = r] /\ answer' = None /\ alone' = alone /\ backend' = backend
  BY DEF Goes
<1>2. req'[c] = r /\ \A d \in Clients \ {c} : req'[d] = req[d]
  BY <1>1 DEF NetReqs
<1>3. NetReqs'
  BY <1>1, <1>2 DEF NetReqs
<1>4. NetSolo'
  BY <1>1, <1>2 DEF NetSolo
<1>5. AnswerHolds(backend', answer', groups')
  BY <1>1 DEF AnswerHolds
<1> QED
  BY <1>3, <1>4, <1>5 DEF FwKept

LEMMA FwEnding ==
    ASSUME NetReqs, NEW c \in Clients, NEW says, Ends(c, says), alone = c => AnswerHolds(backend, says, groups')
    PROVE  FwKept
<1>1. req' = [req EXCEPT ![c] = Idle] /\ alone' = None /\ answer' = (IF alone = c THEN says ELSE None)
      /\ backend' = backend
  BY DEF Ends
<1>2. req'[c] = Idle /\ \A d \in Clients \ {c} : req'[d] = req[d]
  BY <1>1 DEF NetReqs
<1>3. NetReqs'
  BY <1>1, <1>2 DEF NetReqs
<1>4. NetSolo'
  BY <1>1, NoneIsNoClient DEF NetSolo
<1>5. AnswerHolds(backend', answer', groups')
  BY <1>1 DEF AnswerHolds
<1> QED
  BY <1>3, <1>4, <1>5 DEF FwKept

LEMMA FwBeginning ==
    ASSUME NetReqs, NetSolo, NEW c \in Clients, NEW r, Begin(c, r), r = NetReqRec(r), groups' = groups,
           r.op = "firewall" => FwWay(r, backend, groups)
    PROVE  FwKept
<1>1. req' = [req EXCEPT ![c] = r] /\ answer' = None /\ backend' = backend
      /\ alone' = IF Running(c) = {} THEN c ELSE None
  BY DEF Begin
<1>2. req'[c] = r /\ \A d \in Clients \ {c} : req'[d] = req[d]
  BY <1>1 DEF NetReqs
<1>3. NetReqs'
  BY <1>1, <1>2 DEF NetReqs
<1>4. NetSolo'
  BY <1>1, <1>2, NoneIsNoClient DEF NetSolo, Running
<1>5. AnswerHolds(backend', answer', groups')
  BY <1>1 DEF AnswerHolds
<1> QED
  BY <1>3, <1>4, <1>5 DEF FwKept

\* Any other request, whatever it does.
LEMMA FwElse ==
    ASSUME NetReqs, NetSolo, NEW c \in Clients, req[c] # Idle, NetStep(c), ~(alone = c /\ req[c].op = "firewall")
    PROVE  FwKept
<1>1. CASE \E r : Goes(c, r) /\ r = NetReqRec(r) /\ r.op = req[c].op
  BY <1>1, FwGoing
<1>2. CASE \E says : Ends(c, says) /\ (req[c].op # "firewall" => says = None)
  <2>1. PICK says : Ends(c, says) /\ (req[c].op # "firewall" => says = None)
    BY <1>2
  <2>2. alone = c => AnswerHolds(backend, says, groups')
    BY <2>1 DEF AnswerHolds
  <2> QED
    BY <2>1, <2>2, FwEnding
<1> QED
  BY <1>1, <1>2 DEF NetStep

FwHere(c) ==
    /\ FwCloud /\ GroupInv /\ NetReqs /\ NetSolo
    /\ c \in Clients /\ alone = c /\ req[c] # Idle /\ req[c].op = "firewall"

LEMMA FwHereIs ==
    ASSUME NEW c, FwHere(c)
    PROVE  /\ req[c] = NetReqRec(req[c]) /\ FwWay(req[c], backend, groups)
           /\ IsList(req[c].todo) /\ req[c].todo # <<>> /\ Now(c) = req[c].todo[1]
           /\ Len(req[c].todo) \in Nat \ {0} /\ 1 \in 1..Len(req[c].todo) /\ BodyShape(req[c].want)
<1>1. req[c] = NetReqRec(req[c]) /\ FwWay(req[c], backend, groups)
  BY DEF FwHere, NetReqs, NetSolo
<1>2. IsList(req[c].todo) /\ req[c].todo # <<>> /\ BodyShape(req[c].want)
  BY <1>1 DEF FwWay
<1>3. Head(req[c].todo) = req[c].todo[1] /\ Len(req[c].todo) \in Nat \ {0}
  BY <1>2, ListTail
<1> QED
  BY <1>1, <1>2, <1>3 DEF Now

LEMMA FwContinuing ==
    ASSUME NEW c, FwHere(c), NEW t, NEW b \in BOOLEAN, NetContinues(c, t, b),
           t = <<>> /\ b = TRUE => \A g \in groups' : g.id = Now(c).of => Members(g.rules) = FiledAll(backend, BodyRules(req[c].want)),
           t # <<>> => \A r : r.todo = t /\ r.clean = b /\ r.want = req[c].want => FwWay(r, backend, groups')
    PROVE  FwKept
<1>0. NetReqs /\ NetSolo /\ c \in Clients /\ req[c] # Idle /\ req[c] = NetReqRec(req[c])
  BY FwHereIs DEF FwHere
<1>1. CASE t = <<>>
  <2> DEFINE says == NetSays(c, Now(c).of, b)
  <2>1. Ends(c, says)
    BY <1>1 DEF NetContinues
  <2>2. AnswerHolds(backend, says, groups')
    <3>1. CASE b = TRUE
      <4>1. says = [of |-> Now(c).of, want |-> req[c].want]
        BY <3>1 DEF NetSays, FwHere
      <4>2. says.of = Now(c).of /\ says.want = req[c].want
        BY <4>1
      <4>3. BodyShape(req[c].want)
        BY FwHereIs
      <4> HIDE DEF says
      <4> QED
        BY <1>1, <3>1, <4>2, <4>3 DEF AnswerHolds
    <3>2. CASE b = FALSE
      BY <3>2 DEF NetSays, AnswerHolds
    <3> QED
      BY <3>1, <3>2
  <2> HIDE DEF says
  <2> QED
    BY <1>0, <2>1, <2>2, FwEnding
<1>2. CASE t # <<>>
  <2> DEFINE r == Continued(req[c], t, b)
  <2>1. Goes(c, r)
    BY <1>2 DEF NetContinues, Continued
  <2>2. r = NetReqRec(r) /\ r = [op |-> req[c].op, todo |-> t, clean |-> b, want |-> req[c].want]
    BY <1>0, TodoCleanSet
  <2> HIDE DEF r
  <2>3. r.todo = t /\ r.clean = b /\ r.want = req[c].want
    BY <2>2
  <2>4. FwWay(r, backend, groups')
    BY <1>2, <2>3
  <2> QED
    BY <1>0, <2>1, <2>2, <2>4, FwGoing
<1> QED
  BY <1>1, <1>2

\* The rest of a list of changes is one.
EditsFrom(t, n) == \A i \in n..Len(t) : t[i].do \in Removals \cup Additions
LEMMA EditsTail ==
    ASSUME NEW t, IsList(t), t # <<>>, EditsFrom(t, 2)
    PROVE  EditsFrom(Tail(t), 1)
<1>1. Len(t) \in Nat \ {0} /\ Len(Tail(t)) = Len(t) - 1 /\ \A i \in 1..(Len(t) - 1) : Tail(t)[i] = t[i + 1]
  BY ListTail
<1>2. ASSUME NEW i \in 1..(Len(t) - 1) PROVE i + 1 \in 2..Len(t) /\ Tail(t)[i] = t[i + 1]
  BY <1>1
<1> QED
  BY <1>1, <1>2 DEF EditsFrom

LEMMA FwSpoilt ==
    ASSUME NEW c, FwHere(c), EditsFrom(req[c].todo, 2), NetContinues(c, Tail(req[c].todo), FALSE)
    PROVE  FwKept
<1> DEFINE t == Tail(req[c].todo)
<1>1. IsList(t) /\ EditsFrom(t, 1)
  BY FwHereIs, ListTail, EditsTail
<1> HIDE DEF t
<1>2. ASSUME t # <<>>, NEW r, r.todo = t, r.clean = FALSE, r.want = req[c].want PROVE FwWay(r, backend, groups')
  <2>1. FwEdit(r, backend, groups')
    BY <1>1, <1>2 DEF FwEdit, EditsFrom
  <2>2. BodyShape(r.want)
    BY <1>2, FwHereIs
  <2> QED
    BY <1>1, <1>2, <2>1, <2>2 DEF FwWay
<1>3. NetContinues(c, t, FALSE)
  BY DEF t
<1> QED
  BY <1>2, <1>3, FwContinuing

LEMMA FwRefused ==
    ASSUME NEW c, FwHere(c), NetRefused(c), EditsFrom(req[c].todo, 2) \/ Now(c).mode # "may"
    PROVE  FwKept
<1>1. CASE Now(c).mode = "may"
  BY <1>1, FwSpoilt DEF NetRefused
<1>2. CASE Now(c).mode # "may"
  <2>1. Ends(c, None)
    BY <1>2 DEF NetRefused, Fails
  <2> QED
    BY <2>1, FwEnding DEF FwHere, AnswerHolds
<1> QED
  BY <1>1, <1>2

\* Which calls an undisturbed firewall request makes, and what follows them.
LEMMA FwCallIs ==
    ASSUME NEW c, FwHere(c)
    PROVE  /\ Now(c).do \in {"FindNetwork", "FindGroup", "CreateGroup", "Replace"} \cup Removals \cup Additions
           /\ Now(c).do \in {"FindNetwork", "FindGroup"} => Now(c).mode # "may"
           /\ Now(c).do \notin {"FindNetwork", "FindGroup"} => EditsFrom(req[c].todo, 2)
           /\ Now(c).do \in {"FindNetwork", "FindGroup", "CreateGroup", "Replace"} => FwStart(req[c])
           /\ Now(c).do \in Removals \cup Additions => FwEdit(req[c], backend, groups)
<1> DEFINE r == req[c]
<1>1. Now(c) = r.todo[1] /\ Len(r.todo) \in Nat \ {0} /\ 1 \in 1..Len(r.todo) /\ (FwStart(r) \/ FwEdit(r, backend, groups))
  BY FwHereIs DEF FwWay
<1>0. \A i \in 2..Len(r.todo) : i \in 1..Len(r.todo)
  BY <1>1
<1> HIDE DEF r
<1>2. CASE FwStart(r)
  <2>1. Now(c).do \in {"FindNetwork", "FindGroup", "CreateGroup", "Replace"}
    BY <1>1, <1>2 DEF FwStart
  <2>2. Now(c).do \in {"FindNetwork", "FindGroup"} => Now(c).mode # "may"
    BY <1>1, <1>2 DEF FwStart
  <2>3. Now(c).do \notin {"FindNetwork", "FindGroup"} => EditsFrom(r.todo, 2)
    BY <1>1, <1>2, <2>1 DEF FwStart, AddsFrom, EditsFrom, Additions
  <2>4. Now(c).do \notin Removals \cup Additions
    BY <2>1 DEF Removals, Additions
  <2> QED
    BY <1>2, <2>1, <2>2, <2>3, <2>4 DEF r
<1>3. CASE FwEdit(r, backend, groups)
  <2>1. Now(c).do \in Removals \cup Additions /\ EditsFrom(r.todo, 2)
    BY <1>0, <1>1, <1>3 DEF FwEdit, EditsFrom
  <2>2. Now(c).do \notin {"FindNetwork", "FindGroup", "CreateGroup", "Replace"}
    BY <2>1 DEF Removals, Additions
  <2> QED
    BY <1>3, <2>1, <2>2 DEF r
<1> QED
  BY <1>1, <1>2, <1>3

LEMMA FwAdding ==
    ASSUME NEW c, FwHere(c), Adding(c), Now(c).do \in Additions
    PROVE  FwKept
<1> DEFINE r == req[c]
           t == r.todo
<1>1. /\ IsList(t) /\ t # <<>> /\ Now(c) = t[1] /\ Len(t) \in Nat \ {0} /\ 1 \in 1..Len(t)
      /\ FwEdit(r, backend, groups) /\ r.clean \in BOOLEAN /\ EditsFrom(t, 2)
  BY FwHereIs, FwCallIs DEF FwEdit, Additions
<1>2. PICK g \in GroupById(Now(c).of) : \E rules :
         /\ GroupChanged(g, rules)
         /\ Members(rules) = Members(g.rules) \cup {Filed(backend, Now(c).rule)}
         /\ NetDone(c)
  BY DEF Adding
<1>a. PICK rules : /\ GroupChanged(g, rules)
                   /\ Members(rules) = Members(g.rules) \cup {Filed(backend, Now(c).rule)}
                   /\ NetDone(c)
  BY <1>2
<1>3. g \in groups /\ g.id = t[1].of
  BY <1>1, <1>2 DEF GroupById
<1>4. Replaced(groups, g, rules, groups') /\ Members(rules) = Members(g.rules) \cup {Filed(backend, t[1].rule)}
  BY <1>1, <1>a, ReplacedIs DEF FwHere
<1>5. NetContinues(c, Tail(t), r.clean)
  BY <1>a DEF NetDone
<1>6. CASE r.clean = FALSE
  BY <1>1, <1>5, <1>6, FwSpoilt
<1>7. CASE r.clean = TRUE
  <2>1. PICK k \in 0..Len(t) : FwLeft(t, k, BodyRules(r.want), backend, groups)
    BY <1>1, <1>7 DEF FwEdit
  <2>2. k = 0
    <3>1. t[1].do \in (IF 1 <= k THEN Removals ELSE Additions)
      BY <1>1, <2>1 DEF FwLeft
    <3>2. t[1].do \notin Removals
      BY <1>1 DEF Removals, Additions
    <3> QED
      BY <1>1, <3>1, <3>2
  <2>3. IF Tail(t) = <<>> THEN \A x \in groups' : x.id = t[1].of => Members(x.rules) = FiledAll(backend, BodyRules(r.want))
        ELSE FwLeft(Tail(t), 0, BodyRules(r.want), backend, groups')
    BY <1>1, <1>3, <1>4, <2>1, <2>2, LeftAdded
  <2>4. IsList(Tail(t)) /\ EditsFrom(Tail(t), 1) /\ 0 \in 0..Len(Tail(t))
    <3>1. IsList(Tail(t)) /\ Len(Tail(t)) \in Nat
      BY <1>1, ListTail, ListFacts
    <3> QED
      BY <1>1, <3>1, EditsTail
  <2>5. ASSUME Tail(t) # <<>>, NEW q, q.todo = Tail(t), q.clean = TRUE, q.want = r.want
        PROVE  FwWay(q, backend, groups')
    <3>1. FwEdit(q, backend, groups')
      BY <2>3, <2>4, <2>5 DEF FwEdit, EditsFrom
    <3>2. BodyShape(q.want)
      BY <2>5, FwHereIs
    <3> QED
      BY <2>4, <2>5, <3>1, <3>2 DEF FwWay
  <2> QED
    BY <1>1, <1>5, <1>7, <2>3, <2>5, FwContinuing
<1> QED
  BY <1>1, <1>6, <1>7

LEMMA FwTaking ==
    ASSUME NEW c, FwHere(c), Taking(c), Now(c).do \in Removals
    PROVE  FwKept
<1> DEFINE r == req[c]
           t == r.todo
<1>1. /\ IsList(t) /\ t # <<>> /\ Now(c) = t[1] /\ Len(t) \in Nat \ {0} /\ 1 \in 1..Len(t)
      /\ FwEdit(r, backend, groups) /\ r.clean \in BOOLEAN /\ EditsFrom(t, 2)
  BY FwHereIs, FwCallIs DEF FwEdit, Removals
<1>2. PICK g \in GroupById(Now(c).of) : \E rules :
         GroupChanged(g, rules) /\ Taken(g.rules, rules, Now(c).rule) /\ NetDone(c)
  BY DEF Taking
<1>a. PICK rules : GroupChanged(g, rules) /\ Taken(g.rules, rules, Now(c).rule) /\ NetDone(c)
  BY <1>2
<1>3. g \in groups /\ g.id = t[1].of
  BY <1>1, <1>2 DEF GroupById
<1>4. Replaced(groups, g, rules, groups') /\ RuleList(g.rules) /\ RuleList(rules) /\ Taken(g.rules, rules, t[1].rule)
  BY <1>1, <1>a, ReplacedIs DEF FwHere, GroupChanged
<1>5. NetContinues(c, Tail(t), r.clean)
  BY <1>a DEF NetDone
<1>6. CASE r.clean = FALSE
  BY <1>1, <1>5, <1>6, FwSpoilt
<1>7. CASE r.clean = TRUE
  <2>1. PICK k \in 0..Len(t) : FwLeft(t, k, BodyRules(r.want), backend, groups)
    BY <1>1, <1>7 DEF FwEdit
  <2>2. k \in 1..Len(t)
    <3>1. t[1].do \in (IF 1 <= k THEN Removals ELSE Additions)
      BY <1>1, <2>1 DEF FwLeft
    <3>2. t[1].do \notin Additions
      BY <1>1 DEF Removals, Additions
    <3> QED
      BY <1>1, <3>1, <3>2
  <2>3. IF Tail(t) = <<>> THEN \A x \in groups' : x.id = t[1].of => Members(x.rules) = FiledAll(backend, BodyRules(r.want))
        ELSE FwLeft(Tail(t), k - 1, BodyRules(r.want), backend, groups')
    BY <1>1, <1>3, <1>4, <2>1, <2>2, LeftTaken
  <2>4. IsList(Tail(t)) /\ EditsFrom(Tail(t), 1) /\ k - 1 \in 0..Len(Tail(t))
    <3>1. IsList(Tail(t)) /\ Len(Tail(t)) = Len(t) - 1
      BY <1>1, ListTail
    <3>2. k - 1 \in 0..(Len(t) - 1)
      BY <1>1, <2>2
    <3> QED
      BY <1>1, <3>1, <3>2, EditsTail
  <2>5. ASSUME Tail(t) # <<>>, NEW q, q.todo = Tail(t), q.clean = TRUE, q.want = r.want
        PROVE  FwWay(q, backend, groups')
    <3>1. FwEdit(q, backend, groups')
      BY <2>3, <2>4, <2>5 DEF FwEdit, EditsFrom
    <3>2. BodyShape(q.want)
      BY <2>5, FwHereIs
    <3> QED
      BY <2>4, <2>5, <3>1, <3>2 DEF FwWay
  <2> QED
    BY <1>1, <1>5, <1>7, <2>3, <2>5, FwContinuing
<1> QED
  BY <1>1, <1>6, <1>7

\* The identifier that a lookup or a create fills in; the calls are the same ones.
FilledOf(s, id) == [i \in DOMAIN s |-> [s[i] EXCEPT !.of = id]]
FilledNet(s, id) == [i \in DOMAIN s |-> [s[i] EXCEPT !.net = id]]
SameCalls(u, s) ==
    /\ IsList(u) /\ Len(u) = Len(s)
    /\ \A i \in 1..Len(s) : /\ CallShape(u[i])
                            /\ u[i].do = s[i].do /\ u[i].mode = s[i].mode /\ u[i].rule = s[i].rule
LEMMA FilledOfIs ==
    ASSUME NEW s, IsList(s), \A i \in 1..Len(s) : CallShape(s[i]), NEW id
    PROVE  SameCalls(FilledOf(s, id), s) /\ \A i \in 1..Len(s) : FilledOf(s, id)[i].of = id
<1> DEFINE u == FilledOf(s, id)
<1>1. Len(s) \in Nat /\ DOMAIN s = 1..Len(s)
  BY ListFacts
<1>2. DOMAIN u = 1..Len(s) /\ \A i \in 1..Len(s) : u[i] = [s[i] EXCEPT !.of = id]
  BY <1>1 DEF FilledOf
<1>3. u = [i \in 1..Len(s) |-> u[i]]
  BY <1>1, <1>2 DEF FilledOf
<1> HIDE DEF u
<1>4. IsList(u) /\ Len(u) = Len(s)
  BY <1>1, <1>2, <1>3, ListMade
<1>5. ASSUME NEW i \in 1..Len(s)
      PROVE  CallShape(u[i]) /\ u[i].do = s[i].do /\ u[i].mode = s[i].mode /\ u[i].rule = s[i].rule /\ u[i].of = id
  <2>1. u[i] = [s[i] EXCEPT !.of = id] /\ CallShape(s[i])
    BY <1>2
  <2> QED
    BY <2>1 DEF CallShape
<1> QED
  BY <1>4, <1>5 DEF SameCalls, u

LEMMA FilledNetIs ==
    ASSUME NEW s, IsList(s), \A i \in 1..Len(s) : CallShape(s[i]), NEW id
    PROVE  SameCalls(FilledNet(s, id), s)
<1> DEFINE u == FilledNet(s, id)
<1>1. Len(s) \in Nat /\ DOMAIN s = 1..Len(s)
  BY ListFacts
<1>2. DOMAIN u = 1..Len(s) /\ \A i \in 1..Len(s) : u[i] = [s[i] EXCEPT !.net = id]
  BY <1>1 DEF FilledNet
<1>3. u = [i \in 1..Len(s) |-> u[i]]
  BY <1>1, <1>2 DEF FilledNet
<1> HIDE DEF u
<1>4. IsList(u) /\ Len(u) = Len(s)
  BY <1>1, <1>2, <1>3, ListMade
<1>5. ASSUME NEW i \in 1..Len(s)
      PROVE  CallShape(u[i]) /\ u[i].do = s[i].do /\ u[i].mode = s[i].mode /\ u[i].rule = s[i].rule
  <2>1. u[i] = [s[i] EXCEPT !.net = id] /\ CallShape(s[i])
    BY <1>2
  <2> QED
    BY <2>1 DEF CallShape
<1> QED
  BY <1>4, <1>5 DEF SameCalls, u

LEMMA SameAdds ==
    ASSUME NEW s, IsList(s), NEW u, SameCalls(u, s), NEW n \in Nat \ {0}, NEW want, AddsFrom(s, n, want)
    PROVE  AddsFrom(u, n, want)
<1>1. Len(s) \in Nat /\ Len(u) = Len(s) /\ \A i \in n..Len(s) : i \in 1..Len(s)
  BY ListFacts DEF SameCalls
<1>2. \A i \in n..Len(s) : u[i].do = s[i].do /\ u[i].rule = s[i].rule
  BY <1>1 DEF SameCalls
<1> QED
  BY <1>1, <1>2 DEF AddsFrom, RulesFrom

LEMMA TailAdds ==
    ASSUME NEW t, IsList(t), t # <<>>, NEW n \in 1..Len(t), NEW want, AddsFrom(t, n + 1, want)
    PROVE  AddsFrom(Tail(t), n, want)
<1>1. Len(t) \in Nat \ {0} /\ Len(Tail(t)) = Len(t) - 1 /\ \A i \in 1..(Len(t) - 1) : Tail(t)[i] = t[i + 1]
  BY ListTail
<1>2. ASSUME NEW i \in n..(Len(t) - 1) PROVE i + 1 \in (n + 1)..Len(t) /\ Tail(t)[i] = t[i + 1]
  BY <1>1
<1>3. RulesFrom(Tail(t), n) = want
  BY LeftTail DEF AddsFrom
<1> QED
  BY <1>1, <1>2, <1>3 DEF AddsFrom

LEMMA FwFindNetwork ==
    ASSUME NEW c, FwHere(c), FindNetwork(c)
    PROVE  FwKept
<1> DEFINE r == req[c]
           t == r.todo
           rest == Tail(t)
<1>0. NetReqs /\ NetSolo /\ c \in Clients /\ req[c] # Idle /\ req[c] = NetReqRec(req[c])
  BY FwHereIs DEF FwHere
<1>1. /\ IsList(t) /\ t # <<>> /\ Now(c) = t[1] /\ Len(t) \in Nat \ {0} /\ Now(c).do = "FindNetwork" /\ FwStart(r)
      /\ Len(t) >= 2 /\ t[2].do = "CreateGroup" /\ AddsFrom(t, 2 + 1, BodyRules(r.want)) /\ Now(c).mode = "opt"
  <2>1. IsList(t) /\ t # <<>> /\ Now(c) = t[1] /\ Len(t) \in Nat \ {0}
    BY FwHereIs
  <2>2. Now(c).do = "FindNetwork"
    BY DEF FindNetwork, Doing, Now
  <2>3. FwStart(r)
    BY <2>2, FwCallIs
  <2>4. Len(t) >= 2 /\ t[2].do = "CreateGroup" /\ AddsFrom(t, 3, BodyRules(r.want)) /\ Now(c).mode = "opt"
    BY <2>1, <2>2, <2>3 DEF FwStart
  <2> QED
    BY <2>1, <2>2, <2>3, <2>4
<1>2. IsList(rest) /\ Len(rest) = Len(t) - 1 /\ \A i \in 1..(Len(t) - 1) : rest[i] = t[i + 1]
  BY <1>1, ListTail
<1>3. AddsFrom(rest, 2, BodyRules(r.want))
  BY <1>1, TailAdds
<1>4. rest # <<>> /\ rest[1].do = "CreateGroup" /\ \A i \in 1..Len(rest) : CallShape(rest[i])
  <2>1. Len(rest) # 0 /\ rest[1] = t[2]
    BY <1>1, <1>2
  <2>2. ASSUME NEW i \in 1..Len(rest) PROVE CallShape(rest[i])
    <3>1. rest[i] = t[i + 1] /\ i + 1 \in 1..Len(t)
      BY <1>1, <1>2
    <3> QED
      BY <1>1, <3>1 DEF FwStart
  <2> QED
    BY <1>1, <1>2, <2>1, <2>2, ListFacts
<1> HIDE DEF rest
<1>5. PICK u : Goes(c, [req[c] EXCEPT !.todo = u])
               /\ (u = rest \/ \E id : u = FilledNet(rest, id))
  BY <1>1 DEF FindNetwork, LooksUp, FilledNet, rest
<1>6. SameCalls(u, rest)
  <2>1. CASE u = rest
    BY <1>2, <1>4, <2>1 DEF SameCalls
  <2>2. CASE \E id : u = FilledNet(rest, id)
    BY <1>2, <1>4, <2>2, FilledNetIs
  <2> QED
    BY <1>5, <2>1, <2>2
<1>7. AddsFrom(u, 2, BodyRules(r.want))
  BY <1>2, <1>3, <1>6, SameAdds
<1>8. IsList(u) /\ u # <<>> /\ u[1].do = "CreateGroup" /\ \A i \in 1..Len(u) : CallShape(u[i])
  <2>1. Len(rest) \in Nat \ {0} /\ 1 \in 1..Len(rest)
    BY <1>2, <1>4, ListFacts
  <2>2. IsList(u) /\ Len(u) = Len(rest)
    BY <1>6 DEF SameCalls
  <2>3. u # <<>>
    BY <2>1, <2>2, ListFacts
  <2> QED
    BY <1>4, <1>6, <2>1, <2>2, <2>3 DEF SameCalls
<1> DEFINE q == [req[c] EXCEPT !.todo = u]
<1>9. q = NetReqRec(q) /\ q.todo = u /\ q.clean = r.clean /\ q.want = r.want
  <2>1. q = [op |-> r.op, todo |-> u, clean |-> r.clean, want |-> r.want] /\ q = NetReqRec(q)
    BY <1>0, TodoSet
  <2> QED
    BY <2>1
<1>10. Goes(c, q)
  BY <1>5
<1> HIDE DEF q
<1>11. FwStart(q)
  BY <1>1, <1>7, <1>8, <1>9 DEF FwStart
<1>12. FwWay(q, backend, groups')
  BY <1>8, <1>9, <1>11, FwHereIs DEF FwWay
<1> QED
  BY <1>0, <1>9, <1>10, <1>12, FwGoing

LEMMA FwFindGroup ==
    ASSUME NEW c, FwHere(c), FindGroup(c)
    PROVE  FwKept
<1> DEFINE r == req[c]
           t == r.todo
           rest == Tail(t)
<1>0. NetReqs /\ NetSolo /\ c \in Clients /\ req[c] # Idle /\ req[c] = NetReqRec(req[c])
  BY FwHereIs DEF FwHere
<1>1. /\ IsList(t) /\ t # <<>> /\ Now(c) = t[1] /\ Len(t) \in Nat \ {0} /\ Now(c).do = "FindGroup" /\ FwStart(r)
      /\ Len(t) >= 2 /\ t[2].do = "Replace" /\ AddsFrom(t, 2 + 1, BodyRules(r.want)) /\ Now(c).mode = "must"
  <2>1. IsList(t) /\ t # <<>> /\ Now(c) = t[1] /\ Len(t) \in Nat \ {0}
    BY FwHereIs
  <2>2. Now(c).do = "FindGroup"
    BY DEF FindGroup, Doing, Now
  <2>3. FwStart(r)
    BY <2>2, FwCallIs
  <2>4. Len(t) >= 2 /\ t[2].do = "Replace" /\ AddsFrom(t, 3, BodyRules(r.want)) /\ Now(c).mode = "must"
    BY <2>1, <2>2, <2>3 DEF FwStart
  <2> QED
    BY <2>1, <2>2, <2>3, <2>4
<1>2. IsList(rest) /\ Len(rest) = Len(t) - 1 /\ \A i \in 1..(Len(t) - 1) : rest[i] = t[i + 1]
  BY <1>1, ListTail
<1>3. AddsFrom(rest, 2, BodyRules(r.want))
  BY <1>1, TailAdds
<1>4. rest # <<>> /\ rest[1].do = "Replace" /\ \A i \in 1..Len(rest) : CallShape(rest[i])
  <2>1. Len(rest) # 0 /\ rest[1] = t[2]
    BY <1>1, <1>2
  <2>2. ASSUME NEW i \in 1..Len(rest) PROVE CallShape(rest[i])
    <3>1. rest[i] = t[i + 1] /\ i + 1 \in 1..Len(t)
      BY <1>1, <1>2
    <3> QED
      BY <1>1, <3>1 DEF FwStart
  <2> QED
    BY <1>1, <1>2, <2>1, <2>2, ListFacts
<1> HIDE DEF rest
<1>5. \/ Ends(c, None)
      \/ \E id, u : Goes(c, [req[c] EXCEPT !.todo = u]) /\ u = FilledOf(rest, id)
  BY <1>1 DEF FindGroup, LooksUp, Fails, FilledOf, rest
<1>6. CASE Ends(c, None)
  BY <1>0, <1>6, FwEnding DEF AnswerHolds
<1>7. CASE \E id, u : Goes(c, [req[c] EXCEPT !.todo = u]) /\ u = FilledOf(rest, id)
  <2>1. PICK id, u : Goes(c, [req[c] EXCEPT !.todo = u]) /\ u = FilledOf(rest, id)
    BY <1>7
  <2>2. SameCalls(u, rest) /\ \A i \in 1..Len(rest) : u[i].of = id
    BY <1>2, <1>4, <2>1, FilledOfIs
  <2>3. AddsFrom(u, 2, BodyRules(r.want))
    BY <1>2, <1>3, <2>2, SameAdds
  <2>4. /\ IsList(u) /\ u # <<>> /\ u[1].do = "Replace"
        /\ \A i \in 1..Len(u) : CallShape(u[i]) /\ u[i].of = u[1].of
    <3>1. Len(rest) \in Nat \ {0} /\ 1 \in 1..Len(rest)
      BY <1>2, <1>4, ListFacts
    <3>2. IsList(u) /\ Len(u) = Len(rest)
      BY <2>2 DEF SameCalls
    <3>3. u # <<>>
      BY <3>1, <3>2, ListFacts
    <3> QED
      BY <1>4, <2>2, <3>1, <3>2, <3>3 DEF SameCalls
  <2> DEFINE q == [req[c] EXCEPT !.todo = u]
  <2>5. q = NetReqRec(q) /\ q.todo = u /\ q.clean = r.clean /\ q.want = r.want
    <3>1. q = [op |-> r.op, todo |-> u, clean |-> r.clean, want |-> r.want] /\ q = NetReqRec(q)
      BY <1>0, TodoSet
    <3> QED
      BY <3>1
  <2>6. Goes(c, q)
    BY <2>1
  <2> HIDE DEF q
  <2>7. FwStart(q)
    BY <1>1, <2>3, <2>4, <2>5 DEF FwStart
  <2>8. FwWay(q, backend, groups')
    BY <2>4, <2>5, <2>7, FwHereIs DEF FwWay
  <2> QED
    BY <1>0, <2>5, <2>6, <2>8, FwGoing
<1> QED
  BY <1>5, <1>6, <1>7

LEMMA FwCreatesGroup ==
    ASSUME NEW c, FwHere(c), CreatesGroup(c)
    PROVE  FwKept
<1> DEFINE r == req[c]
           t == r.todo
           rest == Tail(t)
<1>0. NetReqs /\ NetSolo /\ c \in Clients /\ req[c] # Idle /\ req[c] = NetReqRec(req[c]) /\ GroupInv
  BY FwHereIs DEF FwHere
<1>1. /\ IsList(t) /\ t # <<>> /\ Now(c) = t[1] /\ Len(t) \in Nat \ {0} /\ 1 \in 1..Len(t)
      /\ FwStart(r) /\ AddsFrom(t, 1 + 1, BodyRules(r.want)) /\ EditsFrom(t, 2)
  <2>1. IsList(t) /\ t # <<>> /\ Now(c) = t[1] /\ Len(t) \in Nat \ {0} /\ 1 \in 1..Len(t)
    BY FwHereIs
  <2>2. Now(c).do = "CreateGroup"
    BY DEF CreatesGroup, InmemCreateSecurityGroup, K8sCreateSecurityGroup, AwsCreateSecurityGroup, Doing, Now
  <2>3. FwStart(r) /\ EditsFrom(t, 2)
    BY <2>2, FwCallIs
  <2>4. AddsFrom(t, 2, BodyRules(r.want))
    BY <2>1, <2>2, <2>3 DEF FwStart
  <2> QED
    BY <2>1, <2>3, <2>4
<1>2. CASE NetRefused(c)
  BY <1>1, <1>2, FwRefused
<1>3. CASE GroupAdded(NewId(c)) /\ NetMade(c, NewId(c))
  <2> DEFINE id == NewId(c)
  <2>1. GroupAdded(id) /\ NetMade(c, id)
    BY <1>3
  <2> HIDE DEF id
  <2>2. \A g \in groups' : g.id = id => Members(g.rules) = {}
    <3>1. PICK n, net : groups' = groups
                \cup {[id |-> id, name |-> n, net |-> net, rules |-> <<>>, ranges |-> <<>>]}
      BY <2>1 DEF GroupAdded
    <3>2. \A g \in groups : g.id # id
      BY <2>1 DEF GroupAdded, GroupById
    <3> QED
      BY <3>1, <3>2, EmptyList
  <2>3. IsList(rest) /\ Len(rest) = Len(t) - 1 /\ \A i \in 1..(Len(t) - 1) : rest[i] = t[i + 1]
    BY <1>1, ListTail
  <2>4. AddsFrom(rest, 1, BodyRules(r.want))
    BY <1>1, TailAdds
  <2>5. \A i \in 1..Len(rest) : CallShape(rest[i])
    <3> SUFFICES ASSUME NEW i \in 1..Len(rest) PROVE CallShape(rest[i])
      OBVIOUS
    <3>1. rest[i] = t[i + 1] /\ i + 1 \in 1..Len(t)
      BY <1>1, <2>3
    <3> QED
      BY <1>1, <3>1 DEF FwStart
  <2>6. CASE rest = <<>>
    <3> DEFINE says == NetSays(c, id, TRUE)
    <3>1. Ends(c, says)
      BY <2>1, <2>6 DEF NetMade
    <3>2. FiledAll(backend, BodyRules(r.want)) = {} /\ BodyShape(r.want)
      <4>1. Len(rest) = 0
        BY <2>3, <2>6, ListFacts
      <4>2. BodyShape(r.want)
        BY FwHereIs
      <4> HIDE DEF rest
      <4>3. BodyRules(r.want) = {}
        BY <2>4, <4>1 DEF AddsFrom, RulesFrom
      <4> QED
        BY <4>2, <4>3, FiledAllIs
    <3>3. says = [of |-> id, want |-> r.want]
      BY DEF NetSays, FwHere
    <3> HIDE DEF says
    <3>4. says.of = id /\ says.want = r.want
      BY <3>3
    <3>5. AnswerHolds(backend, says, groups')
      <4> HIDE DEF r
      <4> QED
        BY <2>2, <3>2, <3>4 DEF AnswerHolds
    <3> QED
      BY <1>0, <3>1, <3>5, FwEnding
  <2>7. CASE rest # <<>>
    <3> DEFINE u == FilledOf(rest, id)
               q == [req[c] EXCEPT !.todo = u]
    <3>1. Goes(c, q)
      BY <2>1, <2>7 DEF NetMade, FilledOf
    <3>2. SameCalls(u, rest) /\ \A i \in 1..Len(rest) : u[i].of = id
      BY <2>3, <2>5, FilledOfIs
    <3> HIDE DEF u
    <3>3. q = NetReqRec(q) /\ q.todo = u /\ q.clean = r.clean /\ q.want = r.want
      <4>1. q = [op |-> r.op, todo |-> u, clean |-> r.clean, want |-> r.want] /\ q = NetReqRec(q)
        BY <1>0, TodoSet
      <4> QED
        BY <4>1
    <3> HIDE DEF q
    <3>4. AddsFrom(u, 1, BodyRules(r.want))
      BY <2>3, <2>4, <3>2, SameAdds
    <3>5. IsList(u) /\ u # <<>> /\ Len(u) \in Nat \ {0} /\ \A i \in 1..Len(u) : u[i].of = id
      <4>1. Len(rest) \in Nat \ {0}
        BY <2>3, <2>7, ListFacts
      <4> HIDE DEF rest
      <4>2. IsList(u) /\ Len(u) = Len(rest)
        BY <3>2 DEF SameCalls
      <4> QED
        BY <3>2, <4>1, <4>2, ListFacts
    <3>6. FwLeft(u, 0, BodyRules(r.want), backend, groups')
      <4>1. ASSUME NEW i \in 1..Len(u)
            PROVE  u[i].of = u[1].of /\ u[i].do \in (IF i <= 0 THEN Removals ELSE Additions)
        <5>1. ~(i <= 0) /\ 1 \in 1..Len(u)
          BY <3>5
        <5> QED
          BY <3>4, <3>5, <5>1 DEF AddsFrom, Additions
      <4>2. ASSUME NEW g \in groups', g.id = u[1].of PROVE Members(g.rules) \cup FiledAll(backend, RulesFrom(u, 1)) = FiledAll(backend, BodyRules(r.want))
        <5>1. u[1].of = id
          BY <3>5
        <5>2. Members(g.rules) = {} /\ RulesFrom(u, 1) = BodyRules(r.want)
          BY <2>2, <3>4, <4>2, <5>1 DEF AddsFrom
        <5> QED
          BY <5>2
      <4> QED
        BY <4>1, <4>2 DEF FwLeft
    <3>7. FwEdit(q, backend, groups')
      <4>1. r.clean = TRUE /\ 0 \in 0..Len(u)
        BY <1>1, <3>5 DEF FwStart
      <4>2. \A i \in 1..Len(u) : u[i].do \in Removals \cup Additions
        BY <3>4 DEF AddsFrom, Additions
      <4> QED
        BY <3>3, <3>6, <4>1, <4>2 DEF FwEdit
    <3>8. FwWay(q, backend, groups')
      BY <3>3, <3>5, <3>7, FwHereIs DEF FwWay
    <3> QED
      BY <1>0, <3>1, <3>3, <3>8, FwGoing
  <2> QED
    BY <2>6, <2>7
<1> QED
  BY <1>0, <1>2, <1>3, CreatesGroupIs

\* u removes the rules that were read, and then does what adds does.
Preceded(u, id, told, adds) ==
    /\ IsList(u) /\ Len(u) = Len(told) + Len(adds)
    /\ \A i \in 1..Len(told) : u[i].do = "RemoveRule" /\ u[i].of = id /\ u[i].rule = told[i]
    /\ \A i \in 1..Len(adds) : u[Len(told) + i] = adds[i]
LEMMA RemovesFirstIs ==
    ASSUME NEW id, NEW told, IsList(told), NEW adds, IsList(adds)
    PROVE  Preceded(RemovesFirst(id, told, adds), id, told, adds)
<1> DEFINE s == [i \in DOMAIN told |-> RemoveCall(id, told[i], "may")]
           u == RemovesFirst(id, told, adds)
<1>1. Len(told) \in Nat /\ DOMAIN told = 1..Len(told)
  BY ListFacts
<1>2. DOMAIN s = 1..Len(told) /\ s = [i \in 1..Len(told) |-> s[i]]
  BY <1>1
<1>3. IsList(s) /\ Len(s) = Len(told)
  BY <1>1, <1>2, ListMade
<1>4. ASSUME NEW i \in 1..Len(told) PROVE s[i].do = "RemoveRule" /\ s[i].of = id /\ s[i].rule = told[i]
  <2>1. s[i] = RemoveCall(id, told[i], "may")
    BY <1>1
  <2> QED
    BY <2>1 DEF RemoveCall, NetCall
<1>5. u = s \o adds
  BY DEF RemovesFirst
<1> HIDE DEF s, u
<1>6. /\ IsList(u) /\ Len(u) = Len(s) + Len(adds)
      /\ \A i \in 1..Len(s) : u[i] = s[i]
      /\ \A i \in 1..Len(adds) : u[Len(s) + i] = adds[i]
  <2>0. IsList(s) /\ IsList(adds)
    BY <1>3
  <2>1. /\ IsList(s \o adds) /\ Len(s \o adds) = Len(s) + Len(adds)
        /\ \A i \in 1..Len(s) : (s \o adds)[i] = s[i]
        /\ \A i \in 1..Len(adds) : (s \o adds)[Len(s) + i] = adds[i]
    BY ONLY <2>0, ListJoined
  <2> QED
    BY <1>5, <2>1
<1>7. /\ IsList(u) /\ Len(u) = Len(told) + Len(adds)
      /\ \A i \in 1..Len(told) : u[i].do = "RemoveRule" /\ u[i].of = id /\ u[i].rule = told[i]
      /\ \A i \in 1..Len(adds) : u[Len(told) + i] = adds[i]
  BY <1>3, <1>4, <1>6
<1> QED
  BY <1>7 DEF u, Preceded

LEMMA FwReplace ==
    ASSUME NEW c, FwHere(c), Replace(c)
    PROVE  FwKept
<1> DEFINE r == req[c]
           t == r.todo
           rest == Tail(t)
<1>1. /\ IsList(t) /\ t # <<>> /\ Now(c) = t[1] /\ Len(t) \in Nat \ {0} /\ 1 \in 1..Len(t)
      /\ FwStart(r) /\ AddsFrom(t, 1 + 1, BodyRules(r.want)) /\ EditsFrom(t, 2) /\ \A i \in 1..Len(t) : t[i].of = t[1].of
  <2>1. IsList(t) /\ t # <<>> /\ Now(c) = t[1] /\ Len(t) \in Nat \ {0} /\ 1 \in 1..Len(t)
    BY FwHereIs
  <2>2. Now(c).do = "Replace"
    BY DEF Replace, Doing, Now
  <2>3. FwStart(r) /\ EditsFrom(t, 2)
    BY <2>2, FwCallIs
  <2>4. AddsFrom(t, 2, BodyRules(r.want)) /\ \A i \in 1..Len(t) : t[i].of = t[1].of
    BY <2>1, <2>2, <2>3 DEF FwStart
  <2> QED
    BY <2>1, <2>3, <2>4
<1>2. groups' = groups
  BY DEF Replace, netVars
<1>3. CASE NetContinues(c, rest, FALSE)
  BY <1>1, <1>3, FwSpoilt
<1>4. CASE \E g \in GroupById(Now(c).of) : NetContinues(c, RemovesFirst(g.id, Told(g), rest), r.clean)
  <2>1. PICK g \in GroupById(Now(c).of) : NetContinues(c, RemovesFirst(g.id, Told(g), rest), r.clean)
    BY <1>4
  <2>2. g \in groups /\ g.id = t[1].of /\ IsList(g.rules) /\ GroupsOnce
    BY <1>1 DEF GroupById, FwHere, GroupInv, GroupsShaped, RuleList
  <2>3. Told(g) = g.rules
    BY DEF Told, FwHere, FwCloud
  <2>4. IsList(rest) /\ Len(rest) = Len(t) - 1 /\ \A i \in 1..(Len(t) - 1) : rest[i] = t[i + 1]
    BY <1>1, ListTail
  <2>5. AddsFrom(rest, 1, BodyRules(r.want))
    BY <1>1, TailAdds
  <2>6. \A i \in 1..Len(rest) : rest[i].of = g.id
    <3> SUFFICES ASSUME NEW i \in 1..Len(rest) PROVE rest[i].of = g.id
      OBVIOUS
    <3>1. rest[i] = t[i + 1] /\ i + 1 \in 1..Len(t)
      BY <1>1, <2>4
    <3> QED
      BY <1>1, <2>2, <3>1
  <2> DEFINE u == RemovesFirst(g.id, g.rules, rest)
             k == Len(g.rules)
             m == Len(rest)
  <2>7. /\ IsList(u) /\ Len(u) = k + m
        /\ \A i \in 1..k : u[i].do = "RemoveRule" /\ u[i].of = g.id /\ u[i].rule = g.rules[i]
        /\ \A i \in 1..m : u[k + i] = rest[i]
    <3>1. Preceded(u, g.id, g.rules, rest)
      BY <2>2, <2>4, RemovesFirstIs
    <3> HIDE DEF u, rest
    <3> QED
      BY <3>1 DEF Preceded
  <2>8. k \in Nat /\ m \in Nat
    BY <2>2, <2>4, ListFacts
  <2>9. NetContinues(c, u, TRUE)
    BY <1>1, <2>1, <2>3 DEF FwStart
  <2> HIDE DEF u, rest
  <2>10. RulesFrom(u, k + 1) = BodyRules(r.want)
    <3>1. ASSUME NEW i \in (k + 1)..(k + m) PROVE i - k \in 1..m /\ u[i] = rest[i - k]
      <4>1. i - k \in 1..m /\ k + (i - k) = i
        BY <2>8
      <4> QED
        BY <2>7, <4>1
    <3>2. ASSUME NEW i \in 1..m PROVE k + i \in (k + 1)..(k + m) /\ u[k + i] = rest[i]
      BY <2>7, <2>8
    <3>3. RulesFrom(u, k + 1) = RulesFrom(rest, 1)
      <4>1. RulesFrom(u, k + 1) = {u[i].rule : i \in (k + 1)..(k + m)} /\ RulesFrom(rest, 1) = {rest[i].rule : i \in 1..m}
        BY <2>7 DEF RulesFrom
      <4> HIDE DEF k, m
      <4>2. \A i \in (k + 1)..(k + m) : u[i].rule \in {rest[j].rule : j \in 1..m}
        BY <3>1
      <4>3. \A i \in 1..m : rest[i].rule \in {u[j].rule : j \in (k + 1)..(k + m)}
        BY <3>2
      <4> QED
        BY <4>1, <4>2, <4>3
    <3> QED
      BY <2>5, <3>3 DEF AddsFrom
  <2>11. ASSUME NEW i \in 1..Len(u)
         PROVE  u[i].of = g.id /\ u[i].do \in (IF i <= k THEN Removals ELSE Additions)
    <3>1. CASE i <= k
      <4>1. i \in 1..k
        BY <2>7, <2>8, <3>1
      <4> QED
        BY <2>7, <3>1, <4>1 DEF Removals
    <3>2. CASE ~(i <= k)
      <4>1. i - k \in 1..m /\ k + (i - k) = i
        BY <2>7, <2>8, <3>2
      <4>2. u[i] = rest[i - k]
        BY <2>7, <4>1
      <4> QED
        BY <2>5, <2>6, <3>2, <4>1, <4>2 DEF AddsFrom, Additions
    <3> QED
      BY <3>1, <3>2
  <2>12. \A x \in groups : x.id = g.id => x = g
    BY <2>2 DEF GroupsOnce
  <2>13. CASE u = <<>>
    <3>1. k = 0 /\ m = 0
      <4>1. Len(u) = 0
        BY <2>7, <2>13, ListFacts
      <4> HIDE DEF k, m
      <4> QED
        BY <2>7, <2>8, <4>1
    <3>2. FiledAll(backend, BodyRules(r.want)) = {}
      <4>1. BodyRules(r.want) = {}
        BY <2>7, <2>10, <3>1 DEF RulesFrom
      <4> QED
        BY <4>1, FiledAllIs
    <3>3. Members(g.rules) = {}
      BY <2>2, <3>1, ListFacts
    <3>4. \A x \in groups' : x.id = Now(c).of => Members(x.rules) = FiledAll(backend, BodyRules(r.want))
      BY <1>1, <1>2, <2>2, <2>12, <3>2, <3>3
    <3> QED
      BY <2>9, <2>13, <3>4, FwContinuing
  <2>14. CASE u # <<>>
    <3>1. Len(u) \in Nat \ {0} /\ 1 \in 1..Len(u) /\ u[1].of = g.id
      <4>1. Len(u) \in Nat \ {0}
        BY <2>7, <2>14, ListFacts
      <4> QED
        BY <2>11, <4>1
    <3>2. FwLeft(u, k, BodyRules(r.want), backend, groups')
      <4>1. ASSUME NEW x \in groups', x.id = u[1].of
            PROVE  IF k = 0 THEN Members(x.rules) \cup FiledAll(backend, RulesFrom(u, 1)) = FiledAll(backend, BodyRules(r.want))
                   ELSE /\ RulesFrom(u, k + 1) = BodyRules(r.want)
                        /\ IF backend = "k8s" THEN Len(x.rules) = k /\ \A i \in 1..k : x.rules[i] = u[i].rule
                           ELSE \A y \in Members(x.rules) : \E i \in 1..k : y = u[i].rule
        <5>1. x = g
          BY <1>2, <2>12, <3>1, <4>1
        <5>2. CASE k = 0
          <6>1. Members(g.rules) = {}
            BY <2>2, <5>2, ListFacts
          <6>2. RulesFrom(u, 1) = BodyRules(r.want)
            BY <2>10, <5>2
          <6> QED
            BY <5>1, <5>2, <6>1, <6>2
        <5>3. CASE k # 0
          <6>1. \A y \in Members(g.rules) : \E i \in 1..k : y = u[i].rule
            BY <2>2, <2>7, ListFacts
          <6> QED
            BY <2>7, <2>10, <5>1, <5>3, <6>1
        <5> QED
          BY <5>2, <5>3
      <4> HIDE DEF k
      <4> QED
        BY <2>11, <3>1, <4>1 DEF FwLeft
    <3>3. ASSUME NEW q, q.todo = u, q.clean = TRUE, q.want = r.want PROVE FwWay(q, backend, groups')
      <4>1. k \in 0..Len(u)
        BY <2>7, <2>8
      <4>2. \A i \in 1..Len(u) : u[i].do \in Removals \cup Additions
        BY <2>11
      <4>3. FwEdit(q, backend, groups')
        BY <3>2, <3>3, <4>1, <4>2 DEF FwEdit
      <4>4. BodyShape(q.want)
        BY <3>3, FwHereIs
      <4> QED
        BY <2>7, <2>14, <3>3, <4>3, <4>4 DEF FwWay
    <3> QED
      BY <2>9, <2>14, <3>3, FwContinuing
  <2> QED
    BY <2>13, <2>14
<1> QED
  BY <1>3, <1>4 DEF Replace

\* A call that has read the group is the same change.
SameEdits(u, t) ==
    /\ IsList(u) /\ Len(u) = Len(t)
    /\ \A i \in 1..Len(t) : /\ u[i].of = t[i].of /\ u[i].rule = t[i].rule
                            /\ t[i].do \in Removals => u[i].do \in Removals
                            /\ t[i].do \in Additions => u[i].do \in Additions
LEMMA SameLeft ==
    ASSUME NEW t, IsList(t), t # <<>>, NEW u, SameEdits(u, t), NEW k \in 0..Len(t), NEW want, NEW G,
           FwLeft(t, k, want, backend, G)
    PROVE  FwLeft(u, k, want, backend, G)
<1>1. Len(t) \in Nat \ {0} /\ Len(u) = Len(t) /\ 1 \in 1..Len(t) /\ k \in Nat
  BY ListTail DEF SameEdits
<1>2. u[1].of = t[1].of
  BY <1>1 DEF SameEdits
<1>3. ASSUME NEW n \in Nat \ {0} PROVE RulesFrom(u, n) = RulesFrom(t, n)
  <2>1. \A i \in n..Len(t) : u[i].rule = t[i].rule
    <3>1. \A i \in n..Len(t) : i \in 1..Len(t)
      BY <1>1
    <3> QED
      BY <3>1 DEF SameEdits
  <2> QED
    BY <1>1, <2>1 DEF RulesFrom
<1>4. ASSUME NEW i \in 1..Len(u)
      PROVE  u[i].of = u[1].of /\ u[i].do \in (IF i <= k THEN Removals ELSE Additions)
  BY <1>1, <1>2 DEF FwLeft, SameEdits
<1>5. ASSUME NEW g \in G, g.id = u[1].of
      PROVE  IF k = 0 THEN Members(g.rules) \cup FiledAll(backend, RulesFrom(u, 1)) = FiledAll(backend, want)
             ELSE /\ RulesFrom(u, k + 1) = want
                  /\ IF backend = "k8s" THEN Len(g.rules) = k /\ \A i \in 1..k : g.rules[i] = u[i].rule
                     ELSE \A y \in Members(g.rules) : \E i \in 1..k : y = u[i].rule
  <2>1. RulesFrom(u, 1) = RulesFrom(t, 1) /\ RulesFrom(u, k + 1) = RulesFrom(t, k + 1)
    <3>1. 1 \in Nat \ {0} /\ k + 1 \in Nat \ {0}
      BY <1>1
    <3> QED
      BY <1>3, <3>1
  <2>2. \A i \in 1..k : u[i].rule = t[i].rule
    <3>1. \A i \in 1..k : i \in 1..Len(t)
      BY <1>1
    <3> QED
      BY <3>1 DEF SameEdits
  <2>3. CASE k = 0
    BY <1>2, <1>5, <2>1, <2>3 DEF FwLeft
  <2>4. CASE k # 0
    <3>1. /\ RulesFrom(t, k + 1) = want
          /\ IF backend = "k8s" THEN Len(g.rules) = k /\ \A i \in 1..k : g.rules[i] = t[i].rule
             ELSE \A y \in Members(g.rules) : \E i \in 1..k : y = t[i].rule
      BY <1>2, <1>5, <2>4 DEF FwLeft
    <3> QED
      BY <2>1, <2>2, <2>4, <3>1
  <2> QED
    BY <2>3, <2>4
<1> QED
  BY <1>4, <1>5 DEF FwLeft

Reading(x, next, g) ==
    [do |-> next, mode |-> x.mode, net |-> 0, of |-> x.of, name |-> x.name, rule |-> x.rule, read |-> g]
LEMMA FwGetsGroup ==
    ASSUME NEW c, FwHere(c), NEW next, GetsGroup(c, next),
           \/ Now(c).do = "AddRule" /\ next = "UpdateAdding"
           \/ Now(c).do = "RemoveRule" /\ next = "UpdateRemoving"
    PROVE  FwKept
<1> DEFINE r == req[c]
           t == r.todo
           rest == Tail(t)
<1>0. NetReqs /\ NetSolo /\ c \in Clients /\ req[c] # Idle /\ req[c] = NetReqRec(req[c]) /\ groups' = groups
  BY FwHereIs DEF FwHere, GetsGroup, netVars
<1>1. /\ IsList(t) /\ t # <<>> /\ Now(c) = t[1] /\ Len(t) \in Nat \ {0} /\ 1 \in 1..Len(t)
      /\ FwEdit(r, backend, groups) /\ EditsFrom(t, 2)
  BY FwHereIs, FwCallIs DEF Removals, Additions
<1>2. CASE NetRefused(c)
  BY <1>1, <1>2, FwRefused
<1>3. CASE ~NetRefused(c)
  <2>1. PICK g : Goes(c, [req[c] EXCEPT !.todo = <<Reading(Now(c), next, g)>> \o Tail(@)])
    BY <1>3 DEF GetsGroup, Reading
  <2> DEFINE x == Reading(Now(c), next, g)
             u == <<x>> \o rest
             q == [req[c] EXCEPT !.todo = u]
  <2>2. Goes(c, q)
    BY <1>0, <2>1 DEF NetReqRec
  <2>3. x.do = next /\ x.of = t[1].of /\ x.rule = t[1].rule
    BY <1>1 DEF Reading
  <2>4. IsList(rest) /\ Len(rest) = Len(t) - 1 /\ \A i \in 1..(Len(t) - 1) : rest[i] = t[i + 1]
    BY <1>1, ListTail
  <2> HIDE DEF x, rest
  <2>5. IsList(<<x>>) /\ Len(<<x>>) = 1 /\ <<x>>[1] = x
    <3>1. <<x>> \in Seq({x})
      OBVIOUS
    <3> QED
      BY <3>1, SequencesAreLists
  <2>6. /\ IsList(u) /\ Len(u) = Len(<<x>>) + Len(rest)
        /\ \A i \in 1..Len(<<x>>) : u[i] = <<x>>[i]
        /\ \A i \in 1..Len(rest) : u[Len(<<x>>) + i] = rest[i]
    BY ONLY <2>4, <2>5, ListJoined
  <2> HIDE DEF u
  <2>7. Len(u) = Len(t) /\ u[1] = x /\ \A i \in 2..Len(t) : u[i] = t[i]
    <3>1. Len(u) = Len(t)
      BY <1>1, <2>4, <2>5, <2>6
    <3>2. u[1] = x
      BY <2>5, <2>6
    <3>3. ASSUME NEW i \in 2..Len(t) PROVE u[i] = t[i]
      <4>1. i - 1 \in 1..(Len(t) - 1) /\ 1 + (i - 1) = i /\ (i - 1) + 1 = i
        BY <1>1
      <4>2. u[1 + (i - 1)] = rest[i - 1] /\ rest[i - 1] = t[(i - 1) + 1]
        BY <2>4, <2>5, <2>6, <4>1
      <4> QED
        BY <4>1, <4>2
    <3> QED
      BY <3>1, <3>2, <3>3
  <2>8. SameEdits(u, t)
    <3>1. ASSUME NEW i \in 1..Len(t)
          PROVE  /\ u[i].of = t[i].of /\ u[i].rule = t[i].rule
                 /\ t[i].do \in Removals => u[i].do \in Removals
                 /\ t[i].do \in Additions => u[i].do \in Additions
      <4>1. CASE i = 1
        BY <1>1, <2>3, <2>7, <4>1 DEF Removals, Additions
      <4>2. CASE i # 1
        <5>1. i \in 2..Len(t)
          BY <1>1, <4>2
        <5> QED
          BY <2>7, <5>1
      <4> QED
        BY <4>1, <4>2
    <3> QED
      BY <2>6, <2>7, <3>1 DEF SameEdits
  <2>9. q = NetReqRec(q) /\ q.todo = u /\ q.clean = r.clean /\ q.want = r.want
    <3>1. q = [op |-> r.op, todo |-> u, clean |-> r.clean, want |-> r.want] /\ q = NetReqRec(q)
      BY <1>0, TodoSet
    <3> QED
      BY <3>1
  <2> HIDE DEF q
  <2>10. FwEdit(q, backend, groups')
    <3>1. r.clean \in BOOLEAN /\ \A i \in 1..Len(t) : t[i].do \in Removals \cup Additions
      BY <1>1 DEF FwEdit
    <3>2. \A i \in 1..Len(u) : u[i].do \in Removals \cup Additions
      BY <2>7, <2>8, <3>1 DEF SameEdits
    <3>3. ASSUME r.clean = TRUE PROVE \E k \in 0..Len(u) : FwLeft(u, k, BodyRules(r.want), backend, groups')
      <4>1. PICK k \in 0..Len(t) : FwLeft(t, k, BodyRules(r.want), backend, groups)
        BY <1>1, <3>3 DEF FwEdit
      <4>2. FwLeft(u, k, BodyRules(r.want), backend, groups)
        BY <1>1, <2>8, <4>1, SameLeft
      <4> QED
        BY <1>0, <2>7, <4>2
    <3> QED
      BY <2>9, <3>1, <3>2, <3>3 DEF FwEdit
  <2>11. FwWay(q, backend, groups')
    <3>1. u # <<>>
      BY <1>1, <2>6, <2>7, ListFacts
    <3> QED
      BY <2>6, <2>9, <2>10, <3>1, FwHereIs DEF FwWay
  <2> QED
    BY <1>0, <2>2, <2>9, <2>11, FwGoing
<1> QED
  BY <1>2, <1>3

\* Every call an undisturbed firewall request makes.
LEMMA FwCall ==
    ASSUME NEW c, FwHere(c), NetworkCall(c)
    PROVE  FwKept
<1>0. FwCloud /\ GroupInv /\ req[c] = NetReqRec(req[c])
  BY FwHereIs DEF FwHere
<1>1. Now(c).do \in {"FindNetwork", "FindGroup", "CreateGroup", "Replace", "AddRule", "UpdateAdding",
                     "RemoveRule", "UpdateRemoving"}
  BY FwCallIs DEF Removals, Additions
<1>2. EditsFrom(req[c].todo, 2) \/ Now(c).mode # "may"
  BY FwCallIs
<1>3. NetRefused(c) => FwKept
  BY <1>2, FwRefused
<1>4. ~(FindSubnet(c) \/ FindAddress(c) \/ ReadGroup(c) \/ PickRule(c))
  BY <1>1 DEF FindSubnet, FindAddress, ReadGroup, PickRule, Doing, Now
<1>5. NetCallIgnored(c) => FwKept
  BY <1>3 DEF NetCallIgnored
<1>6. CASE InmemNetCall(c)
  <2>1. InmemCreateSecurityGroup(c) \/ InmemAddRule(c) \/ InmemRemoveRule(c)
    BY <1>1, <1>6 DEF InmemNetCall, Doing, Now, InmemCreateNetwork, InmemDeleteNetwork, InmemCreateSubnet,
       InmemDeleteSubnet, InmemDeleteSecurityGroup, InmemAllocatePublicIP, InmemReleasePublicIP,
       InmemAssociatePublicIP, InmemDisassociatePublicIP
  <2>2. CASE InmemCreateSecurityGroup(c)
    BY <2>2, FwCreatesGroup DEF CreatesGroup
  <2>3. CASE InmemAddRule(c)
    <3>1. Now(c).do \in Additions
      BY <2>3 DEF InmemAddRule, Doing, Now, Additions
    <3> QED
      BY <1>0, <1>3, <2>3, <3>1, InmemAddRuleIs, FwAdding
  <2>4. CASE InmemRemoveRule(c)
    <3>1. Now(c).do \in Removals
      BY <2>4 DEF InmemRemoveRule, Doing, Now, Removals
    <3> QED
      BY <1>0, <1>3, <2>4, <3>1, InmemRemoveRuleIs, FwTaking
  <2> QED
    BY <2>1, <2>2, <2>3, <2>4
<1>7. CASE K8sNetCall(c)
  <2>1. K8sCreateSecurityGroup(c) \/ K8sAddRule(c) \/ K8sRemoveRule(c) \/ addDomainRule(c) \/ removeDomainRule(c)
    BY <1>1, <1>7 DEF K8sNetCall, Doing, Now, K8sCreateNetwork, K8sDeleteNetwork, K8sDeleteSecurityGroup,
       K8sNoSubnets, K8sNoAddresses
  <2>2. CASE K8sCreateSecurityGroup(c)
    BY <2>2, FwCreatesGroup DEF CreatesGroup
  <2>3. CASE K8sAddRule(c)
    BY <2>3, FwGetsGroup DEF K8sAddRule, Doing, Now
  <2>4. CASE K8sRemoveRule(c)
    BY <2>4, FwGetsGroup DEF K8sRemoveRule, Doing, Now
  <2>5. CASE addDomainRule(c)
    <3>1. Now(c).do \in Additions
      BY <2>5 DEF addDomainRule, Doing, Now, Additions
    <3> QED
      BY <1>0, <1>3, <2>5, <3>1, addDomainRuleIs, FwAdding
  <2>6. CASE removeDomainRule(c)
    <3>1. Now(c).do \in Removals
      BY <2>6 DEF removeDomainRule, Doing, Now, Removals
    <3> QED
      BY <1>0, <1>3, <2>6, <3>1, removeDomainRuleIs, FwTaking
  <2> QED
    BY <2>1, <2>2, <2>3, <2>4, <2>5, <2>6
<1>8. CASE AwsNetCall(c)
  <2>1. AwsCreateSecurityGroup(c) \/ AwsAddRule(c) \/ AwsRemoveRule(c)
    BY <1>1, <1>8 DEF AwsNetCall, Doing, Now, AwsCreateNetwork, AwsDeleteNetwork, AwsCreateSubnet,
       AwsDeleteSubnet, AwsDeleteSecurityGroup, AwsAllocatePublicIP, AwsReleasePublicIP,
       AwsAssociatePublicIP, AwsDisassociatePublicIP, AwsDissolves
  <2>2. CASE AwsCreateSecurityGroup(c)
    BY <2>2, FwCreatesGroup DEF CreatesGroup
  <2>3. CASE AwsAddRule(c)
    <3>1. Now(c).do \in Additions
      BY <2>3 DEF AwsAddRule, Doing, Now, Additions
    <3> QED
      BY <1>0, <1>3, <2>3, <3>1, AwsAddRuleIs, FwAdding
  <2>4. CASE AwsRemoveRule(c)
    <3>1. Now(c).do \in Removals
      BY <2>4 DEF AwsRemoveRule, Doing, Now, Removals
    <3> QED
      BY <1>0, <1>3, <2>4, <3>1, AwsRemoveRuleIs, FwTaking
  <2> QED
    BY <2>1, <2>2, <2>3, <2>4
<1> QED
  BY <1>0, <1>4, <1>5, <1>6, <1>7, <1>8, NetCallKinds, FwFindNetwork, FwFindGroup, FwReplace

-----------------------------------------------------------------------------
(* Network: how a request begins *)

LEMMA ListsAre ==
    ASSUME NEW ps \in AllowLists
    PROVE  /\ IsList(ps) /\ \A i \in 1..Len(ps) : IsList(ps[i].ports)
           /\ \A as \in RangeLists : IsList(as)
<1> DEFINE Allowed == [proto : STRING, ports : Seq(Nat \X Nat)]
<1>1. ps \in Seq(Allowed) /\ \A as \in RangeLists : as \in Seq(Cidrs)
  BY BodiesAreLists
<1>2. \A i \in 1..Len(ps) : ps[i].ports \in Seq(Nat \X Nat)
  <2>1. \A i \in 1..Len(ps) : ps[i] \in Allowed
    <3> HIDE DEF Allowed
    <3> QED
      BY <1>1
  <2> QED
    BY <2>1
<1> HIDE DEF Allowed
<1> QED
  BY <1>1, <1>2, SequencesAreLists

LEMMA BodyIs ==
    ASSUME NEW ps, IsList(ps), NEW as, IsList(as)
    PROVE  IsList(FirewallBody(ps, as))
<1> DEFINE n == Len(ps) * Len(as)
           b == FirewallBody(ps, as)
<1>1. n \in Nat
  <2>1. Len(ps) \in Nat /\ Len(as) \in Nat
    BY ListFacts
  <2>2. ASSUME NEW k \in Nat, NEW m \in Nat PROVE k * m \in Nat
    OBVIOUS
  <2> QED
    BY <2>1, <2>2
<1>2. DOMAIN b = 1..n /\ b = [i \in 1..n |-> b[i]]
  BY DEF FirewallBody
<1> HIDE DEF n, b
<1> QED
  BY <1>1, <1>2, ListMade DEF b

LEMMA OneRange == IsList(<<AnyRange>>)
<1>1. <<AnyRange>> \in Seq({AnyRange})
  OBVIOUS
<1> QED
  BY <1>1, SequencesAreLists

LEMMA FindIs ==
    ASSUME NEW do, NEW n, NEW mode
    PROVE  CallShape(Find(do, n, mode)) /\ Find(do, n, mode).do = do /\ Find(do, n, mode).mode = mode
BY DEF Find, NetCall, CallShape

ReplaceCall == [NetCall("Replace") EXCEPT !.mode = "may"]
LEMMA ReplaceCallIs == CallShape(ReplaceCall) /\ ReplaceCall.do = "Replace"
BY DEF ReplaceCall, NetCall, CallShape

LEMMA AddsAre ==
    ASSUME NEW body, IsList(body)
    PROVE  /\ IsList(AddsAll(body)) /\ Len(AddsAll(body)) = Len(body) /\ Len(body) \in Nat
           /\ \A i \in 1..Len(body) : /\ CallShape(AddsAll(body)[i]) /\ AddsAll(body)[i].do = "AddRule"
                                      /\ AddsAll(body)[i].rule = body[i]
<1> DEFINE u == AddsAll(body)
<1>1. Len(body) \in Nat /\ DOMAIN body = 1..Len(body)
  BY ListFacts
<1>2. DOMAIN u = 1..Len(body) /\ \A i \in 1..Len(body) : u[i] = AddCall(0, body[i], "may")
  BY <1>1 DEF AddsAll
<1>3. u = [i \in 1..Len(body) |-> u[i]]
  BY <1>1, <1>2 DEF AddsAll
<1> HIDE DEF u
<1>4. IsList(u) /\ Len(u) = Len(body)
  BY <1>1, <1>2, <1>3, ListMade
<1>5. \A i \in 1..Len(body) : CallShape(u[i]) /\ u[i].do = "AddRule" /\ u[i].rule = body[i]
  BY <1>2 DEF AddCall, NetCall, CallShape
<1> QED
  BY <1>1, <1>4, <1>5 DEF u

LEMMA FwBegins ==
    ASSUME NetReqs, NetSolo, NEW c \in Clients, NEW want, BodyShape(want), NEW f, NEW x, CallShape(f), CallShape(x),
           \/ f.do = "FindNetwork" /\ f.mode = "opt" /\ x.do = "CreateGroup"
           \/ f.do = "FindGroup" /\ f.mode = "must" /\ x.do = "Replace",
           AsksFirewall(c, want, <<f, x>> \o AddsAll(FirewallBody(want[1], want[2])))
    PROVE  FwKept
<1> DEFINE body == FirewallBody(want[1], want[2])
           adds == AddsAll(body)
           t == <<f, x>> \o adds
           r == [op |-> "firewall", todo |-> t, clean |-> TRUE, want |-> want]
<1>0. IsList(body) /\ BodyRules(want) = Members(body)
  BY BodyIs DEF BodyShape, BodyRules
<1>1. Begin(c, r) /\ groups' = groups
  BY DEF AsksFirewall, Requested, netVars
<1>2. /\ IsList(adds) /\ Len(adds) = Len(body) /\ Len(body) \in Nat
      /\ \A i \in 1..Len(body) : CallShape(adds[i]) /\ adds[i].do = "AddRule" /\ adds[i].rule = body[i]
  BY <1>0, AddsAre
<1> HIDE DEF adds, body
<1>3. IsList(<<f, x>>) /\ Len(<<f, x>>) = 2 /\ <<f, x>>[1] = f /\ <<f, x>>[2] = x
  <2>1. <<f, x>> \in Seq({f, x})
    OBVIOUS
  <2> QED
    BY <2>1, SequencesAreLists
<1>4. /\ IsList(t) /\ Len(t) = Len(<<f, x>>) + Len(adds)
      /\ \A i \in 1..Len(<<f, x>>) : t[i] = <<f, x>>[i]
      /\ \A i \in 1..Len(adds) : t[Len(<<f, x>>) + i] = adds[i]
  BY ONLY <1>2, <1>3, ListJoined
<1>5. r = NetReqRec(r) /\ r.op = "firewall" /\ r.todo = t /\ r.clean = TRUE /\ r.want = want
  BY DEF NetReqRec
<1> HIDE DEF t, r
<1>6. Len(t) = 2 + Len(body) /\ t[1] = f /\ t[2] = x /\ \A i \in 1..Len(body) : t[2 + i] = adds[i]
  BY <1>2, <1>3, <1>4
<1>7. ASSUME NEW i \in 3..Len(t)
      PROVE  i - 2 \in 1..Len(body) /\ CallShape(t[i]) /\ t[i].do = "AddRule" /\ t[i].rule = body[i - 2]
  <2>1. i - 2 \in 1..Len(body) /\ 2 + (i - 2) = i
    BY <1>2, <1>6
  <2>2. t[i] = adds[i - 2]
    BY <1>6, <2>1
  <2> QED
    BY <1>2, <2>1, <2>2
<1>8. RulesFrom(t, 3) = Members(body)
  <2>1. \A y \in RulesFrom(t, 3) : y \in Members(body)
    BY <1>0, <1>7, ListFacts DEF RulesFrom
  <2>2. ASSUME NEW y \in Members(body) PROVE y \in RulesFrom(t, 3)
    <3>1. PICK j \in 1..Len(body) : y = body[j]
      BY <1>0, ListFacts
    <3>2. 2 + j \in 3..Len(t)
      BY <1>2, <1>6
    <3>3. t[2 + j].rule = y
      BY <1>2, <1>6, <3>1
    <3> QED
      BY <3>2, <3>3 DEF RulesFrom
  <2> QED
    BY <2>1, <2>2
<1>9. \A i \in 1..Len(t) : CallShape(t[i])
  <2>1. \A i \in 1..Len(t) : i = 1 \/ i = 2 \/ i \in 3..Len(t)
    BY <1>2, <1>6
  <2> QED
    BY <1>6, <1>7, <2>1
<1>10. FwStart(r)
  <2>1. AddsFrom(t, 3, Members(body)) /\ Len(t) >= 2
    BY <1>2, <1>6, <1>7, <1>8 DEF AddsFrom
  <2> QED
    BY <1>0, <1>5, <1>6, <1>9, <2>1 DEF FwStart
<1>11. FwWay(r, backend, groups)
  <2>1. t # <<>>
    <3>1. Len(t) # 0
      BY <1>2, <1>6
    <3> QED
      BY <1>4, <3>1, ListFacts
  <2> QED
    BY <1>4, <1>5, <1>10, <2>1 DEF FwWay
<1> QED
  BY <1>1, <1>5, <1>11, FwBeginning

LEMMA NetBegins ==
    ASSUME NetReqs, NetSolo, NEW c \in Clients, NEW calls, AsksNetwork(c, calls)
    PROVE  FwKept
<1> DEFINE r == [op |-> "net", todo |-> calls, clean |-> TRUE, want |-> {}]
<1>1. Begin(c, r) /\ groups' = groups
  BY DEF AsksNetwork, Requested, netVars
<1>2. r = NetReqRec(r) /\ r.op # "firewall"
  BY DEF NetReqRec
<1> HIDE DEF r
<1> QED
  BY <1>1, <1>2, FwBeginning

LEMMA RequestsKeep ==
    ASSUME NetReqs, NetSolo, NEW c \in Clients,
           NetworkRequests(c) \/ AddressRequests(c) \/ FirewallRequests(c) \/ GroupRequests(c)
    PROVE  FwKept
<1>1. CASE \E calls : AsksNetwork(c, calls)
  BY <1>1, NetBegins
<1>2. CASE insertFirewall(c)
  <2>1. PICK n \in NetNames, ps \in AllowLists, as \in RangeLists :
           LET body == FirewallBody(ps, IF as = <<>> THEN <<AnyRange>> ELSE as) IN
           AsksFirewall(c, <<ps, IF as = <<>> THEN <<AnyRange>> ELSE as>>,
               <<Find("FindNetwork", n, "opt"), Find("CreateGroup", n, "must")>> \o AddsAll(body))
    BY <1>2 DEF insertFirewall
  <2> DEFINE ranges == IF as = <<>> THEN <<AnyRange>> ELSE as
             want == <<ps, ranges>>
             f == Find("FindNetwork", n, "opt")
             x == Find("CreateGroup", n, "must")
  <2>2. AsksFirewall(c, want, <<f, x>> \o AddsAll(FirewallBody(ps, ranges)))
    BY <2>1
  <2>3. IsList(ranges)
    BY ListsAre, OneRange
  <2> HIDE DEF ranges
  <2>4. want[1] = ps /\ want[2] = ranges
    OBVIOUS
  <2>5. CallShape(f) /\ f.do = "FindNetwork" /\ f.mode = "opt" /\ CallShape(x) /\ x.do = "CreateGroup"
    BY FindIs
  <2> HIDE DEF want, f, x
  <2>6. BodyShape(want)
    BY <2>3, <2>4, ListsAre DEF BodyShape
  <2> QED
    BY <2>2, <2>4, <2>5, <2>6, FwBegins
<1>3. CASE patchFirewall(c)
  <2>1. PICK n \in NetNames, ps \in AllowLists, as \in RangeLists :
           AsksFirewall(c, <<ps, as>>,
               <<Find("FindGroup", n, "must"), [NetCall("Replace") EXCEPT !.mode = "may"]>>
               \o AddsAll(FirewallBody(ps, as)))
    BY <1>3 DEF patchFirewall
  <2> DEFINE want == <<ps, as>>
             f == Find("FindGroup", n, "must")
             x == ReplaceCall
  <2>2. AsksFirewall(c, want, <<f, x>> \o AddsAll(FirewallBody(ps, as)))
    BY <2>1 DEF ReplaceCall
  <2>3. want[1] = ps /\ want[2] = as
    OBVIOUS
  <2>4. CallShape(f) /\ f.do = "FindGroup" /\ f.mode = "must" /\ CallShape(x) /\ x.do = "Replace"
    BY FindIs, ReplaceCallIs
  <2> HIDE DEF want, f, x
  <2>5. BodyShape(want)
    BY <2>3, ListsAre DEF BodyShape
  <2> QED
    BY <2>2, <2>3, <2>4, <2>5, FwBegins
<1>4. CASE NetworkRequests(c)
  BY <1>1, <1>4 DEF NetworkRequests, CreateVpc, DeleteVpc, CreateSubnet, DeleteSubnet, insertNetwork,
     deleteNetwork, insertSubnetwork, deleteSubnetwork, createOrUpdateVNet, deleteVNet, createOrUpdateSubnet,
     deleteVNetSubnet
<1>5. CASE AddressRequests(c)
  BY <1>1, <1>5 DEF AddressRequests, AllocateAddress, ReleaseAddress, AssociateAddress, DisassociateAddress,
     AddressCall, insertAddress, deleteAddress, createOrUpdatePublicIP, deletePublicIP
<1>6. CASE FirewallRequests(c)
  BY <1>1, <1>2, <1>3, <1>6 DEF FirewallRequests, AuthorizeSecurityGroupIngress, RevokeSecurityGroupIngress,
     deleteFirewall
<1>7. CASE GroupRequests(c)
  BY <1>1, <1>7 DEF GroupRequests, CreateSecurityGroup, DeleteSecurityGroup, AuthorizeSecurityGroupEgress,
     RevokeSecurityGroupEgress, createOrUpdateNSG, deleteNSG, createOrUpdateSecurityRule, deleteSecurityRule
<1> QED
  BY <1>4, <1>5, <1>6, <1>7

-----------------------------------------------------------------------------
(* Network: the theorems *)

LEMMA FwInit == ShimInit /\ NetworkInit => FwInv
<1> SUFFICES ASSUME ShimInit, NetworkInit PROVE FwInv
  OBVIOUS
<1>1. GroupInv
  BY DEF NetworkInit, GroupInv, GroupsShaped, GroupsOnce, GroupsNumbered, GrantsThere
<1>2. NetReqs
  BY DEF ShimInit, NetReqs
<1>3. NetSolo
  BY NoneIsNoClient DEF ShimInit, NetSolo
<1>4. AnswerHolds(backend, answer, groups)
  BY DEF ShimInit, AnswerHolds
<1> QED
  BY <1>1, <1>2, <1>3, <1>4 DEF FwInv

\* A call of any backend leaves the backend as it is.
SameBackend == backend' = backend
LEMMA WaysOn ==
    ASSUME NEW c
    PROVE  /\ \A r : Goes(c, r) => SameBackend
           /\ \A a : Ends(c, a) => SameBackend
           /\ Fails(c) => SameBackend
           /\ \A t, b : NetContinues(c, t, b) => SameBackend
           /\ NetDone(c) => SameBackend
           /\ NetRefused(c) => SameBackend
           /\ \A id : NetMade(c, id) => SameBackend
<1>1. \A r : Goes(c, r) => SameBackend
  BY DEF Goes, SameBackend
<1>2. \A a : Ends(c, a) => SameBackend
  BY DEF Ends, SameBackend
<1>3. Fails(c) => SameBackend
  BY <1>2 DEF Fails
<1>4. ASSUME NEW t, NEW b, NetContinues(c, t, b) PROVE SameBackend
  BY <1>1, <1>2, <1>4 DEF NetContinues
<1>5. NetDone(c) => SameBackend
  BY <1>4 DEF NetDone
<1>6. NetRefused(c) => SameBackend
  BY <1>3, <1>4 DEF NetRefused
<1>7. ASSUME NEW id, NetMade(c, id) PROVE SameBackend
  <2>1. (\E a : Ends(c, a)) \/ (\E r : Goes(c, r))
    BY <1>7 DEF NetMade
  <2> QED
    BY <1>1, <1>2, <2>1
<1> QED
  BY <1>1, <1>2, <1>3, <1>4, <1>5, <1>6, <1>7

LEMMA ChangesOn ==
    ASSUME NEW c
    PROVE  /\ MakesNet(c) \/ MakesSubnet(c) \/ MakesGroup(c) => SameBackend
           /\ DropsNet(c) \/ DropsSubnet(c) \/ DropsGroup(c) \/ DropsAddress(c) => SameBackend
           /\ \A g, rules, ranges : Writes(c, g, rules, ranges) => SameBackend
           /\ \A next : GetsGroup(c, next) => SameBackend
<1>1. MakesNet(c) \/ MakesSubnet(c) \/ MakesGroup(c) => SameBackend
  BY WaysOn DEF MakesNet, MakesSubnet, MakesGroup
<1>2. DropsNet(c) \/ DropsSubnet(c) \/ DropsGroup(c) \/ DropsAddress(c) => SameBackend
  BY WaysOn DEF DropsNet, DropsSubnet, DropsGroup, DropsAddress
<1>3. \A g, rules, ranges : Writes(c, g, rules, ranges) => SameBackend
  BY WaysOn DEF Writes
<1>4. ASSUME NEW next, GetsGroup(c, next) PROVE SameBackend
  <2>1. NetRefused(c) \/ \E r : Goes(c, r)
    BY <1>4 DEF GetsGroup
  <2> QED
    BY <2>1, WaysOn
<1> QED
  BY <1>1, <1>2, <1>3, <1>4

LEMMA OtherCloudsOn ==
    ASSUME NEW c, ~FwCloud, NetworkCall(c)
    PROVE  SameBackend
<1>1. CASE FindNetwork(c) \/ FindSubnet(c) \/ FindGroup(c) \/ FindAddress(c) \/ ReadGroup(c)
  <2>1. (\E r : Goes(c, r)) \/ Ends(c, None)
    <3>1. CASE FindNetwork(c)
      BY <3>1 DEF FindNetwork, LooksUp, Fails
    <3>2. CASE FindSubnet(c)
      BY <3>2 DEF FindSubnet, LooksUp, Fails
    <3>3. CASE FindGroup(c)
      BY <3>3 DEF FindGroup, LooksUp, Fails
    <3>4. CASE FindAddress(c)
      BY <3>4 DEF FindAddress, LooksUp, Fails
    <3>5. CASE ReadGroup(c)
      BY <3>5 DEF ReadGroup, LooksUp, Fails
    <3> QED
      BY <1>1, <3>1, <3>2, <3>3, <3>4, <3>5
  <2> QED
    BY <2>1, WaysOn
<1>2. CASE PickRule(c) \/ Replace(c) \/ NetCallIgnored(c)
  <2>1. (\E r : Goes(c, r)) \/ Fails(c) \/ NetRefused(c) \/ \E t, b : NetContinues(c, t, b)
    BY <1>2 DEF PickRule, Replace, NetCallIgnored
  <2> QED
    BY <2>1, WaysOn
<1>3. CASE \/ GcpCreateNetwork(c) \/ GcpDeleteNetwork(c) \/ GcpCreateSubnet(c)
           \/ GcpDeleteSubnet(c) \/ GcpCreateSecurityGroup(c)
           \/ GcpDeleteSecurityGroup(c) \/ GcpAddRule(c) \/ GcpRemoveRule(c)
  BY <1>3, WaysOn, ChangesOn DEF GcpCreateNetwork, GcpDeleteNetwork, GcpCreateSubnet, GcpDeleteSubnet,
     GcpCreateSecurityGroup, GcpDeleteSecurityGroup, GcpAddRule, GcpRemoveRule
<1>4. CASE GcpPatchAdding(c) \/ GcpPatchRemoving(c)
  <2>1. NetRefused(c) \/ \E g, rules, ranges : Writes(c, g, rules, ranges)
    BY <1>4 DEF GcpPatchAdding, GcpPatchRemoving
  <2> QED
    BY <2>1, WaysOn, ChangesOn
<1>5. CASE \/ GcpAllocatePublicIP(c) \/ GcpGetsAddress(c) \/ GcpReleasePublicIP(c)
           \/ GcpAssociatePublicIP(c) \/ GcpDisassociatePublicIP(c)
  <2>1. (\E r : Goes(c, r)) \/ NetDone(c) \/ NetRefused(c) \/ DropsAddress(c)
    BY <1>5 DEF GcpAllocatePublicIP, GcpGetsAddress, GcpReleasePublicIP, GcpAssociatePublicIP,
       GcpDisassociatePublicIP
  <2> QED
    BY <2>1, WaysOn, ChangesOn
<1>6. CASE \/ AzureCreateNetwork(c) \/ AzureDeleteNetwork(c)
           \/ AzureCreateSubnet(c) \/ AzureDeleteSubnet(c)
           \/ AzureCreateSecurityGroup(c) \/ AzureDeleteSecurityGroup(c)
  BY <1>6, WaysOn, ChangesOn DEF AzureCreateNetwork, AzureDeleteNetwork, AzureCreateSubnet, AzureDeleteSubnet,
     AzureCreateSecurityGroup, AzureDeleteSecurityGroup
<1>7. CASE AzureAddRule(c) \/ AzureRemoveRule(c)
  <2>1. NetRefused(c) \/ \E g, rules, ranges : Writes(c, g, rules, ranges)
    BY <1>7 DEF AzureAddRule, AzureRemoveRule
  <2> QED
    BY <2>1, WaysOn, ChangesOn
<1>8. CASE \/ AzureAllocatePublicIP(c) \/ AzureReleasePublicIP(c) \/ AzureAssociatePublicIP(c)
           \/ AzureDisassociatePublicIP(c)
  <2>1. (\E id : NetMade(c, id)) \/ NetDone(c) \/ DropsAddress(c)
    BY <1>8 DEF AzureAllocatePublicIP, AzureReleasePublicIP, AzureAssociatePublicIP, AzureDisassociatePublicIP
  <2> QED
    BY <2>1, WaysOn, ChangesOn
<1> QED
  BY <1>1, <1>2, <1>3, <1>4, <1>5, <1>6, <1>7, <1>8 DEF FwCloud, NetworkCall

LEMMA FwStep == FwInv /\ [NetworkNext]_<<shimVars, netVars>> => FwInv'
<1> SUFFICES ASSUME FwInv, [NetworkNext]_<<shimVars, netVars>> PROVE FwInv'
  OBVIOUS
<1>1. CASE UNCHANGED <<shimVars, netVars>>
  <2>1. backend' = backend /\ req' = req /\ alone' = alone /\ answer' = answer /\ groups' = groups
        /\ granted' = granted /\ netSeq' = netSeq
    BY <1>1 DEF shimVars, netVars
  <2>2. GroupInv => GroupInv'
    BY <2>1 DEF GroupInv, FwCloud, GroupsShaped, RuleList, GroupsOnce, GroupsNumbered, GrantsThere
  <2>3. NetReqs => NetReqs'
    BY <2>1 DEF NetReqs
  <2>4. NetSolo => NetSolo'
    BY <2>1 DEF NetSolo
  <2>5. FwCloud' <=> FwCloud
    BY <2>1 DEF FwCloud
  <2>6. AnswerHolds(backend, answer, groups) => AnswerHolds(backend', answer', groups')
    BY <2>1
  <2> QED
    BY <2>2, <2>3, <2>4, <2>5, <2>6 DEF FwInv
<1>2. CASE NetworkNext
  <2>1. PICK c \in Clients : \/ NetworkRequests(c) \/ AddressRequests(c) \/ FirewallRequests(c) \/ GroupRequests(c)
                             \/ NetworkCall(c)
                             \/ Dies(c) /\ UNCHANGED netVars
    BY <1>2 DEF NetworkNext
  <2>2. CASE ~FwCloud
    <3>1. SameBackend
      <4>1. CASE NetworkRequests(c) \/ AddressRequests(c) \/ FirewallRequests(c) \/ GroupRequests(c)
        BY <4>1, NetRequestsBegin DEF Requested, Begin, SameBackend
      <4>2. CASE Dies(c)
        BY <4>2, WaysOn DEF Dies
      <4> QED
        BY <2>1, <2>2, <4>1, <4>2, OtherCloudsOn
    <3>2. ~FwCloud'
      BY <2>2, <3>1 DEF FwCloud, SameBackend
    <3> QED
      BY <3>2 DEF FwInv
  <2>3. CASE FwCloud
    <3>1. GroupInv /\ NetReqs /\ NetSolo
      BY <2>3 DEF FwInv
    <3>2. CASE NetworkRequests(c) \/ AddressRequests(c) \/ FirewallRequests(c) \/ GroupRequests(c)
      <4>1. GroupsStay /\ backend' = backend
        BY <3>2, NetRequestsBegin DEF Requested, Begin, GroupsStay, netVars
      <4>2. GroupInv'
        BY <2>3, <3>1, <4>1, GroupsStaying
      <4>3. FwKept
        BY <3>1, <3>2, RequestsKeep
      <4> QED
        BY <4>2, <4>3 DEF FwInv, FwKept
    <3>3. CASE Dies(c) /\ UNCHANGED netVars
      <4>1. GroupsStay /\ backend' = backend /\ Ends(c, None)
        BY <3>3 DEF Dies, Fails, Ends, GroupsStay, netVars
      <4>2. GroupInv'
        BY <2>3, <3>1, <4>1, GroupsStaying
      <4>3. FwKept
        BY <3>1, <4>1, FwEnding DEF AnswerHolds
      <4> QED
        BY <4>2, <4>3 DEF FwInv, FwKept
    <3>4. CASE NetworkCall(c)
      <4>1. req[c] # Idle /\ req[c] = NetReqRec(req[c])
        BY <3>1, <3>4 DEF NetworkCall, NetReqs
      <4>2. GroupEffect /\ NetStep(c)
        BY <2>3, <3>1, <3>4, <4>1, NetCallEffect DEF NetEffect
      <4>3. backend' = backend
        BY <4>2 DEF NetStep, Goes, Ends
      <4>4. GroupInv'
        BY <2>3, <3>1, <4>2, <4>3, GroupEffectKeeps
      <4>5. CASE alone = c /\ req[c].op = "firewall"
        <5>1. FwHere(c)
          BY <2>3, <3>1, <4>1, <4>5 DEF FwHere
        <5> QED
          BY <3>4, <4>4, <5>1, FwCall DEF FwInv, FwKept
      <4>6. CASE ~(alone = c /\ req[c].op = "firewall")
        BY <3>1, <4>1, <4>2, <4>4, <4>6, FwElse DEF FwInv, FwKept
      <4> QED
        BY <4>5, <4>6
    <3> QED
      BY <2>1, <3>2, <3>3, <3>4
  <2> QED
    BY <2>2, <2>3
<1> QED
  BY <1>1, <1>2

LEMMA FwInvHolds == NetworkSpec => []FwInv
BY FwInit, FwStep, PTL DEF NetworkSpec

\* The positions in a body of l ranges: every entry with every range.
EntryAt(i, l) == ((i - 1) \div l) + 1
RangeAt(i, l) == ((i - 1) % l) + 1
LEMMA EntryAndRange ==
    ASSUME NEW m \in Nat, NEW l \in Nat, NEW i \in 1..m * l
    PROVE  EntryAt(i, l) \in 1..m /\ RangeAt(i, l) \in 1..l
<1>1. l > 0
  <2>1. l = 0 => m * l = 0
    OBVIOUS
  <2> QED
    BY <2>1
<1> DEFINE n == i - 1
           q == n \div l
           r == n % l
<1>2. n \in Nat /\ q \in Int /\ r \in Int /\ r >= 0 /\ r < l /\ n = l * q + r
  BY <1>1
<1>3. n < m * l
  BY <1>1
<1> HIDE DEF n, q, r
<1>4. q >= 0
  <2>1. q < 0 => l * q <= l * (-1)
    BY <1>1, <1>2
  <2> QED
    BY <1>1, <1>2, <2>1
<1>5. q < m
  <2>1. q >= m => l * q >= l * m
    BY <1>1, <1>2
  <2>2. l * m = m * l
    BY <1>1
  <2> QED
    BY <1>1, <1>2, <1>3, <2>1, <2>2
<1> QED
  BY <1>1, <1>2, <1>4, <1>5 DEF n, q, r, EntryAt, RangeAt

LEMMA PlaceOfPair ==
    ASSUME NEW m \in Nat, NEW l \in Nat, NEW a \in 1..m, NEW b \in 1..l
    PROVE  \E i \in 1..m * l : EntryAt(i, l) = a /\ RangeAt(i, l) = b
<1> DEFINE x == a - 1
           y == b - 1
           n == l * x + y
           q == n \div l
           r == n % l
<1>1. x \in Nat /\ x + 1 <= m /\ y \in Nat /\ y < l /\ l > 0
  OBVIOUS
<1>2. n \in Nat
  BY <1>1
<1>3. q \in Int /\ r \in Int /\ r >= 0 /\ r < l /\ n = l * q + r
  BY <1>1, <1>2
<1>4. n < m * l
  <2>1. l * (x + 1) <= l * m
    BY <1>1
  <2>2. l * (x + 1) = l * x + l /\ l * m = m * l
    BY <1>1
  <2> QED
    BY <1>1, <2>1, <2>2
<1>5. n = l * x + y
  OBVIOUS
<1> HIDE DEF n, q, r, x, y
<1>6. q = x
  <2>1. q >= x + 1 => l * q >= l * (x + 1)
    BY <1>1, <1>3
  <2>2. q <= x - 1 => l * q <= l * (x - 1)
    BY <1>1, <1>3
  <2>3. l * (x + 1) = l * x + l /\ l * (x - 1) = l * x - l
    BY <1>1
  <2> QED
    BY <1>1, <1>3, <1>5, <2>1, <2>2, <2>3
<1>7. r = y
  BY <1>1, <1>3, <1>5, <1>6
<1> DEFINE j == n + 1
<1>8. j \in 1..m * l /\ j - 1 = n
  BY <1>1, <1>2, <1>4
<1> HIDE DEF j
<1>9. EntryAt(j, l) = a /\ RangeAt(j, l) = b
  BY <1>1, <1>6, <1>7, <1>8 DEF q, r, x, y, EntryAt, RangeAt
<1> QED
  BY <1>8, <1>9

\* The frontend reads nothing out of a body that is not in it, and all there is
\* if no entry names several ports.
LEMMA BodyAsked ==
    ASSUME NEW w, BodyShape(w)
    PROVE  /\ BodyRules(w) \subseteq WholeBody(w)
           /\ \A x \in BodyRules(w) : Inbound(x)
           /\ OnePortEach(w) => BodyRules(w) = WholeBody(w)
<1> DEFINE ps == w[1]
           as == w[2]
           m == Len(ps)
           l == Len(as)
           Asked(a, port, y) ==
             <<[dir |-> "in", proto |-> ps[a].proto, from |-> port[1], to |-> port[2]], y>>
<1>1. m \in Nat /\ l \in Nat /\ DOMAIN ps = 1..m /\ DOMAIN as = 1..l
  BY ListFacts DEF BodyShape
<1>2. BodyRules(w) = {DomainRule(ps[EntryAt(i, l)], as[RangeAt(i, l)]) : i \in 1..m * l}
  BY DEF BodyRules, FirewallBody, Members, EntryAt, RangeAt
<1>5. \A i \in 1..m : IsList(ps[i].ports)
  BY DEF BodyShape
<1>6. WholeBody(w) = UNION {AskedFor(ps[i], as) : i \in 1..m}
  BY <1>1 DEF WholeBody
<1>7. OnePortEach(w) <=> \A i \in 1..m : Len(ps[i].ports) <= 1
  BY <1>1 DEF OnePortEach
<1>8. \A i \in 1..l : as[i] \in Members(as)
  BY <1>1 DEF Members
<1>9. \A y \in Members(as) : \E i \in 1..l : y = as[i]
  BY <1>1 DEF Members
<1>a. ASSUME NEW a, NEW x
      PROVE  x \in AskedFor(ps[a], as) <=> \E port \in AskedPorts(ps[a]) : \E y \in Members(as) : x = Asked(a, port, y)
  BY DEF AskedFor
<1> HIDE DEF ps, as, m, l, Asked
<1>3. \A i \in 1..m * l : EntryAt(i, l) \in 1..m /\ RangeAt(i, l) \in 1..l
  BY <1>1, EntryAndRange
<1>4. ASSUME NEW a \in 1..m, NEW b \in 1..l PROVE \E i \in 1..m * l : EntryAt(i, l) = a /\ RangeAt(i, l) = b
  BY <1>1, PlaceOfPair
<1>10. ASSUME NEW a \in 1..m, NEW b \in 1..l
       PROVE  Inbound(DomainRule(ps[a], as[b])) /\ DomainRule(ps[a], as[b]) \in AskedFor(ps[a], as)
  <2> DEFINE port == IF ps[a].ports = <<>> THEN <<0, 0>> ELSE ps[a].ports[1]
             rule == Asked(a, port, as[b])
  <2>1. DomainRule(ps[a], as[b]) = rule
    BY DEF DomainRule, Asked
  <2>2. port \in AskedPorts(ps[a])
    <3>1. CASE ps[a].ports = <<>>
      BY <3>1 DEF AskedPorts
    <3>2. CASE ps[a].ports # <<>>
      <4>1. IsList(ps[a].ports)
        BY <1>5
      <4>2. Len(ps[a].ports) \in Nat /\ Len(ps[a].ports) # 0 /\ \A i \in 1..Len(ps[a].ports) : ps[a].ports[i] \in Members(ps[a].ports)
        BY <3>2, <4>1, ListFacts
      <4>3. 1 \in 1..Len(ps[a].ports)
        BY <4>2
      <4> QED
        BY <3>2, <4>2, <4>3 DEF AskedPorts
    <3> QED
      BY <3>1, <3>2
  <2> HIDE DEF port
  <2>3. rule \in AskedFor(ps[a], as)
    BY <1>a, <1>8, <2>2
  <2>4. Inbound(rule)
    BY DEF Inbound, Asked
  <2> QED
    BY <2>1, <2>3, <2>4
<1>11. ASSUME NEW x \in BodyRules(w) PROVE Inbound(x) /\ x \in WholeBody(w)
  <2>1. PICK i \in 1..m * l : x = DomainRule(ps[EntryAt(i, l)], as[RangeAt(i, l)])
    BY <1>2
  <2>2. EntryAt(i, l) \in 1..m /\ RangeAt(i, l) \in 1..l
    BY <1>3
  <2> QED
    BY <1>6, <1>10, <2>1, <2>2
<1>12. ASSUME OnePortEach(w), NEW x \in WholeBody(w) PROVE x \in BodyRules(w)
  <2>1. PICK a \in 1..m : x \in AskedFor(ps[a], as)
    BY <1>6
  <2>2. PICK port \in AskedPorts(ps[a]), y \in Members(as) : x = Asked(a, port, y)
    BY <1>a, <2>1
  <2>3. PICK b \in 1..l : y = as[b]
    BY <1>9
  <2>4. port = IF ps[a].ports = <<>> THEN <<0, 0>> ELSE ps[a].ports[1]
    <3>1. CASE ps[a].ports = <<>>
      BY <3>1 DEF AskedPorts
    <3>2. CASE ps[a].ports # <<>>
      <4>1. port \in Members(ps[a].ports)
        BY <3>2 DEF AskedPorts
      <4>2. IsList(ps[a].ports) /\ Len(ps[a].ports) <= 1
        BY <1>5, <1>7, <1>12
      <4>3. Len(ps[a].ports) \in Nat
        BY <4>2, ListFacts
      <4>4. PICK i \in 1..Len(ps[a].ports) : port = ps[a].ports[i]
        BY <4>1, <4>2, ListFacts
      <4>5. i = 1
        BY <4>2, <4>3, <4>4
      <4> QED
        BY <3>2, <4>4, <4>5
    <3> QED
      BY <3>1, <3>2
  <2>5. x = DomainRule(ps[a], as[b])
    BY <2>2, <2>3, <2>4 DEF DomainRule, Asked
  <2>6. PICK i \in 1..m * l : EntryAt(i, l) = a /\ RangeAt(i, l) = b
    BY <1>4
  <2> QED
    BY <1>2, <2>5, <2>6
<1> QED
  BY <1>11, <1>12

\* GrantsKept holds of every network, group, rule and number of clients: what an
\* acknowledged AddRule filed stays in force on inmem, k8s and aws until a removal
\* that matches it (on k8s, by direction and port) or the end of the group.
THEOREM GrantsAlwaysKept == NetworkSpec => []GrantsKept
<1>1. FwInv => GrantsKept
  BY DEF FwInv, FwCloud, GroupInv, GrantsThere, GrantsKept, GroupById, InForce
<1> QED
  BY <1>1, FwInvHolds, PTL

\* FirewallAsAsked holds of every body and of every history before the request:
\* on inmem and aws, and on k8s of what a policy can express, insertFirewall and
\* patchFirewall leave nothing in force that their body does not ask for, and all
\* of it if no entry names several ports, when nothing runs beside them and no
\* call fails.
THEOREM FirewallsAlwaysAsAsked == NetworkSpec => []FirewallAsAsked
<1>1. ASSUME FwInv PROVE FirewallAsAsked
  <2> SUFFICES ASSUME answer # None, FwCloud, Expressible(WholeBody(answer.want)), NEW g \in GroupById(answer.of)
               PROVE  LET allows == {r \in InForce(g) : Inbound(r)} IN
                      /\ allows \subseteq WholeBody(answer.want)
                      /\ OnePortEach(answer.want) => allows = WholeBody(answer.want)
    BY DEF FirewallAsAsked, FwCloud
  <2> DEFINE w == answer.want
  <2>1. BodyShape(w) /\ InForce(g) = FiledAll(backend, BodyRules(w))
    BY <1>1 DEF FwInv, FwCloud, AnswerHolds, GroupById, InForce
  <2>2. /\ BodyRules(w) \subseteq WholeBody(w)
        /\ \A x \in BodyRules(w) : Inbound(x)
        /\ OnePortEach(w) => BodyRules(w) = WholeBody(w)
    BY <2>1, BodyAsked
  <2> HIDE DEF w
  <2>3. Expressible(WholeBody(w))
    BY DEF w
  <2>4. \A x \in BodyRules(w) : Filed(backend, x) = x
    BY <2>2, <2>3 DEF Expressible, Filed
  <2>5. InForce(g) = BodyRules(w)
    BY <2>1, <2>4 DEF FiledAll
  <2> QED
    BY <2>2, <2>5 DEF w
<1> QED
  BY <1>1, FwInvHolds, PTL

-----------------------------------------------------------------------------
(* Load balancers: requests, whatever they are for *)

LbReqRec(r) == [op |-> r.op, todo |-> r.todo, says |-> r.says]
LbReqs ==
    /\ DOMAIN req = Clients /\ req = [c \in Clients |-> req[c]]
    /\ \A c \in Clients : req[c] = Idle \/ req[c] = LbReqRec(req[c])

\* The request of c goes on as the same request, or ends.
LbStep(c) ==
    \/ \E r : Goes(c, r) /\ r = LbReqRec(r) /\ (req[c].says = None => r.says = None)
    \/ \E says : Ends(c, says) /\ (req[c].says = None => says = None)

LEMMA LbTodoSet ==
    ASSUME NEW r, r = LbReqRec(r), NEW t
    PROVE  /\ [r EXCEPT !.todo = t] = [op |-> r.op, todo |-> t, says |-> r.says]
           /\ [r EXCEPT !.todo = t] = LbReqRec([r EXCEPT !.todo = t])
<1>1. [r EXCEPT !.todo = t] = [op |-> r.op, todo |-> t, says |-> r.says]
  BY DEF LbReqRec
<1> QED
  BY <1>1 DEF LbReqRec

SaysNow(r, t, s) == [r EXCEPT !.todo = t, !.says = s]

LEMMA LbSaysSet ==
    ASSUME NEW r, r = LbReqRec(r), NEW t, NEW s
    PROVE  /\ SaysNow(r, t, s) = [op |-> r.op, todo |-> t, says |-> s]
           /\ SaysNow(r, t, s) = LbReqRec(SaysNow(r, t, s))
<1> DEFINE q == [r EXCEPT !.todo = t]
           p == SaysNow(r, t, s)
<1>1. q = [op |-> r.op, todo |-> t, says |-> r.says]
  BY LbTodoSet
<1>2. p = [q EXCEPT !.says = s]
  BY DEF LbReqRec, SaysNow
<1> HIDE DEF q, p
<1>3. [q EXCEPT !.says = s] = [op |-> r.op, todo |-> t, says |-> s]
  BY <1>1
<1>4. p = [op |-> r.op, todo |-> t, says |-> s]
  BY <1>2, <1>3
<1>5. p = LbReqRec(p)
  BY <1>4 DEF LbReqRec
<1> QED
  BY <1>4, <1>5 DEF p

LEMMA LbGoing ==
    ASSUME NEW c, req[c] = LbReqRec(req[c]), NEW t, Goes(c, [req[c] EXCEPT !.todo = t])
    PROVE  LbStep(c)
<1> DEFINE r == [req[c] EXCEPT !.todo = t]
<1>1. r = LbReqRec(r) /\ r.says = req[c].says
  BY LbTodoSet
<1> HIDE DEF r
<1>2. Goes(c, r)
  BY DEF r
<1> QED
  BY <1>1, <1>2 DEF LbStep

LEMMA LbEnding ==
    ASSUME NEW c
    PROVE  /\ Ends(c, None) => LbStep(c)
           /\ Fails(c) => LbStep(c)
           /\ Ends(c, req[c].says) => LbStep(c)
BY DEF LbStep, Fails

LEMMA LbGoesOnSteps ==
    ASSUME NEW c, req[c] = LbReqRec(req[c]), NEW calls, LbGoesOn(c, calls)
    PROVE  LbStep(c)
BY LbGoing, LbEnding DEF LbGoesOn

LEMMA LbDoneSteps ==
    ASSUME NEW c, req[c] = LbReqRec(req[c])
    PROVE  /\ LbDone(c) => LbStep(c)
           /\ LbRefused(c) => LbStep(c)
           /\ \A id : LbMade(c, id) => LbStep(c)
           /\ \A id : ListenerMade(c, id) => LbStep(c)
           /\ \A n, id : PoolKnown(c, n, id) => LbStep(c)
           /\ FindsNothing(c) => LbStep(c)
<1>1. \A calls : LbGoesOn(c, calls) => LbStep(c)
  BY LbGoesOnSteps
<1>2. LbDone(c) => LbStep(c)
  BY <1>1 DEF LbDone
<1>3. LbRefused(c) => LbStep(c)
  <2>1. \A t : Goes(c, [req[c] EXCEPT !.todo = t]) => LbStep(c)
    BY LbGoing
  <2> QED
    BY <1>1, <1>2, <2>1, LbEnding DEF LbRefused
<1>4. \A id : LbMade(c, id) => LbStep(c)
  BY <1>1 DEF LbMade
<1>5. \A id : ListenerMade(c, id) => LbStep(c)
  BY <1>1 DEF ListenerMade
<1>6. \A n, id : PoolKnown(c, n, id) => LbStep(c)
  BY <1>1 DEF PoolKnown
<1>7. FindsNothing(c) => LbStep(c)
  BY <1>1, <1>2, LbEnding DEF FindsNothing
<1> QED
  BY <1>2, <1>3, <1>4, <1>5, <1>6, <1>7

\* A k8s call that goes on with another one.
LEMMA LbTurning ==
    ASSUME NEW c, req[c] = LbReqRec(req[c])
    PROVE  /\ \A do, read : Turns(c, do, read) => LbStep(c)
           /\ \A p, do : TurnsPool(c, p, do) => LbStep(c)
<1>1. ASSUME NEW x, Goes(c, [req[c] EXCEPT !.todo[1] = x])
      PROVE  LbStep(c)
  <2>1. [req[c] EXCEPT !.todo[1] = x] = [req[c] EXCEPT !.todo = [req[c].todo EXCEPT ![1] = x]]
    BY DEF LbReqRec
  <2> QED
    BY <1>1, <2>1, LbGoing
<1>2. ASSUME NEW do, NEW read, Turns(c, do, read)
      PROVE  LbStep(c)
  <2>1. Goes(c, [req[c] EXCEPT !.todo[1] = [req[c].todo[1] EXCEPT !.do = do, !.arg = read]])
    BY <1>2 DEF Turns
  <2> QED
    BY <1>1, <2>1
<1>3. ASSUME NEW p, NEW do, TurnsPool(c, p, do)
      PROVE  LbStep(c)
  BY <1>1, <1>3 DEF TurnsPool
<1> QED
  BY <1>2, <1>3

LEMMA LbLooksStep ==
    ASSUME NEW c, req[c] = LbReqRec(req[c]),
           \/ FindsLb(c) \/ FindsPool(c) \/ PutsBlob(c) \/ DeletesBlob(c)
           \/ ReadsExisting(c) \/ ReadsPatched(c) \/ ReadsProxy(c) \/ ReadsMap(c)
           \/ ReadsGateway(c) \/ ListsListeners(c) \/ ListsRules(c) \/ ListsTagged(c)
           \/ LbCallIgnored(c)
    PROVE  LbStep(c)
<1>0. \A calls : LbGoesOn(c, calls) => LbStep(c)
  BY LbGoesOnSteps
<1>1. CASE FindsLb(c)
  <2>1. ASSUME NEW t, NEW s, s = None \/ req[c].says # None, Goes(c, SaysNow(req[c], t, s))
        PROVE  LbStep(c)
    <3> DEFINE r == SaysNow(req[c], t, s)
    <3>1. r = LbReqRec(r) /\ r = [op |-> req[c].op, todo |-> t, says |-> s]
      BY LbSaysSet
    <3>2. Goes(c, r)
      BY <2>1
    <3> HIDE DEF r
    <3>3. r.says = s
      BY <3>1
    <3> QED
      BY <2>1, <3>1, <3>2, <3>3 DEF LbStep
  <2>2. ASSUME NEW l,
               Goes(c, [req[c] EXCEPT
                    !.todo = Each(Later(c), LAMBDA k : [k EXCEPT !.lb = l.id]),
                    !.says = IF @ = None THEN @
                             ELSE [@ EXCEPT !.lb = l.id, !.lsns = {x.id : x \in {y \in listeners : y.lb = l.id}}]])
        PROVE  LbStep(c)
    <3> DEFINE t == Each(Later(c), LAMBDA k : [k EXCEPT !.lb = l.id])
               L == {x.id : x \in {y \in listeners : y.lb = l.id}}
               s == IF req[c].says = None THEN req[c].says ELSE [req[c].says EXCEPT !.lb = l.id, !.lsns = L]
    <3>1. Goes(c, SaysNow(req[c], t, s))
      BY <2>2 DEF LbReqRec, SaysNow
    <3>2. s = None \/ req[c].says # None
      OBVIOUS
    <3> HIDE DEF t, s, L
    <3> QED
      BY <2>1, <3>1, <3>2
  <2> QED
    BY <1>1, <2>2, LbDoneSteps, LbEnding DEF FindsLb
<1>2. CASE FindsPool(c)
  BY <1>2, LbDoneSteps, LbEnding DEF FindsPool
<1>3. CASE PutsBlob(c) \/ DeletesBlob(c)
  BY <1>3, LbDoneSteps DEF PutsBlob, DeletesBlob
<1>4. ASSUME NEW do, NEW next(_), Reads(c, do, next)
      PROVE  LbStep(c)
  BY <1>0, <1>4, LbDoneSteps DEF Reads
<1>5. CASE ReadsExisting(c) \/ ReadsPatched(c) \/ ReadsProxy(c) \/ ReadsGateway(c)
  BY <1>4, <1>5 DEF ReadsExisting, ReadsPatched, ReadsProxy, ReadsGateway
<1>6. CASE ReadsMap(c) \/ ListsListeners(c) \/ ListsRules(c) \/ ListsTagged(c)
  BY <1>0, <1>6, LbDoneSteps DEF ReadsMap, ListsListeners, ListsRules, ListsTagged
<1>7. CASE LbCallIgnored(c)
  BY <1>7, LbDoneSteps DEF LbCallIgnored
<1> QED
  BY <1>1, <1>2, <1>3, <1>5, <1>6, <1>7

LEMMA LbAddsStep ==
    ASSUME NEW c, req[c] = LbReqRec(req[c])
    PROVE  /\ \A id : AddsLb(c, id) \/ AddsPool(c, id) => LbStep(c)
           /\ \A p : Registers(c, p) \/ Deregisters(c, p) => LbStep(c)
           /\ DropsPool(c) => LbStep(c)
           /\ \A app : DropsObject(c, app) => LbStep(c)
<1>1. \A id : AddsLb(c, id) \/ AddsPool(c, id) => LbStep(c)
  BY LbDoneSteps DEF AddsLb, AddsPool
<1>2. \A p : Registers(c, p) \/ Deregisters(c, p) => LbStep(c)
  BY LbDoneSteps DEF Registers, Deregisters, SetsTargets
<1>3. DropsPool(c) => LbStep(c)
  BY LbDoneSteps DEF DropsPool
<1>4. \A app : DropsObject(c, app) => LbStep(c)
  BY LbDoneSteps DEF DropsObject
<1> QED
  BY <1>1, <1>2, <1>3, <1>4

LEMMA InmemBalancerSteps ==
    ASSUME NEW c, req[c] = LbReqRec(req[c]),
           \/ InmemCreateLoadBalancer(c) \/ InmemDeleteLoadBalancer(c)
           \/ InmemCreateTargetGroup(c) \/ InmemDeleteTargetGroup(c)
           \/ InmemRegisterTargets(c) \/ InmemDeregisterTargets(c)
           \/ InmemCreateListener(c) \/ InmemDeleteListener(c)
           \/ InmemUpdateListener(c) \/ InmemCreateRule(c) \/ InmemDeleteRule(c)
           \/ InmemUpdateRule(c) \/ InmemSetRulePriorities(c)
    PROVE  LbStep(c)
<1>1. CASE InmemCreateLoadBalancer(c) \/ InmemDeleteLoadBalancer(c)
  BY <1>1, LbDoneSteps, LbAddsStep DEF InmemCreateLoadBalancer, InmemDeleteLoadBalancer
<1>2. CASE InmemCreateTargetGroup(c) \/ InmemDeleteTargetGroup(c)
  BY <1>2, LbDoneSteps, LbAddsStep DEF InmemCreateTargetGroup, InmemDeleteTargetGroup
<1>3. CASE InmemRegisterTargets(c) \/ InmemDeregisterTargets(c)
  BY <1>3, LbDoneSteps, LbAddsStep DEF InmemRegisterTargets, InmemDeregisterTargets
<1>4. CASE InmemCreateListener(c) \/ InmemDeleteListener(c)
  BY <1>4, LbDoneSteps DEF InmemCreateListener, InmemDeleteListener
<1>5. CASE InmemUpdateListener(c)
  BY <1>5, LbDoneSteps DEF InmemUpdateListener
<1>6. CASE InmemCreateRule(c) \/ InmemDeleteRule(c)
  BY <1>6, LbDoneSteps DEF InmemCreateRule, InmemDeleteRule
<1>7. CASE InmemUpdateRule(c)
  BY <1>7, LbDoneSteps DEF InmemUpdateRule
<1>8. CASE InmemSetRulePriorities(c)
  BY <1>8, LbDoneSteps, LbEnding DEF InmemSetRulePriorities
<1> QED
  BY <1>1, <1>2, <1>3, <1>4, <1>5, <1>6, <1>7, <1>8

LEMMA K8sBalancerSteps ==
    ASSUME NEW c, req[c] = LbReqRec(req[c]),
           \/ K8sCreateLoadBalancer(c) \/ K8sDeleteLoadBalancer(c)
           \/ K8sDeleteIngress(c) \/ K8sCreateTargetGroup(c)
           \/ K8sDeleteTargetGroup(c) \/ K8sRegisterTargets(c)
           \/ K8sDeregisterTargets(c) \/ K8sUpdateAdding(c)
           \/ K8sUpdateRemoving(c) \/ K8sCreateListener(c)
           \/ createIngressListener(c) \/ K8sGetService(c)
           \/ createServiceListener(c) \/ K8sDeleteListener(c) \/ K8sCreateRule(c)
           \/ K8sUpdateRules(c) \/ K8sDeleteRule(c) \/ K8sUpdateWithout(c)
           \/ K8sUpdates(c)
    PROVE  LbStep(c)
<1>1. CASE K8sCreateLoadBalancer(c) \/ K8sDeleteLoadBalancer(c) \/ K8sDeleteIngress(c)
  BY <1>1, LbDoneSteps, LbAddsStep, LbTurning DEF K8sCreateLoadBalancer, K8sDeleteLoadBalancer, K8sDeleteIngress
<1>2. CASE K8sCreateTargetGroup(c) \/ K8sDeleteTargetGroup(c)
  BY <1>2, LbDoneSteps, LbAddsStep DEF K8sCreateTargetGroup, K8sDeleteTargetGroup
<1>3. CASE K8sRegisterTargets(c) \/ K8sDeregisterTargets(c)
  BY <1>3, LbDoneSteps, LbTurning DEF K8sRegisterTargets, K8sDeregisterTargets
<1>4. CASE K8sUpdateAdding(c) \/ K8sUpdateRemoving(c)
  BY <1>4, LbDoneSteps, LbAddsStep DEF K8sUpdateAdding, K8sUpdateRemoving
<1>5. CASE K8sCreateListener(c)
  BY <1>5, LbDoneSteps, LbTurning DEF K8sCreateListener
<1>6. CASE createIngressListener(c) \/ createServiceListener(c)
  BY <1>6, LbDoneSteps DEF createIngressListener, createServiceListener
<1>7. CASE K8sGetService(c) \/ K8sDeleteListener(c) \/ K8sUpdates(c)
  BY <1>7, LbDoneSteps, LbTurning DEF K8sGetService, K8sDeleteListener, K8sUpdates
<1>8. CASE K8sCreateRule(c) \/ K8sDeleteRule(c)
  BY <1>8, LbDoneSteps, LbTurning DEF K8sCreateRule, K8sDeleteRule
<1>9. CASE K8sUpdateRules(c) \/ K8sUpdateWithout(c)
  BY <1>9, LbDoneSteps DEF K8sUpdateRules, K8sUpdateWithout
<1> QED
  BY <1>1, <1>2, <1>3, <1>4, <1>5, <1>6, <1>7, <1>8, <1>9

LEMMA AwsBalancerSteps ==
    ASSUME NEW c, req[c] = LbReqRec(req[c]),
           \/ AwsCreateLoadBalancer(c) \/ AwsDeleteLoadBalancer(c)
           \/ AwsCreateTargetGroup(c) \/ AwsDeleteTargetGroup(c)
           \/ AwsRegisterTargets(c) \/ AwsDeregisterTargets(c)
           \/ AwsCreateListener(c) \/ AwsDeleteListener(c) \/ AwsUpdates(c)
    PROVE  LbStep(c)
<1>1. CASE AwsCreateLoadBalancer(c) \/ AwsDeleteLoadBalancer(c)
  BY <1>1, LbDoneSteps, LbAddsStep DEF AwsCreateLoadBalancer, AwsDeleteLoadBalancer
<1>2. CASE AwsCreateTargetGroup(c) \/ AwsDeleteTargetGroup(c)
  BY <1>2, LbDoneSteps, LbAddsStep DEF AwsCreateTargetGroup, AwsDeleteTargetGroup
<1>3. CASE AwsRegisterTargets(c) \/ AwsDeregisterTargets(c)
  BY <1>3, LbDoneSteps, LbAddsStep DEF AwsRegisterTargets, AwsDeregisterTargets
<1>4. CASE AwsCreateListener(c) \/ AwsDeleteListener(c) \/ AwsUpdates(c)
  BY <1>4, LbDoneSteps DEF AwsCreateListener, AwsDeleteListener, AwsUpdates
<1> QED
  BY <1>1, <1>2, <1>3, <1>4

LEMMA BalancerStepsStep ==
    ASSUME NEW c, req[c] = LbReqRec(req[c]), BalancerSteps(c)
    PROVE  LbStep(c)
BY LbLooksStep, InmemBalancerSteps, K8sBalancerSteps, AwsBalancerSteps DEF BalancerSteps

-----------------------------------------------------------------------------
(* Load balancers: identifiers that inmem generates *)

IdsNumbered == backend = "inmem" => (\A l \in lbs : l.id \in Nat) /\ (\A l \in listeners : l.lb \in Nat)

LEMMA IdsKept ==
    ASSUME IdsNumbered, lbs' \subseteq lbs, listeners' \subseteq listeners, backend' = backend
    PROVE  IdsNumbered'
BY DEF IdsNumbered

LEMMA InmemIdsNumbered ==
    ASSUME BalancerInv, IdsNumbered, NEW c, backend = "inmem",
           \/ InmemCreateLoadBalancer(c) \/ InmemDeleteLoadBalancer(c)
           \/ InmemCreateTargetGroup(c) \/ InmemDeleteTargetGroup(c)
           \/ InmemRegisterTargets(c) \/ InmemDeregisterTargets(c)
           \/ InmemCreateListener(c) \/ InmemDeleteListener(c)
           \/ InmemUpdateListener(c) \/ InmemCreateRule(c) \/ InmemDeleteRule(c)
           \/ InmemUpdateRule(c) \/ InmemSetRulePriorities(c)
    PROVE  IdsNumbered'
<1>1. CASE LbRefused(c)
  BY <1>1, LbGoesOnKeeps, IdsKept DEF LbRefused, lbVars
<1>2. CASE InmemCreateLoadBalancer(c)
  <2>1. CASE Counts("lb") /\ AddsLb(c, Fresh("lb"))
    <3>1. Fresh("lb") \in Nat
      BY DEF BalancerInv, PoolsNumbered, Fresh
    <3>2. lbs' = lbs \cup {[id |-> Fresh("lb"), name |-> Now(c).name, app |-> Now(c).arg]} /\ listeners' = listeners
      BY <2>1 DEF AddsLb
    <3>3. backend' = backend
      BY <2>1, LbMadeKeeps DEF AddsLb
    <3> QED
      BY <3>1, <3>2, <3>3 DEF IdsNumbered
  <2> QED
    BY <1>1, <1>2, <2>1 DEF InmemCreateLoadBalancer
<1>3. CASE InmemDeleteLoadBalancer(c)
  BY <1>1, <1>3, LbGoesOnKeeps, IdsKept DEF InmemDeleteLoadBalancer
<1>4. CASE InmemCreateTargetGroup(c) \/ InmemDeleteTargetGroup(c)
  BY <1>1, <1>4, LbGoesOnKeeps, LbMadeKeeps, IdsKept
     DEF InmemCreateTargetGroup, InmemDeleteTargetGroup, AddsPool, DropsPool
<1>5. CASE InmemRegisterTargets(c) \/ InmemDeregisterTargets(c)
  BY <1>1, <1>5, LbGoesOnKeeps, IdsKept
     DEF InmemRegisterTargets, InmemDeregisterTargets, Registers, Deregisters, SetsTargets
<1>6. CASE InmemCreateListener(c)
  <2>1. CASE /\ LbById(Now(c).lb) # {} /\ lbs' = lbs /\ ListenerMade(c, Fresh("listener"))
             /\ \E p \in DefaultPools(c) :
                  listeners' = listeners \cup {NewListener(c, Fresh("listener"), FALSE, p)}
    <3>1. Now(c).lb \in Nat
      BY <2>1 DEF LbById, IdsNumbered
    <3>2. \A p : NewListener(c, Fresh("listener"), FALSE, p).lb = Now(c).lb
      BY DEF NewListener
    <3>3. backend' = backend
      BY <2>1, LbMadeKeeps
    <3> QED
      BY <2>1, <3>1, <3>2, <3>3 DEF IdsNumbered
  <2> QED
    BY <1>1, <1>6, <2>1 DEF InmemCreateListener
<1>7. CASE InmemDeleteListener(c)
  BY <1>1, <1>7, LbGoesOnKeeps, IdsKept DEF InmemDeleteListener
<1>8. CASE InmemUpdateListener(c)
  <2>1. ASSUME NEW l \in listeners, NEW port, NEW pool, lbs' = lbs, LbDone(c),
               listeners' = (listeners \ {l}) \cup {[l EXCEPT !.port = port, !.pool = pool]}
        PROVE  IdsNumbered'
    <3>1. l = ListenerRec(l) /\ l.lb \in Nat
      BY DEF BalancerInv, PartsShaped, IdsNumbered
    <3>2. [l EXCEPT !.port = port, !.pool = pool].lb = l.lb
      BY <3>1 DEF ListenerRec
    <3>3. backend' = backend
      BY <2>1, LbGoesOnKeeps
    <3> QED
      BY <2>1, <3>1, <3>2, <3>3 DEF IdsNumbered
  <2>2. ASSUME NEW l \in ListenerById(Now(c).lsn), lbs' = lbs, LbDone(c),
               listeners' = (listeners \ {l}) \cup {[l EXCEPT !.port = IF Now(c).port = 0 THEN @ ELSE Now(c).port,
                                                              !.pool = IF Now(c).pool = None THEN @
                                                                       ELSE Now(c).pool]}
        PROVE  IdsNumbered'
    <3> DEFINE port == IF Now(c).port = 0 THEN l.port ELSE Now(c).port
               pool == IF Now(c).pool = None THEN l.pool ELSE Now(c).pool
    <3>1. l \in listeners
      BY DEF ListenerById
    <3>2. l = ListenerRec(l)
      BY <3>1 DEF BalancerInv, PartsShaped
    <3>3. listeners' = (listeners \ {l}) \cup {[l EXCEPT !.port = port, !.pool = pool]}
      BY <2>2, <3>2 DEF ListenerRec
    <3> HIDE DEF port, pool
    <3> QED
      BY <2>1, <2>2, <3>1, <3>3
  <2> QED
    BY <1>1, <1>8, <2>2 DEF InmemUpdateListener
<1>9. CASE InmemCreateRule(c) \/ InmemDeleteRule(c)
  BY <1>1, <1>9, LbGoesOnKeeps, IdsKept DEF InmemCreateRule, InmemDeleteRule
<1>10. CASE InmemUpdateRule(c)
  BY <1>1, <1>10, LbGoesOnKeeps, IdsKept DEF InmemUpdateRule
<1>11. CASE InmemSetRulePriorities(c)
  BY <1>11, LbGoesOnKeeps, IdsKept DEF InmemSetRulePriorities
<1> QED
  BY <1>2, <1>3, <1>4, <1>5, <1>6, <1>7, <1>8, <1>9, <1>10, <1>11

LbLook(c) ==
    \/ FindsLb(c) \/ FindsPool(c) \/ PutsBlob(c) \/ DeletesBlob(c)
    \/ ReadsExisting(c) \/ ReadsPatched(c) \/ ReadsProxy(c) \/ ReadsMap(c)
    \/ ReadsGateway(c) \/ ListsListeners(c) \/ ListsRules(c) \/ ListsTagged(c)
    \/ LbCallIgnored(c)

LEMMA LbLooksLeave ==
    ASSUME NEW c, LbLook(c)
    PROVE  lbs' = lbs /\ listeners' = listeners /\ routes' = routes
<1>1. CASE UNCHANGED lbVars \/ UNCHANGED <<lbs, pools, listeners, routes, lbSeq, assured>>
  BY <1>1 DEF lbVars
<1>2. LbRefused(c) => UNCHANGED lbVars
  BY DEF LbRefused
<1>3. ASSUME NEW do, NEW next(_), Reads(c, do, next)
      PROVE  UNCHANGED lbVars
  BY <1>3 DEF Reads
<1>4. CASE ReadsExisting(c) \/ ReadsPatched(c) \/ ReadsProxy(c) \/ ReadsGateway(c)
  <2>1. UNCHANGED lbVars
    BY <1>3, <1>4 DEF ReadsExisting, ReadsPatched, ReadsProxy, ReadsGateway
  <2> QED
    BY <1>1, <2>1
<1>5. CASE FindsLb(c) \/ FindsPool(c) \/ ReadsMap(c) \/ ListsListeners(c) \/ ListsRules(c) \/ ListsTagged(c)
  <2>1. UNCHANGED lbVars
    BY <1>5 DEF FindsLb, FindsPool, ReadsMap, ListsListeners, ListsRules, ListsTagged
  <2> QED
    BY <1>1, <2>1
<1>6. CASE PutsBlob(c) \/ DeletesBlob(c) \/ LbCallIgnored(c)
  <2>1. UNCHANGED lbVars \/ UNCHANGED <<lbs, pools, listeners, routes, lbSeq, assured>>
    BY <1>2, <1>6 DEF PutsBlob, DeletesBlob, LbCallIgnored
  <2> QED
    BY <1>1, <2>1
<1> QED
  BY <1>4, <1>5, <1>6 DEF LbLook

LEMMA LbStepBackend ==
    ASSUME NEW c, LbStep(c)
    PROVE  backend' = backend
BY LbGoesOnKeeps DEF LbStep

LEMMA StepsIdsNumbered ==
    ASSUME BalancerInv, IdsNumbered, NEW c, req[c] = LbReqRec(req[c]), BalancerSteps(c)
    PROVE  IdsNumbered'
<1>1. backend' = backend
  BY BalancerStepsStep, LbStepBackend
<1>2. CASE backend # "inmem"
  BY <1>1, <1>2 DEF IdsNumbered
<1>3. CASE LbLook(c)
  BY <1>1, <1>3, LbLooksLeave, IdsKept
<1>4. CASE backend = "inmem" /\ ~LbLook(c)
  BY <1>4, InmemIdsNumbered DEF BalancerSteps, LbLook
<1> QED
  BY <1>2, <1>3, <1>4

-----------------------------------------------------------------------------
(* Load balancers: what a deletion has still to do *)

CallRec(k) ==
    [do |-> k.do, mode |-> k.mode, lb |-> k.lb, lsn |-> k.lsn, pool |-> k.pool, group |-> k.group,
     name |-> k.name, port |-> k.port, arg |-> k.arg]
DeleteKinds ==
    {"ListListeners", "ListRules", "DeleteRule", "UpdateWithout", "DeleteListener", "DeleteLb", "DeleteIngress"}
\* A call that lists or deletes parts; its error is discarded.
PartCall(k) == k = CallRec(k) /\ k.do \in DeleteKinds /\ k.mode = IF k.do = "ListRules" THEN "opt" ELSE "may"
Cascade(t) ==
    /\ IsList(t) /\ t # <<>>
    /\ t[Len(t)].do = "DeleteBlob" /\ t[Len(t)].mode = "must"
    /\ \A i \in 1..(Len(t) - 1) : PartCall(t[i])
DeletionOf(n) ==
    <<FindLb(n, "opt"), LbCall("ListListeners", "may"), LbCall("DeleteLb", "may"), DeleteBlob("rule", n, "must")>>
DeletionStarts(r) ==
    r.says = [lb |-> None, lsns |-> {}] /\ \E n \in LbNames : r.todo = DeletionOf(n)

LbLeft(t, id) == \E i \in 1..Len(t) : t[i].do = "DeleteLb" /\ t[i].lb = id
ListenerLeft(t, id) == \E i \in 1..Len(t) : t[i].do \in {"ListRules", "DeleteListener"} /\ t[i].lsn = id
RouteLeft(t, x) ==
    \E i \in 1..Len(t) : \/ t[i].do = "ListRules" /\ t[i].lsn = x.lsn
                         \/ t[i].do = "DeleteRule" /\ t[i].lsn = x.id
\* The listeners are about to be listed, and are those that were found.
ListingNext(t, a, L) ==
    t[1].do = "ListListeners" /\ t[1].lb = a.lb /\ a.lsns = {l.id : l \in {y \in L : y.lb = a.lb}}
\* What is there of the load balancer has its deletion ahead.
PartsLeft(t, a, B, L, R) ==
    /\ \A l \in B : l.id = a.lb => LbLeft(t, a.lb)
    /\ \/ ListingNext(t, a, L)
       \/ /\ \A l \in L : l.lb = a.lb => ListenerLeft(t, l.id)
          /\ \A x \in R : x.lsn \in a.lsns => RouteLeft(t, x)
Deleting(r, b, B, L, R) ==
    DeletionStarts(r) \/ (Cascade(r.todo) /\ (b = "inmem" => PartsLeft(r.todo, r.says, B, L, R)))
Gone(a, B, L, R) ==
    a # None => /\ \A l \in B : l.id # a.lb
                /\ \A l \in L : l.lb # a.lb
                /\ \A x \in R : x.lsn \notin a.lsns
LbSolo ==
    \A c \in Clients : alone = c =>
        /\ \A d \in Clients \ {c} : req[d] = Idle
        /\ req[c] # Idle /\ req[c].says # None => Deleting(req[c], backend, lbs, listeners, routes)
DeletionKept == LbReqs' /\ LbSolo' /\ Gone(answer', lbs', listeners', routes')
DeletionInv == BalancerInv /\ IdsNumbered /\ LbReqs /\ LbSolo /\ Gone(answer, lbs, listeners, routes)

LEMMA DeletionGoing ==
    ASSUME LbReqs, LbSolo, NEW c \in Clients, req[c] # Idle, NEW r, Goes(c, r), r = LbReqRec(r),
           alone = c /\ r.says # None => Deleting(r, backend, lbs', listeners', routes')
    PROVE  DeletionKept
<1>1. req' = [req EXCEPT ![c] = r] /\ answer' = None /\ alone' = alone /\ backend' = backend
  BY DEF Goes
<1>2. req'[c] = r /\ \A d \in Clients \ {c} : req'[d] = req[d]
  BY <1>1 DEF LbReqs
<1>3. LbReqs'
  BY <1>1, <1>2 DEF LbReqs
<1>4. LbSolo'
  BY <1>1, <1>2 DEF LbSolo
<1>5. Gone(answer', lbs', listeners', routes')
  BY <1>1 DEF Gone
<1> QED
  BY <1>3, <1>4, <1>5 DEF DeletionKept

LEMMA DeletionEnding ==
    ASSUME LbReqs, NEW c \in Clients, NEW says, Ends(c, says), alone = c => Gone(says, lbs', listeners', routes')
    PROVE  DeletionKept
<1>1. req' = [req EXCEPT ![c] = Idle] /\ alone' = None /\ answer' = IF alone = c THEN says ELSE None
  BY DEF Ends
<1>2. req'[c] = Idle /\ \A d \in Clients \ {c} : req'[d] = req[d]
  BY <1>1 DEF LbReqs
<1>3. LbReqs'
  BY <1>1, <1>2 DEF LbReqs
<1>4. LbSolo'
  BY <1>1, NoneIsNoClient DEF LbSolo
<1>5. Gone(answer', lbs', listeners', routes')
  BY <1>1 DEF Gone
<1> QED
  BY <1>3, <1>4, <1>5 DEF DeletionKept

LEMMA DeletionFails ==
    ASSUME LbReqs, NEW c \in Clients, Fails(c)
    PROVE  DeletionKept
BY DeletionEnding DEF Fails, Gone

LEMMA DeletionBeginning ==
    ASSUME LbReqs, LbSolo, NEW c \in Clients, NEW r, Begin(c, r), r = LbReqRec(r), UNCHANGED lbVars,
           r.says # None => DeletionStarts(r)
    PROVE  DeletionKept
<1>1. req' = [req EXCEPT ![c] = r] /\ answer' = None /\ backend' = backend
      /\ alone' = IF Running(c) = {} THEN c ELSE None
  BY DEF Begin
<1>2. req'[c] = r /\ \A d \in Clients \ {c} : req'[d] = req[d]
  BY <1>1 DEF LbReqs
<1>3. LbReqs'
  BY <1>1, <1>2 DEF LbReqs
<1>4. LbSolo'
  <2>1. r.says # None => Deleting(r, backend', lbs', listeners', routes')
    BY DEF Deleting
  <2> QED
    BY <1>1, <1>2, <2>1, NoneIsNoClient DEF LbSolo, Running
<1>5. Gone(answer', lbs', listeners', routes')
  BY <1>1 DEF Gone
<1> QED
  BY <1>3, <1>4, <1>5 DEF DeletionKept

\* Any other request, whatever it does.
LEMMA DeletionElse ==
    ASSUME LbReqs, LbSolo, NEW c \in Clients, req[c] # Idle, LbStep(c), ~(alone = c /\ req[c].says # None)
    PROVE  DeletionKept
<1>1. CASE \E r : Goes(c, r) /\ r = LbReqRec(r) /\ (req[c].says = None => r.says = None)
  BY <1>1, DeletionGoing
<1>2. CASE \E says : Ends(c, says) /\ (req[c].says = None => says = None)
  <2>1. PICK says : Ends(c, says) /\ (req[c].says = None => says = None)
    BY <1>2
  <2>2. alone = c => Gone(says, lbs', listeners', routes')
    BY <2>1 DEF Gone
  <2> QED
    BY <2>1, <2>2, DeletionEnding
<1> QED
  BY <1>1, <1>2 DEF LbStep

LEMMA DeletionAsked ==
    ASSUME LbReqs, LbSolo, NEW c \in Clients, BalancerRequests(c) \/ RoutingRequests(c) \/ GatewayRequests(c)
    PROVE  DeletionKept
<1>1. ASSUME NEW says, NEW calls, SendsFor(c, says, calls),
             says # None => says = [lb |-> None, lsns |-> {}] /\ \E n \in LbNames : calls = DeletionOf(n)
      PROVE  DeletionKept
  <2> DEFINE r == [op |-> "balancing", todo |-> calls, says |-> says]
  <2>1. r = LbReqRec(r) /\ r.todo = calls /\ r.says = says
    BY DEF LbReqRec
  <2>2. Begin(c, r) /\ UNCHANGED lbVars
    BY <1>1 DEF SendsFor
  <2> HIDE DEF r
  <2>3. r.says # None => DeletionStarts(r)
    BY <1>1, <2>1 DEF DeletionStarts
  <2> QED
    BY <2>1, <2>2, <2>3, DeletionBeginning
<1>2. \A calls : Sends(c, calls) => DeletionKept
  BY <1>1 DEF Sends
<1>3. CASE BalancerRequests(c)
  BY <1>2, <1>3 DEF BalancerRequests, CreateLoadBalancer, DeleteLoadBalancer, CreateTargetGroup,
     DeleteTargetGroup, RegisterTargets, DeregisterTargets, CreateListener, DeleteListener,
     insertForwardingRule, deleteForwardingRule, insertBackendService, deleteBackendService,
     addBackend, removeBackend, createOrUpdateLB, deleteLB, createOrUpdatePool, deletePool
<1>4. CASE deleteGlobalForwardingRule(c)
  BY <1>1, <1>4 DEF deleteGlobalForwardingRule, DeletionOf
<1>5. CASE RoutingRequests(c)
  BY <1>2, <1>4, <1>5 DEF RoutingRequests, CreateRule, DeleteRule, ModifyRule, SetRulePriorities,
     ModifyListener, insertGlobalBackendService, deleteGlobalBackendService, insertGlobalUrlMap,
     patchGlobalUrlMap, deleteGlobalUrlMap, insertGlobalTargetHttpsProxy, deleteGlobalTargetHttpsProxy,
     insertGlobalForwardingRule, CreateLoadBalancer, CreateTargetGroup, CreateListener
<1>6. CASE GatewayRequests(c)
  BY <1>2, <1>6 DEF GatewayRequests, createOrUpdateAppGateway, deleteAppGateway,
     insertGlobalSslCertificate, deleteGlobalSslCertificate
<1> QED
  BY <1>3, <1>5, <1>6

-----------------------------------------------------------------------------
(* Load balancers: the calls of a deletion *)

LEMMA CascadeFirst ==
    ASSUME NEW t, Cascade(t)
    PROVE  /\ IsList(t) /\ Len(t) \in Nat \ {0} /\ 1 \in 1..Len(t) /\ Head(t) = t[1]
           /\ t[1].do \in DeleteKinds => PartCall(t[1])
           /\ t[1].do \in DeleteKinds \cup {"DeleteBlob"}
           /\ t[1].do = "DeleteBlob" => Len(t) = 1 /\ t[1].mode = "must" /\ Tail(t) = <<>>
<1>1. IsList(t) /\ t # <<>> /\ Len(t) \in Nat \ {0} /\ Head(t) = t[1]
  BY ListTail DEF Cascade
<1>2. CASE Len(t) = 1
  <2>1. t[1].do = "DeleteBlob" /\ t[1].mode = "must"
    BY <1>2 DEF Cascade
  <2>2. IsList(Tail(t)) /\ Len(Tail(t)) = 0
    BY <1>1, <1>2, ListTail
  <2>3. Tail(t) = <<>>
    BY <2>2, ListFacts
  <2>4. "DeleteBlob" \notin DeleteKinds
    BY DEF DeleteKinds
  <2> QED
    BY <1>1, <1>2, <2>1, <2>3, <2>4
<1>3. CASE Len(t) # 1
  <2> DEFINE n == Len(t)
  <2>4. n \in Nat \ {0} /\ n # 1
    BY <1>1, <1>3
  <2> HIDE DEF n
  <2>5. 1 \in 1..(n - 1)
    BY <2>4
  <2>1. 1 \in 1..(Len(t) - 1)
    BY <2>5 DEF n
  <2>0. \A i \in 1..(Len(t) - 1) : PartCall(t[i])
    BY DEF Cascade
  <2>2. PartCall(t[1])
    BY <2>0, <2>1
  <2>3. t[1].do \in DeleteKinds /\ "DeleteBlob" \notin DeleteKinds
    BY <2>2 DEF PartCall, DeleteKinds
  <2> QED
    BY <1>1, <2>2, <2>3
<1> QED
  BY <1>2, <1>3

LEMMA CascadeTail ==
    ASSUME NEW t, Cascade(t), t[1].do # "DeleteBlob"
    PROVE  /\ Cascade(Tail(t)) /\ Len(Tail(t)) = Len(t) - 1
           /\ \A i \in 2..Len(t) : i - 1 \in 1..Len(Tail(t)) /\ Tail(t)[i - 1] = t[i]
<1> DEFINE u == Tail(t)
           n == Len(t)
<1>1. IsList(t) /\ t # <<>> /\ n \in Nat \ {0} /\ IsList(u) /\ Len(u) = n - 1
      /\ \A i \in 1..(n - 1) : u[i] = t[i + 1]
  BY ListTail DEF Cascade
<1> HIDE DEF u
<1>2. n # 1
  BY DEF Cascade
<1>3. n - 1 \in 1..(n - 1) /\ n - 1 + 1 = n
  BY <1>1, <1>2
<1>4. u[n - 1] = t[n]
  BY <1>1, <1>3
<1>5. u # <<>>
  BY <1>1, <1>2, ListFacts
<1>6. ASSUME NEW i \in 1..(n - 1 - 1)
      PROVE  PartCall(u[i])
  <2>1. i \in 1..(n - 1) /\ i + 1 \in 1..(n - 1)
    BY <1>1, <1>2
  <2> QED
    BY <1>1, <2>1 DEF Cascade
<1>7. Cascade(u)
  BY <1>1, <1>4, <1>5, <1>6 DEF Cascade
<1>8. ASSUME NEW i \in 2..n
      PROVE  i - 1 \in 1..Len(u) /\ u[i - 1] = t[i]
  <2>1. i - 1 \in 1..(n - 1) /\ i - 1 + 1 = i
    BY <1>1, <1>2
  <2> QED
    BY <1>1, <2>1
<1> QED
  BY <1>1, <1>7, <1>8 DEF u

LEMMA CascadeJoined ==
    ASSUME NEW s, IsList(s), \A i \in 1..Len(s) : PartCall(s[i]), NEW t, Cascade(t)
    PROVE  /\ Cascade(s \o t)
           /\ \A i \in 1..Len(s) : i \in 1..Len(s \o t) /\ (s \o t)[i] = s[i]
           /\ \A i \in 1..Len(t) : Len(s) + i \in 1..Len(s \o t) /\ (s \o t)[Len(s) + i] = t[i]
<1> DEFINE u == s \o t
           n == Len(s)
           m == Len(t)
<1>1. /\ IsList(t) /\ n \in Nat /\ m \in Nat \ {0}
      /\ t[m].do = "DeleteBlob" /\ t[m].mode = "must" /\ \A i \in 1..(m - 1) : PartCall(t[i])
  BY ListFacts, CascadeFirst DEF Cascade
<1>2. /\ IsList(u) /\ Len(u) = n + m
      /\ \A i \in 1..n : u[i] = s[i]
      /\ \A i \in 1..m : u[n + i] = t[i]
  BY <1>1, ListJoined
<1> HIDE DEF u
<1>3. u # <<>>
  BY <1>1, <1>2, ListFacts
<1>4. u[n + m] = t[m]
  BY <1>1, <1>2
<1>5. ASSUME NEW i \in 1..(n + m - 1)
      PROVE  PartCall(u[i])
  <2>1. CASE i <= n
    <3>1. i \in 1..n
      BY <1>1, <2>1
    <3> QED
      BY <1>2, <3>1
  <2>2. CASE i > n
    <3>1. i - n \in 1..m /\ i - n \in 1..(m - 1) /\ n + (i - n) = i
      BY <1>1, <2>2
    <3> QED
      BY <1>1, <1>2, <3>1
  <2> QED
    BY <1>1, <2>1, <2>2
<1>6. Cascade(u)
  BY <1>1, <1>2, <1>3, <1>4, <1>5 DEF Cascade
<1>7. /\ \A i \in 1..n : i \in 1..(n + m)
      /\ \A i \in 1..m : n + i \in 1..(n + m)
  BY <1>1
<1> QED
  BY <1>2, <1>6, <1>7 DEF u

\* The first call is replaced.
LEMMA CascadeTurned ==
    ASSUME NEW t, Cascade(t), t[1].do # "DeleteBlob", NEW x, PartCall(x)
    PROVE  Cascade([t EXCEPT ![1] = x])
<1> DEFINE u == [t EXCEPT ![1] = x]
           n == Len(t)
<1>0. IsList(t) /\ t # <<>> /\ n \in Nat \ {0} /\ DOMAIN t = 1..n
  BY ListTail DEF Cascade
<1>1. n \in Nat \ {0} /\ DOMAIN t = 1..n /\ t = [i \in 1..n |-> t[i]]
  <2>1. t \in Seq(Members(t))
    BY <1>0 DEF IsList
  <2> QED
    BY <1>0, <2>1
<1>2. n # 1
  BY DEF Cascade
<1>9. u = [i \in 1..n |-> IF i = 1 THEN x ELSE t[i]]
  BY <1>1, Zenon
<1>3. DOMAIN u = 1..n /\ u = [i \in 1..n |-> u[i]] /\ u[1] = x /\ \A i \in 1..n : i # 1 => u[i] = t[i]
  <2>1. 1 \in 1..n
    BY <1>0
  <2> HIDE DEF u, n
  <2> QED
    BY <1>9, <2>1
<1> HIDE DEF u
<1>4. IsList(u) /\ Len(u) = n
  BY <1>1, <1>3, ListMade
<1>5. u # <<>>
  BY <1>1, <1>4, ListFacts
<1>6. n \in 1..n
  BY <1>1
<1>7. u[n] = t[n]
  BY <1>2, <1>3, <1>6
<1>8. ASSUME NEW i \in 1..(n - 1)
      PROVE  PartCall(u[i])
  <2>1. i \in 1..n
    BY <1>1
  <2>2. u[i] = x \/ u[i] = t[i]
    BY <1>3, <2>1
  <2> QED
    BY <2>2 DEF Cascade
<1> QED
  BY <1>4, <1>5, <1>7, <1>8 DEF Cascade, u

DropsRule(id) == [LbCall("DeleteRule", "may") EXCEPT !.lsn = id]
DropsListener(id) == [LbCall("DeleteListener", "may") EXCEPT !.lsn = id]
ListsThose(id) == [LbCall("ListListeners", "may") EXCEPT !.lb = id]
DropsLb(id) == [LbCall("DeleteLb", "may") EXCEPT !.lb = id]
LEMMA PartCallsMade ==
    ASSUME NEW id
    PROVE  /\ PartCall(DropsRule(id)) /\ DropsRule(id).do = "DeleteRule" /\ DropsRule(id).lsn = id
           /\ PartCall(DropsListener(id)) /\ DropsListener(id).do = "DeleteListener" /\ DropsListener(id).lsn = id
           /\ PartCall(RulesThenListener(id)) /\ RulesThenListener(id).do = "ListRules"
           /\ RulesThenListener(id).lsn = id
           /\ PartCall(ListsThose(id)) /\ ListsThose(id).do = "ListListeners" /\ ListsThose(id).lb = id
           /\ PartCall(DropsLb(id)) /\ DropsLb(id).do = "DeleteLb" /\ DropsLb(id).lb = id
<1> DEFINE Made(do, mode, lb, lsn) ==
        [do |-> do, mode |-> mode, lb |-> lb, lsn |-> lsn, pool |-> None, group |-> None,
         name |-> None, port |-> 0, arg |-> None]
<1>1. ASSUME NEW do, NEW mode
      PROVE  /\ [LbCall(do, mode) EXCEPT !.lsn = id] = Made(do, mode, None, id)
             /\ [LbCall(do, mode) EXCEPT !.lb = id] = Made(do, mode, id, None)
  BY DEF LbCall
<1>2. ASSUME NEW do \in DeleteKinds, NEW mode, mode = IF do = "ListRules" THEN "opt" ELSE "may", NEW lb, NEW lsn
      PROVE  /\ PartCall(Made(do, mode, lb, lsn)) /\ Made(do, mode, lb, lsn).do = do
             /\ Made(do, mode, lb, lsn).lb = lb /\ Made(do, mode, lb, lsn).lsn = lsn
  BY <1>2 DEF PartCall, CallRec
<1> HIDE DEF Made
<1>3. {"DeleteRule", "DeleteListener", "ListListeners", "DeleteLb", "ListRules"} \subseteq DeleteKinds
  BY DEF DeleteKinds
<1>4. PartCall(Made("DeleteRule", "may", None, id)) /\ PartCall(Made("DeleteListener", "may", None, id))
      /\ PartCall(Made("ListRules", "opt", None, id)) /\ PartCall(Made("ListListeners", "may", id, None))
      /\ PartCall(Made("DeleteLb", "may", id, None))
  BY <1>2, <1>3
<1>5. ASSUME NEW do, NEW mode, NEW lb, NEW lsn
      PROVE  Made(do, mode, lb, lsn).do = do /\ Made(do, mode, lb, lsn).lb = lb /\ Made(do, mode, lb, lsn).lsn = lsn
  BY DEF Made
<1>6. RulesThenListener(id) = Made("ListRules", "opt", None, id)
  BY <1>1 DEF RulesThenListener
<1>7. /\ DropsRule(id) = Made("DeleteRule", "may", None, id)
      /\ DropsListener(id) = Made("DeleteListener", "may", None, id)
      /\ ListsThose(id) = Made("ListListeners", "may", id, None)
      /\ DropsLb(id) = Made("DeleteLb", "may", id, None)
  BY <1>1 DEF DropsRule, DropsListener, ListsThose, DropsLb
<1> QED
  BY <1>4, <1>5, <1>6, <1>7

LEMMA ListsOfFacts ==
    ASSUME NEW S, NEW ids \in ListsOf(S)
    PROVE  \E n \in Nat : DOMAIN ids = 1..n /\ \A x \in S : \E i \in 1..n : ids[i] = x
<1>1. PICK n \in 0..Cardinality(S) : ids \in [1..n -> S]
  BY DEF ListsOf
<1>2. S = {ids[i] : i \in DOMAIN ids}
  BY DEF ListsOf
<1>3. DOMAIN ids = 1..n /\ n \in Nat
  BY <1>1
<1> QED
  BY <1>2, <1>3

\* A deletion was tried: what it is for is not there any more.
LEMMA PartsLeftTail ==
    ASSUME NEW t, Cascade(t), t[1].do \in {"DeleteRule", "DeleteListener", "DeleteLb"},
           NEW a, NEW B, NEW L, NEW R, PartsLeft(t, a, B, L, R), NEW B1, NEW L1, NEW R1,
           \A l \in B1 : l \in B /\ (t[1].do = "DeleteLb" => l.id # t[1].lb),
           \A l \in L1 : l \in L /\ (t[1].do = "DeleteListener" => l.id # t[1].lsn),
           \A x \in R1 : x \in R /\ (t[1].do = "DeleteRule" => x.id # t[1].lsn)
    PROVE  PartsLeft(Tail(t), a, B1, L1, R1)
<1> DEFINE u == Tail(t)
<1>1. \A i \in 2..Len(t) : i - 1 \in 1..Len(u) /\ u[i - 1] = t[i]
  BY CascadeTail
<1> HIDE DEF u
<1>2. Len(t) \in Nat \ {0} /\ \A i \in 1..Len(t) : i = 1 \/ i \in 2..Len(t)
  <2>1. Len(t) \in Nat \ {0}
    BY CascadeFirst
  <2> QED
    BY <2>1
<1>3. ASSUME NEW l \in B1, l.id = a.lb
      PROVE  LbLeft(u, a.lb)
  <2>1. PICK i \in 1..Len(t) : t[i].do = "DeleteLb" /\ t[i].lb = a.lb
    BY <1>3 DEF PartsLeft, LbLeft
  <2>2. i # 1
    BY <1>3, <2>1
  <2>3. i - 1 \in 1..Len(u) /\ u[i - 1] = t[i]
    BY <1>1, <1>2, <2>2
  <2> QED
    BY <2>1, <2>3 DEF LbLeft
<1>4. /\ \A l \in L : l.lb = a.lb => ListenerLeft(t, l.id)
      /\ \A x \in R : x.lsn \in a.lsns => RouteLeft(t, x)
  BY DEF PartsLeft, ListingNext
<1>5. ASSUME NEW l \in L1, l.lb = a.lb
      PROVE  ListenerLeft(u, l.id)
  <2>1. PICK i \in 1..Len(t) : t[i].do \in {"ListRules", "DeleteListener"} /\ t[i].lsn = l.id
    BY <1>4, <1>5 DEF ListenerLeft
  <2>2. i # 1
    BY <2>1
  <2>3. i - 1 \in 1..Len(u) /\ u[i - 1] = t[i]
    BY <1>1, <1>2, <2>2
  <2> QED
    BY <2>1, <2>3 DEF ListenerLeft
<1>6. ASSUME NEW x \in R1, x.lsn \in a.lsns
      PROVE  RouteLeft(u, x)
  <2>1. PICK i \in 1..Len(t) : \/ t[i].do = "ListRules" /\ t[i].lsn = x.lsn
                               \/ t[i].do = "DeleteRule" /\ t[i].lsn = x.id
    BY <1>4, <1>6 DEF RouteLeft
  <2>2. i # 1
    BY <2>1
  <2>3. i - 1 \in 1..Len(u) /\ u[i - 1] = t[i]
    BY <1>1, <1>2, <2>2
  <2> QED
    BY <2>1, <2>3 DEF RouteLeft
<1> QED
  BY <1>3, <1>5, <1>6 DEF PartsLeft, u

\* A list takes the place of the first call: what that call stood for is in the list.
LEMMA PartsLeftListed ==
    ASSUME NEW t, Cascade(t), t[1].do \in {"ListListeners", "ListRules"},
           NEW s, IsList(s), \A i \in 1..Len(s) : PartCall(s[i]),
           NEW a, NEW B, NEW L, NEW R, PartsLeft(t, a, B, L, R),
           \A l \in L : ListingNext(t, a, L) /\ l.lb = a.lb => ListenerLeft(s, l.id),
           \A x \in R : ListingNext(t, a, L) /\ x.lsn \in a.lsns => RouteLeft(s, x),
           t[1].do = "ListRules" => ListenerLeft(s, t[1].lsn),
           \A x \in R : t[1].do = "ListRules" /\ x.lsn = t[1].lsn => RouteLeft(s, x)
    PROVE  Cascade(s \o Tail(t)) /\ PartsLeft(s \o Tail(t), a, B, L, R)
<1> DEFINE u == Tail(t)
           w == s \o Tail(t)
<1>1. Cascade(u) /\ \A i \in 2..Len(t) : i - 1 \in 1..Len(u) /\ u[i - 1] = t[i]
  BY CascadeTail
<1>2. /\ Cascade(w)
      /\ \A i \in 1..Len(s) : i \in 1..Len(w) /\ w[i] = s[i]
      /\ \A i \in 1..Len(u) : Len(s) + i \in 1..Len(w) /\ w[Len(s) + i] = u[i]
  BY <1>1, CascadeJoined
<1> HIDE DEF u, w
<1>3. Len(t) \in Nat \ {0} /\ \A i \in 1..Len(t) : i = 1 \/ i \in 2..Len(t)
  <2>1. Len(t) \in Nat \ {0}
    BY CascadeFirst
  <2> QED
    BY <2>1
<1>4. ASSUME NEW i \in 1..Len(t), i # 1
      PROVE  \E j \in 1..Len(w) : w[j] = t[i]
  <2>1. i - 1 \in 1..Len(u) /\ u[i - 1] = t[i]
    BY <1>1, <1>3, <1>4
  <2> QED
    BY <1>2, <2>1
<1>5. ASSUME NEW l \in B, l.id = a.lb
      PROVE  LbLeft(w, a.lb)
  <2>1. PICK i \in 1..Len(t) : t[i].do = "DeleteLb" /\ t[i].lb = a.lb
    BY <1>5 DEF PartsLeft, LbLeft
  <2>2. PICK j \in 1..Len(w) : w[j] = t[i]
    BY <1>4, <2>1
  <2> QED
    BY <2>1, <2>2 DEF LbLeft
<1>6. /\ \A id : ListenerLeft(s, id) => ListenerLeft(w, id)
      /\ \A x : RouteLeft(s, x) => RouteLeft(w, x)
  BY <1>2 DEF ListenerLeft, RouteLeft
<1>7. ASSUME NEW l \in L, l.lb = a.lb
      PROVE  ListenerLeft(w, l.id)
  <2>1. CASE ListingNext(t, a, L)
    BY <1>6, <1>7, <2>1
  <2>2. CASE ListenerLeft(t, l.id)
    <3>1. PICK i \in 1..Len(t) : t[i].do \in {"ListRules", "DeleteListener"} /\ t[i].lsn = l.id
      BY <2>2 DEF ListenerLeft
    <3>2. CASE i = 1
      BY <1>6, <3>1, <3>2
    <3>3. CASE i # 1
      <4>1. PICK j \in 1..Len(w) : w[j] = t[i]
        BY <1>4, <3>3
      <4> QED
        BY <3>1, <4>1 DEF ListenerLeft
    <3> QED
      BY <3>2, <3>3
  <2> QED
    BY <1>7, <2>1, <2>2 DEF PartsLeft
<1>8. ASSUME NEW x \in R, x.lsn \in a.lsns
      PROVE  RouteLeft(w, x)
  <2>1. CASE ListingNext(t, a, L)
    BY <1>6, <1>8, <2>1
  <2>2. CASE RouteLeft(t, x)
    <3>1. PICK i \in 1..Len(t) : \/ t[i].do = "ListRules" /\ t[i].lsn = x.lsn
                                 \/ t[i].do = "DeleteRule" /\ t[i].lsn = x.id
      BY <2>2 DEF RouteLeft
    <3>2. CASE i = 1
      BY <1>6, <3>1, <3>2
    <3>3. CASE i # 1
      <4>1. PICK j \in 1..Len(w) : w[j] = t[i]
        BY <1>4, <3>3
      <4> QED
        BY <3>1, <4>1 DEF RouteLeft
    <3> QED
      BY <3>2, <3>3
  <2> QED
    BY <1>8, <2>1, <2>2 DEF PartsLeft
<1> QED
  BY <1>2, <1>5, <1>7, <1>8 DEF PartsLeft, w

-----------------------------------------------------------------------------
(* Load balancers: the steps of a deletion that runs alone *)

DeletionHere(c) ==
    /\ IdsNumbered /\ LbReqs /\ LbSolo
    /\ c \in Clients /\ alone = c /\ req[c] # Idle /\ req[c].says # None

LEMMA DeletionContinues ==
    ASSUME NEW c, DeletionHere(c), NEW t, Cascade(t),
           Goes(c, [req[c] EXCEPT !.todo = t]) \/ LbGoesOn(c, t),
           backend = "inmem" => PartsLeft(t, req[c].says, lbs', listeners', routes')
    PROVE  DeletionKept
<1>1. LbReqs /\ LbSolo /\ c \in Clients /\ req[c] # Idle /\ req[c] = LbReqRec(req[c])
  BY DEF DeletionHere, LbReqs
<1> DEFINE r == [req[c] EXCEPT !.todo = t]
<1>2. r = LbReqRec(r) /\ r.todo = t /\ r.says = req[c].says
  BY <1>1, LbTodoSet
<1>3. Goes(c, r)
  BY DEF LbGoesOn, Cascade
<1> HIDE DEF r
<1>4. Deleting(r, backend, lbs', listeners', routes')
  BY <1>2 DEF Deleting
<1> QED
  BY <1>1, <1>2, <1>3, <1>4, DeletionGoing

\* A call that lists or deletes parts is over, whether or not it did anything.
LEMMA DeletionDone ==
    ASSUME NEW c, DeletionHere(c), Cascade(req[c].todo), Now(c).do # "DeleteBlob", LbDone(c),
           backend = "inmem" => PartsLeft(Tail(req[c].todo), req[c].says, lbs', listeners', routes')
    PROVE  DeletionKept
<1>1. Cascade(Tail(req[c].todo))
  BY CascadeFirst, CascadeTail DEF Now
<1> QED
  BY <1>1, DeletionContinues DEF LbDone, Later

DeletionCall(c) ==
    \/ FindsLb(c) \/ DeletesBlob(c) \/ ListsListeners(c) \/ ListsRules(c) \/ LbCallIgnored(c)
    \/ InmemDeleteLoadBalancer(c) \/ InmemDeleteListener(c) \/ InmemDeleteRule(c)
    \/ K8sDeleteLoadBalancer(c) \/ K8sDeleteIngress(c) \/ K8sDeleteListener(c)
    \/ K8sDeleteRule(c) \/ K8sUpdateWithout(c)
    \/ AwsDeleteLoadBalancer(c) \/ AwsDeleteListener(c) \/ AwsUpdates(c)

LEMMA DeletionCalls ==
    ASSUME NEW c, BalancerSteps(c), Now(c).do \in DeleteKinds \cup {"DeleteBlob", "FindLb"}
    PROVE  DeletionCall(c)
<1>1. \A do, b : Doing(c, do, b) => Now(c).do = do
  BY DEF Doing, Now
<1>2. ASSUME NEW do, NEW next(_), Reads(c, do, next)
      PROVE  Now(c).do = do
  BY <1>1, <1>2 DEF Reads
<1>3. Now(c).do \notin {"FindPool", "PutBlob", "ReadExisting", "ReadPatched", "ReadProxy", "ReadMap", "ReadGateway",
                        "ListTagged", "CreateLb", "CreatePool", "DeletePool", "Register", "Deregister",
                        "CreateListener", "UpdateListener", "CreateRule", "UpdateRule", "SetPriorities",
                        "UpdateAdding", "UpdateRemoving", "UpdateIngress", "GetService", "UpdateService",
                        "UpdateRules"}
  BY DEF DeleteKinds
<1>4. ~FindsPool(c) /\ ~PutsBlob(c) /\ ~ReadsMap(c) /\ ~ListsTagged(c)
  BY <1>1, <1>3 DEF FindsPool, PutsBlob, ReadsMap, ListsTagged
<1>5. ~ReadsExisting(c) /\ ~ReadsPatched(c) /\ ~ReadsProxy(c) /\ ~ReadsGateway(c)
  BY <1>2, <1>3 DEF ReadsExisting, ReadsPatched, ReadsProxy, ReadsGateway
<1>6. ~InmemCreateLoadBalancer(c) /\ ~InmemCreateTargetGroup(c) /\ ~InmemDeleteTargetGroup(c)
  BY <1>1, <1>3 DEF InmemCreateLoadBalancer, InmemCreateTargetGroup, InmemDeleteTargetGroup
<1>7. ~InmemRegisterTargets(c) /\ ~InmemDeregisterTargets(c)
  BY <1>1, <1>3 DEF InmemRegisterTargets, InmemDeregisterTargets
<1>8. ~InmemCreateListener(c) /\ ~InmemUpdateListener(c)
  BY <1>1, <1>3 DEF InmemCreateListener, InmemUpdateListener
<1>9. ~InmemCreateRule(c) /\ ~InmemUpdateRule(c) /\ ~InmemSetRulePriorities(c)
  BY <1>1, <1>3 DEF InmemCreateRule, InmemUpdateRule, InmemSetRulePriorities
<1>10. ~K8sCreateLoadBalancer(c) /\ ~K8sCreateTargetGroup(c) /\ ~K8sDeleteTargetGroup(c)
  BY <1>1, <1>3 DEF K8sCreateLoadBalancer, K8sCreateTargetGroup, K8sDeleteTargetGroup
<1>11. ~K8sRegisterTargets(c) /\ ~K8sDeregisterTargets(c) /\ ~K8sUpdateAdding(c) /\ ~K8sUpdateRemoving(c)
  BY <1>1, <1>3 DEF K8sRegisterTargets, K8sDeregisterTargets, K8sUpdateAdding, K8sUpdateRemoving
<1>12. ~K8sCreateListener(c) /\ ~createIngressListener(c) /\ ~K8sGetService(c) /\ ~createServiceListener(c)
  BY <1>1, <1>3 DEF K8sCreateListener, createIngressListener, K8sGetService, createServiceListener
<1>13. ~K8sCreateRule(c) /\ ~K8sUpdateRules(c) /\ ~K8sUpdates(c)
  BY <1>1, <1>3 DEF K8sCreateRule, K8sUpdateRules, K8sUpdates
<1>14. ~AwsCreateLoadBalancer(c) /\ ~AwsCreateTargetGroup(c) /\ ~AwsDeleteTargetGroup(c) /\ ~AwsCreateListener(c)
  BY <1>1, <1>3 DEF AwsCreateLoadBalancer, AwsCreateTargetGroup, AwsDeleteTargetGroup, AwsCreateListener
<1>15. ~AwsRegisterTargets(c) /\ ~AwsDeregisterTargets(c)
  BY <1>1, <1>3 DEF AwsRegisterTargets, AwsDeregisterTargets
<1> QED
  BY <1>4, <1>5, <1>6, <1>7, <1>8, <1>9, <1>10, <1>11, <1>12, <1>13, <1>14, <1>15 DEF BalancerSteps, DeletionCall

\* The load balancer is found, or is not there.
LEMMA DeletionFinds ==
    ASSUME NEW c, DeletionHere(c), DeletionStarts(req[c]), BalancerSteps(c)
    PROVE  DeletionKept
<1>1. LbReqs /\ LbSolo /\ c \in Clients /\ req[c] # Idle /\ req[c] = LbReqRec(req[c]) /\ IdsNumbered
  BY DEF DeletionHere, LbReqs
<1>2. PICK n \in LbNames : req[c].todo = DeletionOf(n)
  BY DEF DeletionStarts
<1> DEFINE a == req[c].says
           x == DeleteBlob("rule", n, "must")
           last(id) == [x EXCEPT !.lb = id]
<1>3. a = [lb |-> None, lsns |-> {}]
  BY DEF DeletionStarts
<1>4. /\ Now(c) = FindLb(n, "opt")
      /\ Later(c) = <<LbCall("ListListeners", "may"), LbCall("DeleteLb", "may"), x>>
      /\ Later(c)[Len(Later(c))] = x
  BY <1>2 DEF DeletionOf, Now, Later
<1>5. Now(c).do = "FindLb" /\ Now(c).mode = "opt"
  BY <1>4 DEF FindLb, LbCall
<1>6. /\ x.do = "DeleteBlob" /\ x.mode = "must"
      /\ \A id : last(id).do = "DeleteBlob" /\ last(id).mode = "must"
  BY DEF DeleteBlob, LbCall
<1> HIDE DEF x, last, a
<1>7. FindsLb(c)
  <2>1. DeletionCall(c)
    BY <1>5, DeletionCalls
  <2>2. \A do, b : Doing(c, do, b) => do = "FindLb"
    BY <1>5 DEF Doing, Now
  <2>3. ~DeletesBlob(c) /\ ~ListsListeners(c) /\ ~ListsRules(c)
    BY <2>2 DEF DeletesBlob, ListsListeners, ListsRules
  <2>4. ~LbCallIgnored(c)
    BY <1>5 DEF LbCallIgnored
  <2>5. ~InmemDeleteLoadBalancer(c) /\ ~InmemDeleteListener(c) /\ ~InmemDeleteRule(c)
    BY <2>2 DEF InmemDeleteLoadBalancer, InmemDeleteListener, InmemDeleteRule
  <2>6. ~K8sDeleteLoadBalancer(c) /\ ~K8sDeleteIngress(c) /\ ~K8sDeleteListener(c) /\ ~K8sDeleteRule(c) /\ ~K8sUpdateWithout(c)
    BY <2>2 DEF K8sDeleteLoadBalancer, K8sDeleteIngress, K8sDeleteListener, K8sDeleteRule, K8sUpdateWithout
  <2>7. ~AwsDeleteLoadBalancer(c) /\ ~AwsDeleteListener(c) /\ ~AwsUpdates(c)
    BY <2>2 DEF AwsDeleteLoadBalancer, AwsDeleteListener, AwsUpdates
  <2> QED
    BY <2>1, <2>3, <2>4, <2>5, <2>6, <2>7 DEF DeletionCall
<1>8. lbs' = lbs /\ listeners' = listeners /\ routes' = routes
  BY <1>7 DEF FindsLb, lbVars
<1>9. CASE FindsNothing(c)
  <2>1. CASE backend = "aws"
    <3>1. Fails(c)
      BY <1>5, <1>9, <2>1 DEF FindsNothing
    <3> QED
      BY <1>1, <3>1, DeletionFails
  <2>2. CASE backend # "aws"
    <3> DEFINE t == <<x>>
    <3>1. LbGoesOn(c, t)
      BY <1>4, <1>5, <1>9, <2>2 DEF FindsNothing
    <3>2. IsList(t) /\ t # <<>> /\ Len(t) = 1 /\ t[1] = x
      <4>1. t \in Seq({x}) /\ Len(t) = 1 /\ t[1] = x /\ t # <<>>
        OBVIOUS
      <4> HIDE DEF t
      <4> QED
        BY <4>1, SequencesAreLists
    <3> HIDE DEF t
    <3>3. Cascade(t)
      BY <1>6, <3>2 DEF Cascade
    <3>4. a.lb = None /\ a.lsns = {}
      BY <1>3
    <3>5. backend = "inmem" => PartsLeft(t, a, lbs', listeners', routes')
      BY <1>1, <1>8, <3>4, NoneIsNoNumber DEF PartsLeft, IdsNumbered
    <3> QED
      BY <3>1, <3>3, <3>5, DeletionContinues DEF a
  <2> QED
    BY <2>1, <2>2
<1>10. ASSUME NEW l \in FirstLb(n),
              Goes(c, [req[c] EXCEPT
                    !.todo = Each(Later(c), LAMBDA k : [k EXCEPT !.lb = l.id]),
                    !.says = IF @ = None THEN @
                             ELSE [@ EXCEPT !.lb = l.id, !.lsns = {q.id : q \in {y \in listeners : y.lb = l.id}}]])
       PROVE  DeletionKept
  <2> DEFINE t == Each(Later(c), LAMBDA k : [k EXCEPT !.lb = l.id])
             L == {q.id : q \in {y \in listeners : y.lb = l.id}}
             s == [a EXCEPT !.lb = l.id, !.lsns = L]
             r == SaysNow(req[c], t, s)
  <2>1. t = <<ListsThose(l.id), DropsLb(l.id), last(l.id)>>
    BY <1>4 DEF Each, ListsThose, DropsLb, last
  <2>2. s = [lb |-> l.id, lsns |-> L]
    <3> DEFINE q == [a EXCEPT !.lb = l.id]
    <3>1. q = [lb |-> l.id, lsns |-> {}]
      BY <1>3
    <3>2. s = [q EXCEPT !.lsns = L]
      BY <1>3
    <3> HIDE DEF q, s, L
    <3>3. [q EXCEPT !.lsns = L] = [lb |-> l.id, lsns |-> L]
      BY <3>1
    <3> QED
      BY <3>2, <3>3
  <2>3. Goes(c, r)
    <3>1. a # None
      BY DEF DeletionHere, a
    <3> QED
      BY <1>1, <1>10, <3>1 DEF LbReqRec, SaysNow, a
  <2> HIDE DEF t, s
  <2>4. r = LbReqRec(r) /\ r = [op |-> req[c].op, todo |-> t, says |-> s]
    BY <1>1, LbSaysSet
  <2> HIDE DEF r
  <2>5. r.todo = t /\ r.says = s
    BY <2>4
  <2>6. IsList(t) /\ t # <<>> /\ Len(t) = 3 /\ t[1] = ListsThose(l.id) /\ t[2] = DropsLb(l.id) /\ t[3] = last(l.id)
    <3> DEFINE S == {ListsThose(l.id), DropsLb(l.id), last(l.id)}
    <3>1. t \in Seq(S) /\ Len(t) = 3
      BY <2>1
    <3>2. t[1] = ListsThose(l.id) /\ t[2] = DropsLb(l.id) /\ t[3] = last(l.id)
      BY <2>1
    <3> HIDE DEF S
    <3>3. IsList(t)
      BY <3>1, SequencesAreLists
    <3>4. t # <<>>
      BY <3>1, <3>3, ListFacts
    <3> QED
      BY <3>1, <3>2, <3>3, <3>4
  <2>7. Cascade(t)
    BY <1>6, <2>6, PartCallsMade DEF Cascade
  <2>8. s.lb = l.id /\ s.lsns = L
    BY <2>2
  <2>9. PartsLeft(t, s, lbs', listeners', routes')
    <3>1. LbLeft(t, s.lb)
      BY <2>6, <2>8, PartCallsMade DEF LbLeft
    <3>2. ListingNext(t, s, listeners')
      BY <1>8, <2>6, <2>8, PartCallsMade DEF ListingNext
    <3> QED
      BY <3>1, <3>2 DEF PartsLeft
  <2>10. Deleting(r, backend, lbs', listeners', routes')
    BY <2>5, <2>7, <2>9 DEF Deleting
  <2> QED
    BY <1>1, <2>3, <2>4, <2>10, DeletionGoing
<1>11. Now(c).name = n
  BY <1>4 DEF FindLb, LbCall
<1> QED
  BY <1>5, <1>7, <1>9, <1>10, <1>11 DEF FindsLb

DeletionUnderWay(c) ==
    /\ DeletionHere(c) /\ Cascade(req[c].todo)
    /\ backend = "inmem" => PartsLeft(req[c].todo, req[c].says, lbs, listeners, routes)

LEMMA DeletionNow ==
    ASSUME NEW c, DeletionUnderWay(c)
    PROVE  /\ DeletionHere(c) /\ Cascade(req[c].todo) /\ Now(c) = req[c].todo[1] /\ 1 \in 1..Len(req[c].todo)
           /\ Now(c).do \in DeleteKinds \cup {"DeleteBlob"}
           /\ Now(c).do # "DeleteBlob" => PartCall(Now(c))
           /\ Now(c).do = "DeleteBlob" => Len(req[c].todo) = 1 /\ Now(c).mode = "must" /\ Later(c) = <<>>
           /\ LbReqs /\ c \in Clients /\ req[c] = LbReqRec(req[c])
BY CascadeFirst DEF DeletionUnderWay, DeletionHere, LbReqs, Now, Later

\* A call of a deletion that is refused is passed over.
LEMMA DeletionRefused ==
    ASSUME NEW c, DeletionUnderWay(c), LbRefused(c), Now(c).do \notin {"ListRules", "DeleteBlob"},
           backend = "inmem" => PartsLeft(Tail(req[c].todo), req[c].says, lbs, listeners, routes)
    PROVE  DeletionKept
<1>1. Now(c).mode = "may"
  BY DeletionNow DEF PartCall
<1>2. LbDone(c) /\ lbs' = lbs /\ listeners' = listeners /\ routes' = routes
  BY <1>1 DEF LbRefused, lbVars
<1> QED
  BY <1>2, DeletionNow, DeletionDone

\* The blob is the last that goes: nothing of the load balancer is left.
LEMMA DeletionDeletesBlob ==
    ASSUME NEW c, DeletionUnderWay(c), DeletesBlob(c)
    PROVE  DeletionKept
<1>1. Now(c).do = "DeleteBlob"
  BY DEF DeletesBlob, Doing, Now
<1>2. Len(req[c].todo) = 1 /\ Now(c).mode = "must" /\ Later(c) = <<>> /\ Now(c) = req[c].todo[1] /\ LbReqs /\ c \in Clients
  BY <1>1, DeletionNow
<1>3. CASE LbRefused(c)
  <2>1. Fails(c)
    BY <1>2, <1>3 DEF LbRefused
  <2> QED
    BY <1>2, <2>1, DeletionFails
<1>4. CASE HasBlobs /\ LbDone(c) /\ lbs' = lbs /\ listeners' = listeners /\ routes' = routes
  <2>1. Ends(c, req[c].says)
    BY <1>2, <1>4 DEF LbDone, LbGoesOn
  <2>2. PartsLeft(req[c].todo, req[c].says, lbs', listeners', routes')
    BY <1>4 DEF DeletionUnderWay, HasBlobs
  <2>3. \A i \in 1..Len(req[c].todo) : req[c].todo[i].do = "DeleteBlob"
    BY <1>1, <1>2
  <2>4. Gone(req[c].says, lbs', listeners', routes')
    BY <1>1, <1>2, <2>2, <2>3 DEF Gone, PartsLeft, ListingNext, LbLeft, ListenerLeft, RouteLeft
  <2> QED
    BY <1>2, <2>1, <2>4, DeletionEnding
<1> QED
  BY <1>3, <1>4 DEF DeletesBlob

LEMMA DeletionListsListeners ==
    ASSUME NEW c, DeletionUnderWay(c), ListsListeners(c)
    PROVE  DeletionKept
<1> DEFINE t == req[c].todo
           a == req[c].says
           S == {l.id : l \in ListenersOf(Now(c).lb)}
<1>1. Now(c).do = "ListListeners" /\ Now(c) = t[1] /\ Cascade(t) /\ DeletionHere(c)
  BY DeletionNow DEF ListsListeners, Doing, Now
<1>2. PICK ids \in ListsOf(S) : LbGoesOn(c, [i \in DOMAIN ids |-> RulesThenListener(ids[i])] \o Tail(t))
  BY DEF ListsListeners, Later
<1>3. lbs' = lbs /\ listeners' = listeners /\ routes' = routes
  BY DEF ListsListeners, lbVars
<1>4. PICK n \in Nat : DOMAIN ids = 1..n /\ \A y \in S : \E i \in 1..n : ids[i] = y
  BY ListsOfFacts
<1> DEFINE s == [i \in DOMAIN ids |-> RulesThenListener(ids[i])]
<1>5. DOMAIN s = 1..n /\ s = [i \in 1..n |-> s[i]] /\ \A i \in 1..n : s[i] = RulesThenListener(ids[i])
  BY <1>4
<1> HIDE DEF s
<1>6. IsList(s) /\ Len(s) = n
  BY <1>5, ListMade
<1>7. \A i \in 1..Len(s) : PartCall(s[i]) /\ s[i].do = "ListRules" /\ s[i].lsn = ids[i]
  BY <1>5, <1>6, PartCallsMade
<1>8. \A y \in S : ListenerLeft(s, y) /\ \A z : z.lsn = y => RouteLeft(s, z)
  BY <1>4, <1>6, <1>7 DEF ListenerLeft, RouteLeft
<1>9. Cascade(s \o Tail(t))
  <2>1. Cascade(Tail(t))
    BY <1>1, CascadeTail
  <2> QED
    BY <1>6, <1>7, <2>1, CascadeJoined
<1>10. ASSUME backend = "inmem"
       PROVE  PartsLeft(s \o Tail(t), a, lbs, listeners, routes)
  <2>1. PartsLeft(t, a, lbs, listeners, routes)
    BY <1>10 DEF DeletionUnderWay
  <2>2. S = {l.id : l \in {y \in listeners : y.lb = Now(c).lb}}
    BY <1>10 DEF ListenersOf
  <2>3. ASSUME ListingNext(t, a, listeners)
        PROVE  S = a.lsns /\ \A l \in listeners : l.lb = a.lb => l.id \in S
    BY <1>1, <2>2, <2>3 DEF ListingNext
  <2>4. \A l \in listeners : ListingNext(t, a, listeners) /\ l.lb = a.lb => ListenerLeft(s, l.id)
    BY <1>8, <2>3
  <2>5. \A x \in routes : ListingNext(t, a, listeners) /\ x.lsn \in a.lsns => RouteLeft(s, x)
    BY <1>8, <2>3
  <2> HIDE DEF t, a, S
  <2> QED
    BY <1>1, <1>6, <1>7, <2>1, <2>4, <2>5, PartsLeftListed
<1>11. LbGoesOn(c, s \o Tail(t))
  BY <1>2 DEF s
<1> QED
  BY <1>1, <1>3, <1>9, <1>10, <1>11, DeletionContinues

LEMMA DeletionListsRules ==
    ASSUME NEW c, DeletionUnderWay(c), ListsRules(c)
    PROVE  DeletionKept
<1> DEFINE t == req[c].todo
           a == req[c].says
           its == {r.id : r \in {x \in routes : x.lsn = Now(c).lsn}}
           x1 == DropsListener(Now(c).lsn)
<1>1. Now(c).do = "ListRules" /\ Now(c) = t[1] /\ Cascade(t) /\ DeletionHere(c)
  BY DeletionNow DEF ListsRules, Doing, Now
<1>2. PICK found \in {its} \cup (IF backend = "inmem" THEN {} ELSE {{}}) :
        \E ids \in ListsOf(found) :
          LbGoesOn(c, [i \in DOMAIN ids |-> DropsRule(ids[i])] \o <<x1>> \o Tail(t))
  BY DEF ListsRules, Later, DropsRule, DropsListener
<1>3. PICK ids \in ListsOf(found) :
        LbGoesOn(c, [i \in DOMAIN ids |-> DropsRule(ids[i])] \o <<x1>> \o Tail(t))
  BY <1>2
<1>4. lbs' = lbs /\ listeners' = listeners /\ routes' = routes
  BY DEF ListsRules, lbVars
<1>5. PICK n \in Nat : DOMAIN ids = 1..n /\ \A y \in found : \E i \in 1..n : ids[i] = y
  BY ListsOfFacts
<1> DEFINE d == [i \in DOMAIN ids |-> DropsRule(ids[i])]
           s == d \o <<x1>>
<1>6. DOMAIN d = 1..n /\ d = [i \in 1..n |-> d[i]] /\ \A i \in 1..n : d[i] = DropsRule(ids[i])
  BY <1>5
<1>7. IsList(d) /\ Len(d) = n
  <2> HIDE DEF d
  <2> QED
    BY <1>6, ListMade
<1> HIDE DEF x1
<1>8. IsList(<<x1>>) /\ Len(<<x1>>) = 1 /\ <<x1>>[1] = x1
  <2>1. <<x1>> \in Seq({x1})
    OBVIOUS
  <2> QED
    BY <2>1, SequencesAreLists
<1> HIDE DEF d
<1>9. /\ IsList(s) /\ Len(s) = n + 1
      /\ \A i \in 1..n : s[i] = DropsRule(ids[i])
      /\ s[n + 1] = x1
  BY <1>6, <1>7, <1>8, ListJoined
<1> HIDE DEF s
<1>10. n \in 0..n /\ n + 1 \in 1..(n + 1) /\ \A i \in 1..(n + 1) : i \in 1..n \/ i = n + 1
  OBVIOUS
<1>11. \A i \in 1..Len(s) : PartCall(s[i])
  BY <1>9, <1>10, PartCallsMade DEF x1
<1>12. ListenerLeft(s, Now(c).lsn)
  BY <1>9, <1>10, PartCallsMade DEF ListenerLeft, x1
<1>13. ASSUME NEW z, z.id \in found
       PROVE  RouteLeft(s, z)
  <2>1. PICK i \in 1..n : ids[i] = z.id
    BY <1>5, <1>13
  <2>2. i \in 1..(n + 1) /\ s[i] = DropsRule(z.id)
    BY <1>9, <2>1
  <2> QED
    BY <1>9, <2>2, PartCallsMade DEF RouteLeft
<1>14. Cascade(s \o Tail(t))
  <2>1. Cascade(Tail(t))
    BY <1>1, CascadeTail
  <2> QED
    BY <1>9, <1>11, <2>1, CascadeJoined
<1>15. ASSUME backend = "inmem"
       PROVE  PartsLeft(s \o Tail(t), a, lbs, listeners, routes)
  <2>1. PartsLeft(t, a, lbs, listeners, routes)
    BY <1>15 DEF DeletionUnderWay
  <2>2. found = its
    BY <1>15
  <2>3. \A z \in routes : z.lsn = t[1].lsn => RouteLeft(s, z)
    BY <1>1, <1>13, <2>2
  <2>4. ListenerLeft(s, t[1].lsn) /\ ~ListingNext(t, a, listeners)
    BY <1>1, <1>12 DEF ListingNext
  <2> HIDE DEF t, a
  <2> QED
    BY <1>1, <1>9, <1>11, <2>1, <2>3, <2>4, PartsLeftListed
<1>16. LbGoesOn(c, s \o Tail(t))
  BY <1>3 DEF s, d
<1> QED
  BY <1>1, <1>4, <1>14, <1>15, <1>16, DeletionContinues

LEMMA DeletionInmem ==
    ASSUME NEW c, DeletionUnderWay(c), backend = "inmem",
           InmemDeleteLoadBalancer(c) \/ InmemDeleteListener(c) \/ InmemDeleteRule(c)
    PROVE  DeletionKept
<1> DEFINE t == req[c].todo
           a == req[c].says
<1>1. /\ Now(c) = t[1] /\ Cascade(t) /\ DeletionHere(c) /\ PartsLeft(t, a, lbs, listeners, routes)
      /\ t[1].do \in {"DeleteRule", "DeleteListener", "DeleteLb"}
  BY DeletionNow DEF InmemDeleteLoadBalancer, InmemDeleteListener, InmemDeleteRule, Doing, Now, DeletionUnderWay
<1> HIDE DEF t, a
<1>2. ASSUME NEW B1, NEW L1, NEW R1,
             \A l \in B1 : l \in lbs /\ (Now(c).do = "DeleteLb" => l.id # Now(c).lb),
             \A l \in L1 : l \in listeners /\ (Now(c).do = "DeleteListener" => l.id # Now(c).lsn),
             \A x \in R1 : x \in routes /\ (Now(c).do = "DeleteRule" => x.id # Now(c).lsn)
      PROVE  PartsLeft(Tail(t), a, B1, L1, R1)
  BY <1>1, <1>2, PartsLeftTail
<1>3. ASSUME LbDone(c),
             \A l \in lbs' : l \in lbs /\ (Now(c).do = "DeleteLb" => l.id # Now(c).lb),
             \A l \in listeners' : l \in listeners /\ (Now(c).do = "DeleteListener" => l.id # Now(c).lsn),
             \A x \in routes' : x \in routes /\ (Now(c).do = "DeleteRule" => x.id # Now(c).lsn)
      PROVE  DeletionKept
  <2>1. PartsLeft(Tail(t), a, lbs', listeners', routes')
    BY <1>2, <1>3
  <2> QED
    BY <1>1, <1>3, <2>1, DeletionDone DEF t, a
<1>4. ASSUME LbRefused(c),
             \A l \in lbs : Now(c).do = "DeleteLb" => l.id # Now(c).lb,
             \A l \in listeners : Now(c).do = "DeleteListener" => l.id # Now(c).lsn,
             \A x \in routes : Now(c).do = "DeleteRule" => x.id # Now(c).lsn
      PROVE  DeletionKept
  <2>1. PartsLeft(Tail(t), a, lbs, listeners, routes)
    BY <1>2, <1>4
  <2>2. Now(c).do \notin {"ListRules", "DeleteBlob"}
    BY <1>1
  <2> QED
    BY <1>4, <2>1, <2>2, DeletionRefused DEF t, a
<1>5. CASE InmemDeleteLoadBalancer(c)
  <2>1. Now(c).do = "DeleteLb"
    BY <1>5 DEF InmemDeleteLoadBalancer, Doing, Now
  <2>2. CASE LbById(Now(c).lb) = {} /\ LbRefused(c)
    BY <1>4, <2>1, <2>2 DEF LbById
  <2>3. CASE lbs' = lbs \ LbById(Now(c).lb) /\ listeners' = listeners /\ routes' = routes /\ LbDone(c)
    BY <1>3, <2>1, <2>3 DEF LbById
  <2> QED
    BY <1>5, <2>2, <2>3 DEF InmemDeleteLoadBalancer
<1>6. CASE InmemDeleteListener(c)
  <2>1. Now(c).do = "DeleteListener"
    BY <1>6 DEF InmemDeleteListener, Doing, Now
  <2>2. CASE ListenerById(Now(c).lsn) = {} /\ LbRefused(c)
    BY <1>4, <2>1, <2>2 DEF ListenerById
  <2>3. CASE lbs' = lbs /\ listeners' = listeners \ ListenerById(Now(c).lsn) /\ routes' = routes /\ LbDone(c)
    BY <1>3, <2>1, <2>3 DEF ListenerById
  <2> QED
    BY <1>6, <2>2, <2>3 DEF InmemDeleteListener
<1>7. CASE InmemDeleteRule(c)
  <2>1. Now(c).do = "DeleteRule"
    BY <1>7 DEF InmemDeleteRule, Doing, Now
  <2>2. CASE RouteById(Now(c).lsn) = {} /\ LbRefused(c)
    BY <1>4, <2>1, <2>2 DEF RouteById
  <2>3. CASE lbs' = lbs /\ listeners' = listeners /\ routes' = routes \ RouteById(Now(c).lsn) /\ LbDone(c)
    BY <1>3, <2>1, <2>3 DEF RouteById
  <2> QED
    BY <1>7, <2>2, <2>3 DEF InmemDeleteRule
<1> QED
  BY <1>5, <1>6, <1>7

\* On k8s and aws the deletion goes on to the blob, which they refuse.
LEMMA DeletionRemote ==
    ASSUME NEW c, DeletionUnderWay(c), backend # "inmem",
           \/ LbCallIgnored(c)
           \/ K8sDeleteLoadBalancer(c) \/ K8sDeleteIngress(c) \/ K8sDeleteListener(c)
           \/ K8sDeleteRule(c) \/ K8sUpdateWithout(c)
           \/ AwsDeleteLoadBalancer(c) \/ AwsDeleteListener(c) \/ AwsUpdates(c)
    PROVE  DeletionKept
<1>0. /\ DeletionHere(c) /\ Cascade(req[c].todo) /\ Now(c) = req[c].todo[1] /\ req[c] = LbReqRec(req[c])
      /\ Now(c).do \in DeleteKinds \cup {"DeleteBlob"}
      /\ Now(c).do # "DeleteBlob" => PartCall(Now(c))
      /\ Now(c).do = "DeleteBlob" => Now(c).mode = "must"
  BY DeletionNow
<1>1. ASSUME Now(c).do # "DeleteBlob", LbDone(c) PROVE DeletionKept
  BY <1>0, <1>1, DeletionDone
<1>2. ASSUME Now(c).do \notin {"ListRules", "DeleteBlob"}, LbRefused(c) PROVE DeletionKept
  BY <1>2, DeletionRefused
<1>3. ASSUME Now(c).do # "DeleteBlob", NEW do, do \in {"UpdateWithout", "DeleteIngress"}, Now(c).do # "ListRules",
             NEW read, Turns(c, do, read)
      PROVE  DeletionKept
  <2> DEFINE k == Now(c)
             y == [k EXCEPT !.do = do, !.arg = read]
  <2>1. k = CallRec(k) /\ k.mode = "may"
    BY <1>0, <1>3 DEF PartCall
  <2>2. y = [do |-> do, mode |-> k.mode, lb |-> k.lb, lsn |-> k.lsn, pool |-> k.pool, group |-> k.group,
             name |-> k.name, port |-> k.port, arg |-> read]
    <3> HIDE DEF k
    <3> DEFINE q == [k EXCEPT !.do = do]
    <3>1. q = [do |-> do, mode |-> k.mode, lb |-> k.lb, lsn |-> k.lsn, pool |-> k.pool, group |-> k.group,
               name |-> k.name, port |-> k.port, arg |-> k.arg]
      BY <2>1 DEF CallRec
    <3>2. y = [q EXCEPT !.arg = read]
      BY <2>1 DEF CallRec
    <3> HIDE DEF q, y
    <3>3. [q EXCEPT !.arg = read] = [do |-> do, mode |-> k.mode, lb |-> k.lb, lsn |-> k.lsn, pool |-> k.pool,
               group |-> k.group, name |-> k.name, port |-> k.port, arg |-> read]
      BY <3>1
    <3> QED
      BY <3>2, <3>3
  <2>3. Goes(c, [req[c] EXCEPT !.todo[1] = y])
    BY <1>0, <1>3 DEF Turns
  <2> HIDE DEF y
  <2>4. PartCall(y)
    <3>1. y.do = do /\ y.mode = "may" /\ y = CallRec(y)
      BY <2>1, <2>2 DEF CallRec
    <3> QED
      BY <1>3, <3>1 DEF PartCall, DeleteKinds
  <2>5. [req[c] EXCEPT !.todo[1] = y] = [req[c] EXCEPT !.todo = [req[c].todo EXCEPT ![1] = y]]
    BY <1>0 DEF LbReqRec
  <2>6. Cascade([req[c].todo EXCEPT ![1] = y])
    BY <1>0, <1>3, <2>4, CascadeTurned
  <2> QED
    BY <1>0, <2>3, <2>5, <2>6, DeletionContinues
<1>4. CASE LbCallIgnored(c)
  <2>1. Now(c).do \notin {"ListRules", "DeleteBlob"}
    BY <1>0, <1>4 DEF LbCallIgnored, PartCall
  <2> QED
    BY <1>2, <1>4, <2>1 DEF LbCallIgnored
<1>5. \A do, b : Doing(c, do, b) => Now(c).do = do
  BY DEF Doing, Now
<1>6. CASE K8sDeleteLoadBalancer(c) \/ K8sDeleteIngress(c)
  <2>1. Now(c).do \in {"DeleteLb", "DeleteIngress"}
    BY <1>5, <1>6 DEF K8sDeleteLoadBalancer, K8sDeleteIngress
  <2>2. \A app : DropsObject(c, app) => LbDone(c)
    BY DEF DropsObject
  <2> QED
    BY <1>1, <1>2, <1>3, <1>6, <2>1, <2>2 DEF K8sDeleteLoadBalancer, K8sDeleteIngress
<1>7. CASE K8sDeleteListener(c)
  <2>1. Now(c).do = "DeleteListener"
    BY <1>5, <1>7 DEF K8sDeleteListener
  <2> QED
    BY <1>1, <1>7, <2>1 DEF K8sDeleteListener
<1>8. CASE K8sDeleteRule(c) \/ K8sUpdateWithout(c)
  <2>1. Now(c).do \in {"DeleteRule", "UpdateWithout"}
    BY <1>5, <1>8 DEF K8sDeleteRule, K8sUpdateWithout
  <2> QED
    BY <1>1, <1>2, <1>3, <1>8, <2>1 DEF K8sDeleteRule, K8sUpdateWithout
<1>9. CASE AwsDeleteLoadBalancer(c) \/ AwsDeleteListener(c)
  <2>1. Now(c).do \in {"DeleteLb", "DeleteListener"}
    BY <1>5, <1>9 DEF AwsDeleteLoadBalancer, AwsDeleteListener
  <2> QED
    BY <1>1, <1>2, <1>9, <2>1 DEF AwsDeleteLoadBalancer, AwsDeleteListener
<1>10. CASE AwsUpdates(c)
  <2>1. Now(c).do \notin {"ListRules", "DeleteBlob"}
    BY <1>5, <1>10 DEF AwsUpdates
  <2> QED
    BY <1>2, <1>10, <2>1 DEF AwsUpdates
<1> QED
  BY <1>4, <1>6, <1>7, <1>8, <1>9, <1>10

LEMMA DeletionSteps ==
    ASSUME NEW c, DeletionUnderWay(c), BalancerSteps(c)
    PROVE  DeletionKept
<1>1. Now(c).do \in DeleteKinds \cup {"DeleteBlob"}
  BY DeletionNow
<1>2. DeletionCall(c)
  BY <1>1, DeletionCalls
<1>3. ~FindsLb(c)
  BY <1>1 DEF FindsLb, Doing, Now, DeleteKinds
<1>4. /\ InmemDeleteLoadBalancer(c) \/ InmemDeleteListener(c) \/ InmemDeleteRule(c) => backend = "inmem"
      /\ K8sDeleteLoadBalancer(c) \/ K8sDeleteIngress(c) \/ K8sDeleteListener(c) => backend # "inmem"
      /\ K8sDeleteRule(c) \/ K8sUpdateWithout(c) => backend # "inmem"
      /\ AwsDeleteLoadBalancer(c) \/ AwsDeleteListener(c) \/ AwsUpdates(c) => backend # "inmem"
      /\ LbCallIgnored(c) => backend # "inmem"
  BY DEF InmemDeleteLoadBalancer, InmemDeleteListener, InmemDeleteRule, K8sDeleteLoadBalancer, K8sDeleteIngress,
     K8sDeleteListener, K8sDeleteRule, K8sUpdateWithout, AwsDeleteLoadBalancer, AwsDeleteListener, AwsUpdates,
     LbCallIgnored, Doing
<1> QED
  BY <1>2, <1>3, <1>4, DeletionDeletesBlob, DeletionListsListeners, DeletionListsRules, DeletionInmem, DeletionRemote
     DEF DeletionCall

LEMMA DeletionStep ==
    ASSUME DeletionInv, [BalancerNext]_<<shimVars, lbVars>>
    PROVE  DeletionInv'
<1>1. BalancerInv'
  BY BalancerStep DEF DeletionInv
<1>2. CASE UNCHANGED <<shimVars, lbVars>>
  <2>1. /\ service' = service /\ backend' = backend /\ req' = req /\ alone' = alone /\ answer' = answer
        /\ lbs' = lbs /\ listeners' = listeners /\ routes' = routes
    BY <1>2 DEF shimVars, lbVars
  <2>2. LbReqs' /\ LbSolo' /\ IdsNumbered'
    BY <2>1 DEF DeletionInv, LbReqs, LbSolo, IdsNumbered
  <2> QED
    BY <1>1, <2>1, <2>2 DEF DeletionInv
<1>3. ASSUME NEW c \in Clients, BalancerRequests(c) \/ RoutingRequests(c) \/ GatewayRequests(c)
      PROVE  DeletionKept /\ IdsNumbered'
  <2>1. DeletionKept
    BY <1>3, DeletionAsked DEF DeletionInv
  <2>2. \A says, calls : SendsFor(c, says, calls) => UNCHANGED lbVars /\ backend' = backend
    BY DEF SendsFor, Begin
  <2>3. \A calls : Sends(c, calls) => UNCHANGED lbVars /\ backend' = backend
    BY <2>2 DEF Sends
  <2>4. BalancerRequests(c) => UNCHANGED lbVars /\ backend' = backend
    BY <2>3 DEF BalancerRequests, CreateLoadBalancer, DeleteLoadBalancer, CreateTargetGroup,
       DeleteTargetGroup, RegisterTargets, DeregisterTargets, CreateListener, DeleteListener,
       insertForwardingRule, deleteForwardingRule, insertBackendService, deleteBackendService,
       addBackend, removeBackend, createOrUpdateLB, deleteLB, createOrUpdatePool, deletePool
  <2>5. RoutingRequests(c) => UNCHANGED lbVars /\ backend' = backend
    BY <2>2, <2>3 DEF RoutingRequests, CreateRule, DeleteRule, ModifyRule, SetRulePriorities,
       ModifyListener, insertGlobalBackendService, deleteGlobalBackendService, insertGlobalUrlMap,
       patchGlobalUrlMap, deleteGlobalUrlMap, insertGlobalTargetHttpsProxy, deleteGlobalTargetHttpsProxy,
       insertGlobalForwardingRule, deleteGlobalForwardingRule, CreateLoadBalancer, CreateTargetGroup, CreateListener
  <2>6. GatewayRequests(c) => UNCHANGED lbVars /\ backend' = backend
    BY <2>3 DEF GatewayRequests, createOrUpdateAppGateway, deleteAppGateway,
       insertGlobalSslCertificate, deleteGlobalSslCertificate
  <2>7. UNCHANGED lbVars /\ backend' = backend
    BY <1>3, <2>4, <2>5, <2>6
  <2>8. IdsNumbered'
    BY <2>7, IdsKept DEF lbVars, DeletionInv
  <2> QED
    BY <2>1, <2>8
<1>4. ASSUME NEW c \in Clients, BalancerSteps(c)
      PROVE  DeletionKept /\ IdsNumbered'
  <2>1. req[c] # Idle /\ req[c] = LbReqRec(req[c]) /\ BalancerInv /\ IdsNumbered /\ LbReqs /\ LbSolo
    BY <1>4 DEF BalancerSteps, DeletionInv, LbReqs
  <2>2. IdsNumbered' /\ LbStep(c)
    BY <1>4, <2>1, StepsIdsNumbered, BalancerStepsStep
  <2>3. CASE ~(alone = c /\ req[c].says # None)
    BY <2>1, <2>2, <2>3, DeletionElse
  <2>4. CASE alone = c /\ req[c].says # None
    <3>1. DeletionHere(c) /\ Deleting(req[c], backend, lbs, listeners, routes)
      BY <2>1, <2>4 DEF DeletionHere, LbSolo
    <3>2. DeletionStarts(req[c]) \/ DeletionUnderWay(c)
      BY <3>1 DEF Deleting, DeletionUnderWay
    <3> QED
      BY <1>4, <2>2, <3>1, <3>2, DeletionFinds, DeletionSteps
  <2> QED
    BY <2>2, <2>3, <2>4
<1>5. ASSUME NEW c \in Clients, Dies(c), UNCHANGED lbVars
      PROVE  DeletionKept /\ IdsNumbered'
  <2>1. DeletionKept
    BY <1>5, DeletionFails DEF Dies, DeletionInv
  <2>2. IdsNumbered'
    BY <1>5, LbGoesOnKeeps, IdsKept DEF Dies, lbVars, DeletionInv
  <2> QED
    BY <2>1, <2>2
<1> QED
  BY <1>1, <1>2, <1>3, <1>4, <1>5 DEF BalancerNext, DeletionKept, DeletionInv

\* ForwardingRuleDeletesParts (deleteGlobalForwardingRule of gcp_lb): in every
\* behaviour of the load balancing service, over every backend, a deletion of a
\* global forwarding rule that ran alone and was answered as done has left
\* neither the load balancer, nor a listener of it, nor a rule of those
\* listeners, however many there were and in whatever order they were listed.
THEOREM ForwardingRulesDeletedWhole == BalancerSpec => []ForwardingRuleDeletesParts
<1>1. ShimInit /\ BalancerInit => DeletionInv
  <2> SUFFICES ASSUME ShimInit, BalancerInit PROVE DeletionInv
    OBVIOUS
  <2>1. BalancerInv
    BY DEF BalancerInit, BalancerInv, PartsShaped, PoolsOnce, PoolsNumbered, PartsKept
  <2>2. IdsNumbered
    BY DEF BalancerInit, IdsNumbered
  <2>3. LbReqs /\ LbSolo /\ Gone(answer, lbs, listeners, routes)
    BY NoneIsNoClient DEF ShimInit, LbReqs, LbSolo, Gone
  <2> QED
    BY <2>1, <2>2, <2>3 DEF DeletionInv
<1>2. DeletionInv /\ [BalancerNext]_<<shimVars, lbVars>> => DeletionInv'
  BY DeletionStep
<1>3. DeletionInv => ForwardingRuleDeletesParts
  BY DEF DeletionInv, Gone, ForwardingRuleDeletesParts, LbById
<1> QED
  BY <1>1, <1>2, <1>3, PTL DEF BalancerSpec
=============================================================================
