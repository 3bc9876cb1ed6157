------------------------------ MODULE Machines -------------------------------
(***************************************************************************)
(* Instances, volumes and snapshots (services/compute): the backends       *)
(* inmem, k8s, gcp, azure and aws, behind the frontends aws_ec2,           *)
(* gcp_compute and azure_compute.                                          *)
(*                                                                         *)
(* A handler is the sequence of calls it has still to make, as in Network. *)
(* An instance holds the volumes that are attached to it.  inmem and aws   *)
(* number what they create; gcp, azure and k8s use its name, and one of    *)
(* their own for what the caller did not name.                             *)
(***************************************************************************)
EXTENDS Shim

CONSTANTS
    VmNames,        \* names that callers give (numbers, unlike generated ids)
    DefaultVm, DefaultDisk, DefaultSnapshot,   \* names used when none is given (numbers)
    MaxMade,        \* bound: identifiers inmem and aws generate
    MaxCount        \* bound: instances of one request, and instances inmem and aws know of

ASSUME VmNamesAreNotGenerated == VmNames \cap 0..MaxMade = {}
ASSUME VmNamesAreNumbers ==
    VmNames \subseteq Nat /\ DefaultVm \in Nat /\ MaxMade \in Nat /\ MaxCount \in Nat

VARIABLES
    machines,   \* records of id, name, the name the caller gave, state and attached volumes
    volumes,    \* records of id and name
    snapshots,  \* records of id, name and volume
    made,       \* identifiers generated so far
    devices,    \* gcp: attached volumes with the device name they were attached under
    attached    \* history (inmem, gcp, aws): acknowledged attachments nobody has undone

machineVars == <<machines, volumes, snapshots, made, devices, attached>>

MachinesInit ==
    /\ machines = {}
    /\ volumes = {}
    /\ snapshots = {}
    /\ made = 0
    /\ devices = {}
    /\ attached = {}

Nameless == 0
IdsOf(things) == {x.id : x \in things}
WithId(things, id) == {x \in things : x.id = id}
Live(name) == {m \in machines : name \in {m.asked, m.name} /\ m.state # "terminated"}
Holds(v) == {m \in machines : v \in m.disks}

-----------------------------------------------------------------------------
(* Requests *)

VmCall(do) == [do |-> do, mode |-> "must", inst |-> 0, vol |-> 0, name |-> Nameless]
Of(do, i) == [VmCall(do) EXCEPT !.inst = i]
OfVolume(do, v) == [VmCall(do) EXCEPT !.vol = v]
Make(do, n) == [VmCall(do) EXCEPT !.name = n]
Seek(do, n, mode) == [VmCall(do) EXCEPT !.name = n, !.mode = mode]
\* The name of the instance to make, and the live instances of that name (had).
Requests(c, op, name, calls, had) ==
    /\ Begin(c, [op |-> op, todo |-> calls, name |-> name, had |-> had, clean |-> TRUE])
    /\ UNCHANGED machineVars
AsksVm(c, name, calls) == Requests(c, "vm", name, calls, {})

\* aws_ec2: by identifier; what is made has no name.
RunInstances(c) ==
    \E n \in 1..MaxCount : AsksVm(c, Nameless, [i \in 1..n |-> [Make("Run", Nameless) EXCEPT !.inst = i]])
\* Several instances are named in the order of their identifiers.
Ascending(s) == \A i, j \in DOMAIN s : i < j => s[i] < s[j]
ForInstances(c, do) ==
    \E ids \in {s \in UNION {[1..n -> IdsOf(machines)] : n \in 1..MaxCount} : Ascending(s)} :
        AsksVm(c, Nameless, [i \in DOMAIN ids |-> Of(do, ids[i])])
StartInstances(c) == ForInstances(c, "Start")
StopInstances(c) == ForInstances(c, "Stop")
TerminateInstances(c) == ForInstances(c, "Terminate")
RebootInstances(c) == ForInstances(c, "Reboot")
CreateVolume(c) == AsksVm(c, Nameless, <<Make("CreateVolume", Nameless)>>)
DeleteVolume(c) == \E v \in IdsOf(volumes) : AsksVm(c, Nameless, <<OfVolume("DeleteVolume", v)>>)
AttachVolume(c) ==
    \E v \in IdsOf(volumes), i \in IdsOf(machines) :
        AsksVm(c, Nameless, <<[OfVolume("Attach", v) EXCEPT !.inst = i]>>)
\* The instance may be left out.
DetachVolume(c) ==
    \E v \in IdsOf(volumes), i \in IdsOf(machines) \cup {0} :
        AsksVm(c, Nameless, <<[OfVolume("Detach", v) EXCEPT !.inst = i]>>)
CreateSnapshot(c) ==
    \E v \in IdsOf(volumes) : AsksVm(c, Nameless, <<OfVolume("CreateSnapshot", v)>>)
DeleteSnapshot(c) == \E s \in IdsOf(snapshots) : AsksVm(c, Nameless, <<Of("DeleteSnapshot", s)>>)

\* gcp_compute: by name or identifier, looked up first.
insertInstance(c) == \E n \in VmNames : AsksVm(c, n, <<[Make("Run", n) EXCEPT !.inst = 1]>>)
Known(things) == VmNames \cup IdsOf(things)
NamedInstance(c, do) ==
    \E n \in Known(machines) : AsksVm(c, Nameless, <<Seek("FindInstance", n, "must"), VmCall(do)>>)
deleteInstance(c) == NamedInstance(c, "Terminate")
startInstance(c) == NamedInstance(c, "Start")
stopInstance(c) == NamedInstance(c, "Stop")
resetInstance(c) == NamedInstance(c, "Reboot")
insertDisk(c) == \E n \in VmNames : AsksVm(c, Nameless, <<Make("CreateVolume", n)>>)
deleteDisk(c) ==
    \E n \in Known(volumes) : AsksVm(c, Nameless, <<Seek("FindVolume", n, "must"), VmCall("DeleteVolume")>>)
insertSnapshot(c) ==
    \E n \in VmNames, v \in Known(volumes) :
        AsksVm(c, Nameless, <<Seek("FindVolume", v, "opt"), Make("CreateSnapshot", n)>>)
deleteSnapshot(c) ==
    \E n \in Known(snapshots) :
        AsksVm(c, Nameless, <<Seek("FindSnapshot", n, "must"), VmCall("DeleteSnapshot")>>)
attachDisk(c) ==
    \E n \in Known(machines), v \in Known(volumes) :
        AsksVm(c, Nameless, <<Seek("FindInstance", n, "must"), Seek("FindVolume", v, "must"), VmCall("Attach")>>)
\* The volume is the one the instance holds when it is looked up.
detachDisk(c) ==
    \E n \in Known(machines) :
        AsksVm(c, Nameless, <<Seek("FindInstance", n, "must"), VmCall("FindAttached"), VmCall("Detach")>>)

\* azure_compute: a PUT of what is found changes nothing.
createOrUpdateVM(c) ==
    \E n \in VmNames :
        Requests(c, "putVM", n, <<Seek("FindInstance", n, "put"), [Make("Run", n) EXCEPT !.inst = 1]>>, IdsOf(Live(n)))
deleteVM(c) == NamedInstance(c, "Terminate")
routeVMAction(c) ==
    NamedInstance(c, "Start") \/ NamedInstance(c, "Stop") \/ NamedInstance(c, "Reboot")
createOrUpdateDisk(c) ==
    \E n \in VmNames : AsksVm(c, Nameless, <<Seek("FindVolume", n, "put"), Make("CreateVolume", n)>>)
deleteAzureDisk(c) ==
    \E n \in VmNames : AsksVm(c, Nameless, <<Seek("FindVolume", n, "must"), VmCall("DeleteVolume")>>)
createOrUpdateSnapshot(c) ==
    \E n \in VmNames, v \in Known(volumes) :
        AsksVm(c, Nameless,
            <<Seek("FindSnapshot", n, "put"), Seek("FindVolume", v, "opt"), Make("CreateSnapshot", n)>>)
deleteAzureSnapshot(c) ==
    \E n \in VmNames : AsksVm(c, Nameless, <<Seek("FindSnapshot", n, "must"), VmCall("DeleteSnapshot")>>)

\* The requests explored together: those on instances and their volumes,
\* those on instances alone, those on volumes and snapshots.
InstanceRequests(c) ==
    /\ service = "compute"
    /\ req[c] = Idle
    /\ \/ RunInstances(c) \/ TerminateInstances(c) \/ deleteInstance(c)
       \/ CreateVolume(c) \/ DeleteVolume(c) \/ AttachVolume(c) \/ DetachVolume(c)
       \/ insertDisk(c) \/ attachDisk(c) \/ detachDisk(c)
VmRequests(c) ==
    /\ service = "vm"
    /\ req[c] = Idle
    /\ \/ RunInstances(c) \/ StartInstances(c) \/ StopInstances(c) \/ RebootInstances(c) \/ TerminateInstances(c)
       \/ insertInstance(c) \/ startInstance(c) \/ stopInstance(c) \/ resetInstance(c) \/ deleteInstance(c)
       \/ createOrUpdateVM(c) \/ deleteVM(c) \/ routeVMAction(c)
SnapshotRequests(c) ==
    /\ service = "snapshots"
    /\ req[c] = Idle
    /\ \/ CreateVolume(c) \/ DeleteVolume(c) \/ CreateSnapshot(c) \/ DeleteSnapshot(c)
       \/ insertDisk(c) \/ deleteDisk(c) \/ insertSnapshot(c) \/ deleteSnapshot(c)
       \/ createOrUpdateDisk(c) \/ deleteAzureDisk(c) \/ createOrUpdateSnapshot(c) \/ deleteAzureSnapshot(c)

-----------------------------------------------------------------------------
(* How a handler goes on after a call *)

VmContinues(c, calls) ==
    IF calls = <<>>
    THEN Ends(c, IF req[c].op = "putVM" /\ req[c].clean THEN [name |-> req[c].name, had |-> req[c].had] ELSE None)
    ELSE Goes(c, [req[c] EXCEPT !.todo = calls])
VmDone(c) == VmContinues(c, Tail(req[c].todo))
VmRefused(c) == Fails(c) /\ UNCHANGED machineVars
\* What was not found goes by the name it was looked up by.
GoingByName(c, calls) == [i \in DOMAIN calls |-> [calls[i] EXCEPT !.vol = Now(c).name]]
\* The handlers that make what they do not find, or do without it, take the
\* error of a listing for absence.
Seeks(c, found, with(_, _)) ==
    LET rest == Tail(req[c].todo) IN
    /\ UNCHANGED machineVars
    /\ \/ \E x \in found :
            IF Now(c).mode = "put" THEN VmContinues(c, <<>>)
            ELSE Goes(c, [req[c] EXCEPT !.todo = [i \in DOMAIN rest |-> with(rest[i], x)]])
       \/ /\ found = {}
          /\ CASE Now(c).mode = "must" -> Fails(c)
               [] Now(c).mode = "put" -> Goes(c, [req[c] EXCEPT !.todo = rest])
               [] OTHER -> Goes(c, [req[c] EXCEPT !.todo = GoingByName(c, rest)])
       \/ /\ backend # "inmem"
          /\ \/ /\ Now(c).mode = "put"
                /\ Goes(c, [req[c] EXCEPT !.todo = rest, !.clean = FALSE])
             \/ /\ Now(c).mode = "opt"
                /\ Goes(c, [req[c] EXCEPT !.todo = GoingByName(c, rest)])
\* Mutant: instances are looked up by identifier only.
MatchesId(c) ==
    {m \in WithId(machines, Now(c).name) : Now(c).mode # "put" \/ m.state # "terminated"}
MatchesNameOrId(c) ==
    {m \in machines : \/ m.id = Now(c).name /\ (Now(c).mode # "put" \/ m.state # "terminated")
                      \/ m.name = Now(c).name /\ m.state # "terminated"}
FindInstance(c) ==
    /\ Doing(c, "FindInstance", backend)
    /\ Seeks(c, MatchesNameOrId(c), LAMBDA call, m : [call EXCEPT !.inst = m.id])
FindVolume(c) ==
    /\ Doing(c, "FindVolume", backend)
    /\ Seeks(c, {v \in volumes : Now(c).name \in {v.id, v.name}}, LAMBDA call, v : [call EXCEPT !.vol = v.id])
FindSnapshot(c) ==
    /\ Doing(c, "FindSnapshot", backend)
    /\ Seeks(c, {s \in snapshots : Now(c).name \in {s.id, s.name}}, LAMBDA call, s : [call EXCEPT !.inst = s.id])
\* azure does not tell which instance a volume is attached to.
FindAttached(c) ==
    /\ Doing(c, "FindAttached", backend)
    /\ Seeks(c, IF backend = "azure" THEN {} ELSE {v \in volumes : \E m \in Holds(v.id) : m.id = Now(c).inst},
             LAMBDA call, v : [call EXCEPT !.vol = v.id])

-----------------------------------------------------------------------------
(* What a call leaves *)

Machine(id, name, asked) ==
    [id |-> id, name |-> name, asked |-> asked, state |-> "running", disks |-> {}]
InState(m, state) == [m EXCEPT !.state = state]
OnlyMachines == UNCHANGED <<volumes, snapshots, made, devices>>
OnlyVolumes == UNCHANGED <<machines, snapshots, devices, attached>>
OnlySnapshots == UNCHANGED <<machines, volumes, devices, attached>>
MovesTo(ids, state) == machines' = {IF m.id \in ids THEN InState(m, state) ELSE m : m \in machines}
Gives(v, i) ==
    machines' = {IF m.id = i THEN [m EXCEPT !.disks = @ \cup {v}] ELSE [m EXCEPT !.disks = @ \ {v}] : m \in machines}
Frees(v) == machines' = {[m EXCEPT !.disks = @ \ {v}] : m \in machines}
Noted(c) ==
    IF backend \in {"inmem", "gcp", "aws"} THEN attached \cup {<<Now(c).vol, Now(c).inst>>} ELSE attached
Attaches(c) ==
    /\ Gives(Now(c).vol, Now(c).inst)
    /\ attached' = Noted(c)
    /\ UNCHANGED <<volumes, snapshots, made>>
    /\ VmDone(c)
\* Whether a detach names an attachment: by its volume on inmem, by volume and
\* instance (or none) on aws, by instance and device name on gcp.
Names(c, a) ==
    CASE backend = "inmem" -> a[1] = Now(c).vol
      [] backend = "gcp" -> a[2] = Now(c).inst /\ <<a[1], Now(c).vol>> \in devices
      [] OTHER -> a[1] = Now(c).vol /\ Now(c).inst \in {0, a[2]}
Detached(c) == {a \in attached : ~Names(c, a)}
Detaches(c, v) ==
    /\ Frees(v)
    /\ attached' = Detached(c)
    /\ UNCHANGED <<volumes, snapshots, made>>
    /\ VmDone(c)
Free(c) == Holds(Now(c).vol) = {} /\ Now(c).vol \in IdsOf(volumes)
OnNamed(c) == UNION {m.disks : m \in WithId(machines, Now(c).inst)}
HeldByNamed(c) == Now(c).vol \in OnNamed(c)
AddsVolume(c, id, name) ==
    /\ volumes' = volumes \cup {[id |-> id, name |-> name]}
    /\ OnlyVolumes
    /\ VmDone(c)
AddsSnapshot(c, id, name) ==
    /\ snapshots' = {s \in snapshots : s.id # id} \cup {[id |-> id, name |-> name, vol |-> Now(c).vol]}
    /\ OnlySnapshots
    /\ VmDone(c)
Numbered(n) == made + n <= MaxMade /\ made' = made + n
DropsSnapshot(c) ==
    IF Now(c).inst \notin IdsOf(snapshots) THEN VmRefused(c)
    ELSE snapshots' = {s \in snapshots : s.id # Now(c).inst} /\ OnlySnapshots /\ UNCHANGED made /\ VmDone(c)
\* A cloud refuses to delete a volume that is attached.
DropsFreeVolume(c) ==
    IF ~Free(c) THEN VmRefused(c)
    ELSE volumes' = {v \in volumes : v.id # Now(c).vol} /\ OnlyVolumes /\ UNCHANGED made /\ VmDone(c)
\* An instance goes, and what it held is free.
Removes(c) ==
    IF Now(c).inst \notin IdsOf(machines) THEN VmRefused(c)
    ELSE /\ machines' = {m \in machines : m.id # Now(c).inst}
         /\ attached' = {a \in attached : a[2] # Now(c).inst}
         /\ devices' = {d \in devices : d[1] \notin OnNamed(c)}
         /\ UNCHANGED <<volumes, snapshots, made>>
         /\ VmDone(c)
Sets(c, state) ==
    IF Now(c).inst \notin IdsOf(machines) THEN VmRefused(c)
    ELSE MovesTo({Now(c).inst}, state) /\ UNCHANGED attached /\ OnlyMachines /\ VmDone(c)
Reboots(c) ==
    IF Now(c).inst \notin IdsOf(machines) THEN VmRefused(c) ELSE UNCHANGED machineVars /\ VmDone(c)

-----------------------------------------------------------------------------
(* inmem: all instances of a request under the mutex, up to the first that   *)
(* does not exist.                                                           *)

InmemRunInstances(c) ==
    /\ Doing(c, "Run", "inmem")
    /\ Cardinality(machines) + Len(req[c].todo) <= MaxCount
    /\ Numbered(Len(req[c].todo))
    /\ machines' = machines \cup {Machine(made + i, Now(c).name, req[c].name) : i \in DOMAIN req[c].todo}
    /\ UNCHANGED <<volumes, snapshots, devices, attached>>
    /\ VmContinues(c, <<>>)
InmemEach(c, state) ==
    LET ids == [i \in DOMAIN req[c].todo |-> req[c].todo[i].inst]
        upTo == {i \in DOMAIN ids : \A j \in 1..i : ids[j] \in IdsOf(machines)} IN
    /\ MovesTo({ids[i] : i \in upTo}, state)
    /\ UNCHANGED attached
    /\ OnlyMachines
    /\ IF upTo = DOMAIN ids THEN VmContinues(c, <<>>) ELSE Fails(c)
InmemStartInstances(c) == Doing(c, "Start", "inmem") /\ InmemEach(c, "running")
InmemStopInstances(c) == Doing(c, "Stop", "inmem") /\ InmemEach(c, "stopped")
InmemTerminateInstances(c) == Doing(c, "Terminate", "inmem") /\ InmemEach(c, "terminated")
InmemRebootInstances(c) == Doing(c, "Reboot", "inmem") /\ Reboots(c)
InmemCreateVolume(c) ==
    /\ Doing(c, "CreateVolume", "inmem")
    /\ Numbered(1)
    /\ AddsVolume(c, made + 1, Now(c).name)
\* A volume goes even if it is attached.
InmemDeleteVolume(c) ==
    /\ Doing(c, "DeleteVolume", "inmem")
    /\ IF Now(c).vol \notin IdsOf(volumes) THEN VmRefused(c)
       ELSE /\ volumes' = {v \in volumes : v.id # Now(c).vol}
            /\ Frees(Now(c).vol)
            /\ attached' = {a \in attached : a[1] # Now(c).vol}
            /\ UNCHANGED <<snapshots, made, devices>>
            /\ VmDone(c)
InmemAttachVolume(c) ==
    /\ Doing(c, "Attach", "inmem")
    /\ UNCHANGED devices
    /\ IF Free(c) /\ Now(c).inst \in IdsOf(machines) THEN Attaches(c) ELSE VmRefused(c)
\* From whichever instance holds it.
InmemDetachVolume(c) ==
    /\ Doing(c, "Detach", "inmem")
    /\ UNCHANGED devices
    /\ IF Now(c).vol \in IdsOf(volumes) THEN Detaches(c, Now(c).vol) ELSE VmRefused(c)
InmemCreateSnapshot(c) ==
    /\ Doing(c, "CreateSnapshot", "inmem")
    /\ IF Now(c).vol \notin IdsOf(volumes) THEN VmRefused(c)
       ELSE Numbered(1) /\ AddsSnapshot(c, made + 1, Now(c).name)
InmemDeleteSnapshot(c) == Doing(c, "DeleteSnapshot", "inmem") /\ DropsSnapshot(c)

-----------------------------------------------------------------------------
(* k8s: volumes are claims; instances are nodes nobody can create.           *)

K8sInstances(c) ==
    /\ \E do \in {"Run", "Start", "Stop", "Terminate", "Reboot"} : Doing(c, do, "k8s")
    /\ VmRefused(c)
K8sAttachments(c) == (Doing(c, "Attach", "k8s") \/ Doing(c, "Detach", "k8s")) /\ VmRefused(c)
K8sSnapshots(c) ==
    (Doing(c, "CreateSnapshot", "k8s") \/ Doing(c, "DeleteSnapshot", "k8s")) /\ VmRefused(c)
DiskName(c) == IF Now(c).name = Nameless THEN DefaultDisk ELSE Now(c).name
K8sCreateVolume(c) ==
    /\ Doing(c, "CreateVolume", "k8s")
    /\ IF DiskName(c) \in IdsOf(volumes) THEN VmRefused(c)
       ELSE AddsVolume(c, DiskName(c), DiskName(c)) /\ UNCHANGED made
K8sDeleteVolume(c) == Doing(c, "DeleteVolume", "k8s") /\ DropsFreeVolume(c)

-----------------------------------------------------------------------------
(* gcp: an instance per call.                                                *)

VmName(c) == IF Now(c).name = Nameless THEN DefaultVm + Now(c).inst ELSE Now(c).name
GcpRunInstances(c) ==
    /\ Doing(c, "Run", "gcp")
    /\ IF VmName(c) \in IdsOf(machines) THEN VmRefused(c)
       ELSE /\ machines' = machines \cup {Machine(VmName(c), VmName(c), req[c].name)}
            /\ UNCHANGED attached
            /\ OnlyMachines
            /\ VmDone(c)
GcpStartInstances(c) == Doing(c, "Start", "gcp") /\ Sets(c, "running")
GcpStopInstances(c) == Doing(c, "Stop", "gcp") /\ Sets(c, "stopped")
GcpTerminateInstances(c) == Doing(c, "Terminate", "gcp") /\ Removes(c)
GcpRebootInstances(c) == Doing(c, "Reboot", "gcp") /\ Reboots(c)
GcpCreateVolume(c) ==
    /\ Doing(c, "CreateVolume", "gcp")
    /\ IF DiskName(c) \in IdsOf(volumes) THEN VmRefused(c)
       ELSE AddsVolume(c, DiskName(c), DiskName(c)) /\ UNCHANGED made
GcpDeleteVolume(c) == Doing(c, "DeleteVolume", "gcp") /\ DropsFreeVolume(c)
\* The device name is the caller's: it may be the identifier of any volume, or
\* unlike all (0), but not that of a disk the instance has.
GcpAttachVolume(c) ==
    /\ Doing(c, "Attach", "gcp")
    /\ \E dev \in IdsOf(volumes) \cup {0} :
         IF /\ Free(c)
            /\ Now(c).inst \in IdsOf(machines)
            /\ dev # 0 => \A v \in OnNamed(c) : <<v, dev>> \notin devices
         THEN /\ Attaches(c)
              /\ devices' = {d \in devices : d[1] # Now(c).vol} \cup {<<Now(c).vol, dev>>}
         ELSE VmRefused(c)
\* The identifier of the volume is sent as the device name.
GcpDetachVolume(c) ==
    /\ Doing(c, "Detach", "gcp")
    /\ LET hit == {v \in OnNamed(c) : <<v, Now(c).vol>> \in devices} IN
       IF hit = {} THEN VmRefused(c)
       ELSE \E v \in hit : Detaches(c, v) /\ devices' = devices \ {<<v, Now(c).vol>>}
SnapshotName(c) ==
    IF Now(c).name # Nameless THEN Now(c).name
    ELSE IF backend = "gcp" THEN DefaultSnapshot + Now(c).vol ELSE DefaultSnapshot
GcpCreateSnapshot(c) ==
    /\ Doing(c, "CreateSnapshot", "gcp")
    /\ IF Now(c).vol \notin IdsOf(volumes) \/ SnapshotName(c) \in IdsOf(snapshots) THEN VmRefused(c)
       ELSE AddsSnapshot(c, SnapshotName(c), SnapshotName(c)) /\ UNCHANGED made
GcpDeleteSnapshot(c) == Doing(c, "DeleteSnapshot", "gcp") /\ DropsSnapshot(c)

-----------------------------------------------------------------------------
(* azure: a create is a PUT; attaching and detaching read the whole instance *)
(* and write it back.                                                        *)

AzureRunInstances(c) ==
    /\ Doing(c, "Run", "azure")
    /\ machines' = {m \in machines : m.id # VmName(c)} \cup {Machine(VmName(c), VmName(c), req[c].name)}
    /\ UNCHANGED attached
    /\ OnlyMachines
    /\ VmDone(c)
AzureStartInstances(c) == Doing(c, "Start", "azure") /\ Sets(c, "running")
AzureStopInstances(c) == Doing(c, "Stop", "azure") /\ Sets(c, "stopped")
AzureTerminateInstances(c) == Doing(c, "Terminate", "azure") /\ Removes(c)
AzureRebootInstances(c) == Doing(c, "Reboot", "azure") /\ Reboots(c)
AzureCreateVolume(c) ==
    Doing(c, "CreateVolume", "azure") /\ AddsVolume(c, DiskName(c), DiskName(c)) /\ UNCHANGED made
AzureDeleteVolume(c) == Doing(c, "DeleteVolume", "azure") /\ DropsFreeVolume(c)
GetsVM(c, disks) ==
    /\ UNCHANGED machineVars
    /\ IF Now(c).inst \notin IdsOf(machines) THEN Fails(c)
       ELSE \E m \in WithId(machines, Now(c).inst) :
            Goes(c, [req[c] EXCEPT !.todo =
                <<[do |-> "PutVM", mode |-> "must", inst |-> m.id, vol |-> Now(c).vol, name |-> Nameless,
                   disks |-> (m.disks \ {Now(c).vol}) \cup disks]>>])
AzureAttachVolume(c) == Doing(c, "Attach", "azure") /\ GetsVM(c, {Now(c).vol})
AzureDetachVolume(c) == Doing(c, "Detach", "azure") /\ GetsVM(c, {})
\* Refused if a volume of the list is gone or is another instance's.
AzurePutsVM(c) ==
    /\ Doing(c, "PutVM", "azure")
    /\ IF \/ Now(c).inst \notin IdsOf(machines)
          \/ \E v \in Now(c).disks : v \notin IdsOf(volumes) \/ \E m \in Holds(v) : m.id # Now(c).inst
       THEN VmRefused(c)
       ELSE /\ machines' = {IF m.id = Now(c).inst THEN [m EXCEPT !.disks = Now(c).disks] ELSE m : m \in machines}
            /\ UNCHANGED attached
            /\ OnlyMachines
            /\ VmDone(c)
AzureCreateSnapshot(c) ==
    /\ Doing(c, "CreateSnapshot", "azure")
    /\ IF Now(c).vol \notin IdsOf(volumes) THEN VmRefused(c)
       ELSE AddsSnapshot(c, SnapshotName(c), SnapshotName(c)) /\ UNCHANGED made
AzureDeleteSnapshot(c) == Doing(c, "DeleteSnapshot", "azure") /\ DropsSnapshot(c)

-----------------------------------------------------------------------------
(* aws: one call for all instances of a request; names are not sent.         *)

AwsRunInstances(c) ==
    /\ Doing(c, "Run", "aws")
    /\ Cardinality(machines) + Len(req[c].todo) <= MaxCount
    /\ Numbered(Len(req[c].todo))
    /\ machines' = machines \cup {Machine(made + i, Nameless, req[c].name) : i \in DOMAIN req[c].todo}
    /\ UNCHANGED <<volumes, snapshots, devices, attached>>
    /\ VmContinues(c, <<>>)
Chosen(c) == {req[c].todo[i].inst : i \in DOMAIN req[c].todo}
AwsAll(c, state, from) ==
    IF ~(\A i \in Chosen(c) : \E m \in WithId(machines, i) : m.state \in from) THEN VmRefused(c)
    ELSE MovesTo(Chosen(c), state) /\ UNCHANGED attached /\ OnlyMachines /\ VmContinues(c, <<>>)
AwsStartInstances(c) == Doing(c, "Start", "aws") /\ AwsAll(c, "running", {"running", "stopped"})
AwsStopInstances(c) == Doing(c, "Stop", "aws") /\ AwsAll(c, "stopped", {"running", "stopped"})
AwsTerminateInstances(c) ==
    /\ Doing(c, "Terminate", "aws")
    /\ IF ~(Chosen(c) \subseteq IdsOf(machines)) THEN VmRefused(c)
       ELSE /\ machines' = {IF m.id \in Chosen(c) THEN [InState(m, "terminated") EXCEPT !.disks = {}] ELSE m :
                              m \in machines}
            /\ attached' = {a \in attached : a[2] \notin Chosen(c)}
            /\ OnlyMachines
            /\ VmContinues(c, <<>>)
AwsRebootInstances(c) == Doing(c, "Reboot", "aws") /\ Reboots(c)
AwsCreateVolume(c) ==
    Doing(c, "CreateVolume", "aws") /\ Numbered(1) /\ AddsVolume(c, made + 1, Nameless)
AwsDeleteVolume(c) == Doing(c, "DeleteVolume", "aws") /\ DropsFreeVolume(c)
AwsAttachVolume(c) ==
    /\ Doing(c, "Attach", "aws")
    /\ UNCHANGED devices
    /\ IF Free(c) /\ \E m \in WithId(machines, Now(c).inst) : m.state # "terminated" THEN Attaches(c)
       ELSE VmRefused(c)
\* Mutant: the instance is not sent.
DetachesAny(c) == Holds(Now(c).vol) # {}
DetachesNamed(c) == Holds(Now(c).vol) # {} /\ (Now(c).inst = 0 \/ HeldByNamed(c))
AwsDetachVolume(c) ==
    /\ Doing(c, "Detach", "aws")
    /\ UNCHANGED devices
    /\ IF DetachesNamed(c) THEN Detaches(c, Now(c).vol) ELSE VmRefused(c)
AwsCreateSnapshot(c) ==
    /\ Doing(c, "CreateSnapshot", "aws")
    /\ IF Now(c).vol \notin IdsOf(volumes) THEN VmRefused(c)
       ELSE Numbered(1) /\ AddsSnapshot(c, made + 1, Nameless)
AwsDeleteSnapshot(c) == Doing(c, "DeleteSnapshot", "aws") /\ DropsSnapshot(c)

-----------------------------------------------------------------------------
MachinesCall(c) ==
    /\ req[c] # Idle
    /\ \/ FindInstance(c) \/ FindVolume(c) \/ FindSnapshot(c) \/ FindAttached(c)
       \/ /\ backend = "inmem"
          /\ \/ InmemRunInstances(c) \/ InmemStartInstances(c)
             \/ InmemStopInstances(c) \/ InmemTerminateInstances(c)
             \/ InmemRebootInstances(c) \/ InmemCreateVolume(c)
             \/ InmemDeleteVolume(c) \/ InmemAttachVolume(c) \/ InmemDetachVolume(c)
             \/ InmemCreateSnapshot(c) \/ InmemDeleteSnapshot(c)
       \/ /\ backend = "k8s"
          /\ \/ K8sInstances(c) \/ K8sAttachments(c) \/ K8sSnapshots(c)
             \/ K8sCreateVolume(c) \/ K8sDeleteVolume(c)
       \/ /\ backend = "gcp"
          /\ \/ GcpRunInstances(c) \/ GcpStartInstances(c) \/ GcpStopInstances(c)
             \/ GcpTerminateInstances(c) \/ GcpRebootInstances(c)
             \/ GcpCreateVolume(c) \/ GcpDeleteVolume(c) \/ GcpAttachVolume(c)
             \/ GcpDetachVolume(c) \/ GcpCreateSnapshot(c) \/ GcpDeleteSnapshot(c)
       \/ /\ backend = "azure"
          /\ \/ AzureRunInstances(c) \/ AzureStartInstances(c)
             \/ AzureStopInstances(c) \/ AzureTerminateInstances(c)
             \/ AzureRebootInstances(c) \/ AzureCreateVolume(c)
             \/ AzureDeleteVolume(c) \/ AzureAttachVolume(c) \/ AzureDetachVolume(c)
             \/ AzurePutsVM(c) \/ AzureCreateSnapshot(c) \/ AzureDeleteSnapshot(c)
       \/ /\ backend = "aws"
          /\ \/ AwsRunInstances(c) \/ AwsStartInstances(c) \/ AwsStopInstances(c)
             \/ AwsTerminateInstances(c) \/ AwsRebootInstances(c)
             \/ AwsCreateVolume(c) \/ AwsDeleteVolume(c) \/ AwsAttachVolume(c)
             \/ AwsDetachVolume(c) \/ AwsCreateSnapshot(c) \/ AwsDeleteSnapshot(c)

MachineServices == {"compute", "vm", "snapshots"}
MachinesNext ==
    /\ service \in MachineServices
    /\ \E c \in Clients :
        \/ InstanceRequests(c) \/ VmRequests(c) \/ SnapshotRequests(c)
        \/ MachinesCall(c)
        \/ Dies(c) /\ UNCHANGED machineVars

MachinesSpec == ShimInit /\ MachinesInit /\ [][MachinesNext]_<<shimVars, machineVars>>

-----------------------------------------------------------------------------
(* Properties *)

\* A virtual machine PUT that ran alone and whose calls succeeded adds a machine
\* only if there was none of that name, however the others came and went.
PutAgainAddsNothing ==
    service = "vm" /\ answer # None =>
        IF answer.had = {} THEN \E m \in machines : Live(answer.name) = {m}
        ELSE IdsOf(Live(answer.name)) = answer.had

\* The same, for the backends that keep the name.
PutIsIdempotent == backend # "aws" => PutAgainAddsNothing

\* A volume whose attachment was acknowledged stays attached to that instance
\* until a detach that names the attachment is made, or one of the two goes, in
\* whatever order other requests attach and detach it.  A detach names it by
\* volume and instance on aws, by the volume alone on inmem, which ignores the
\* instance, and on gcp by instance and device name: DetachVolume sends the
\* identifier of the volume for it, which is another volume's device name if the
\* caller of AttachVolume chose so.  Not claimed of azure.
AttachmentKept ==
    backend \in {"inmem", "gcp", "aws"} =>
        \A a \in attached : \E m \in WithId(machines, a[2]) : a[1] \in m.disks
=============================================================================
