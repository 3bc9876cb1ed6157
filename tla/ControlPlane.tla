---------------------------- MODULE ControlPlane ----------------------------
(***************************************************************************)
(* The services that keep managed instances: rdbms (inmem, cnpg, gcp,      *)
(* azure, aws), cache (inmem, redisop, gcp, azure, aws) and functions      *)
(* (inmem, knative, gcp, azure, aws), each behind three frontends.         *)
(*                                                                         *)
(* An instance has a size (class and storage, node type, image) and a key  *)
(* (master password, auth token; a function has its environment there).    *)
(* It is created, modified, rebooted and deleted by calls that return at   *)
(* once; the change is carried out later.  The in-process backend leaves   *)
(* that to a goroutine per call, which sleeps and finds the instance by    *)
(* name; a cloud or an operator does it in its own time.                   *)
(*                                                                         *)
(* cnpg and redisop keep the key in a Kubernetes Secret of their own.      *)
(***************************************************************************)
EXTENDS Shim

CONSTANTS
    Instances,      \* names of instances
    Snapshots,      \* names of snapshots
    MaxRequests     \* bound: requests ever sent

ASSUME RequestsAreCounted == MaxRequests \in Nat

VARIABLES
    inst,       \* per name None, or status, size, key and resource version
    creds,      \* cnpg, redisop: per name the Secret, None or key and version
    snaps,      \* per name None or the status of a snapshot
    sleepers,   \* inmem: goroutines asleep, per kind and name
    revision,   \* the last resource version given out
    sent        \* requests sent so far; numbers the keys the shim generates

controlVars == <<inst, creds, snaps, sleepers, revision, sent>>

CallersKey == 0
Sizes == {0, 1}
Fields == {"size", "key"}
Jobs == {"create", "modify", "reboot", "delete"} \X Instances \cup {"snapshot"} \X Snapshots
ControlServices == {"rdbms", "cache", "functions"}

ControlInit ==
    /\ ShimInit
    /\ inst = [n \in Instances |-> None]
    /\ creds = [n \in Instances |-> None]
    /\ snaps = [s \in Snapshots |-> None]
    /\ sleepers = [j \in Jobs |-> 0]
    /\ revision = 0
    /\ sent = 0

-----------------------------------------------------------------------------
(* Requests *)

CreateInstance(n, k) == [op |-> "create", at |-> "first", name |-> n, key |-> k]
DeleteInstance(n) == [op |-> "delete", at |-> "first", name |-> n]
\* sets: what the caller mentions; read: the version the object had when read
ModifyInstance(n, sets, v) ==
    [op |-> "modify", at |-> "first", name |-> n, sets |-> sets, size |-> v, key |-> CallersKey,
     read |-> None]
RebootInstance(n) == [op |-> "reboot", at |-> "first", name |-> n, read |-> None]
CreateSnapshot(n, s) == [op |-> "snapshot", at |-> "first", name |-> n, snap |-> s]
DeleteSnapshot(s) == [op |-> "drop", at |-> "first", snap |-> s]
RestoreFromSnapshot(n, s) == [op |-> "restore", at |-> "first", name |-> n, snap |-> s]

Sends(c, s, r) ==
    /\ service = s
    /\ sent < MaxRequests
    /\ sent' = sent + 1
    /\ Begin(c, r)
    /\ UNCHANGED <<inst, creds, snaps, sleepers, revision>>
\* A key of the caller's, or one the shim generates.
Keys == {CallersKey, sent + 1}
SendsCreate(c, s, keys) ==
    \E n \in Instances, k \in keys : Sends(c, s, CreateInstance(n, k))
SendsDelete(c, s) == \E n \in Instances : Sends(c, s, DeleteInstance(n))
SendsModify(c, s, mentions) ==
    \E n \in Instances, sets \in mentions, v \in Sizes : Sends(c, s, ModifyInstance(n, sets, v))
SendsReboot(c, s) == \E n \in Instances : Sends(c, s, RebootInstance(n))
SendsSnapshot(c) == \E n \in Instances, s \in Snapshots : Sends(c, "rdbms", CreateSnapshot(n, s))
SendsDrop(c) == \E s \in Snapshots : Sends(c, "rdbms", DeleteSnapshot(s))
SendsRestore(c) ==
    \E n \in Instances, s \in Snapshots : Sends(c, "rdbms", RestoreFromSnapshot(n, s))

CreateDBInstance(c) == SendsCreate(c, "rdbms", Keys)
DeleteDBInstance(c) == SendsDelete(c, "rdbms")
ModifyDBInstance(c) == SendsModify(c, "rdbms", SUBSET Fields)
RebootDBInstance(c) == SendsReboot(c, "rdbms")
CreateDBSnapshot(c) == SendsSnapshot(c)
DeleteDBSnapshot(c) == SendsDrop(c)
RestoreDBInstanceFromDBSnapshot(c) == SendsRestore(c)

SqlCreateInstance(c) == SendsCreate(c, "rdbms", Keys)
SqlDeleteInstance(c) == SendsDelete(c, "rdbms")
SqlPatchInstance(c) == SendsModify(c, "rdbms", SUBSET Fields)
SqlRestart(c) == SendsReboot(c, "rdbms")
SqlCreateBackupRun(c) == SendsSnapshot(c)
SqlDeleteBackupRun(c) == SendsDrop(c)
SqlRestoreBackup(c) == SendsRestore(c)

ServersCreateOrUpdate(c) == SendsCreate(c, "rdbms", Keys)
ServersDelete(c) == SendsDelete(c, "rdbms")
ServersUpdate(c) == SendsModify(c, "rdbms", SUBSET Fields)
ServersRestart(c) == SendsReboot(c, "rdbms")
BackupsCreate(c) == SendsSnapshot(c)
BackupsDelete(c) == SendsDrop(c)

CreateCacheCluster(c) == SendsCreate(c, "cache", Keys)
DeleteCacheCluster(c) == SendsDelete(c, "cache")
ModifyCacheCluster(c) == SendsModify(c, "cache", SUBSET Fields)
RebootCacheCluster(c) == SendsReboot(c, "cache")

MemorystoreCreate(c) == SendsCreate(c, "cache", {sent + 1})
MemorystoreDelete(c) == SendsDelete(c, "cache")
MemorystorePatch(c) == SendsModify(c, "cache", SUBSET {"size"})
MemorystoreFailover(c) == SendsReboot(c, "cache")

RedisCreate(c) == SendsCreate(c, "cache", {sent + 1})
RedisDelete(c) == SendsDelete(c, "cache")
RedisUpdate(c) == SendsModify(c, "cache", SUBSET {"size"})
RedisForceReboot(c) == SendsReboot(c, "cache")

CreateFunction(c) == SendsCreate(c, "functions", {CallersKey})
DeleteFunction(c) == SendsDelete(c, "functions")
UpdateFunctionConfiguration(c) == SendsModify(c, "functions", SUBSET {"key"})
UpdateFunctionCode(c) == SendsModify(c, "functions", SUBSET {"size"})

CloudRunCreateService(c) == SendsCreate(c, "functions", {CallersKey})
CloudRunDeleteService(c) == SendsDelete(c, "functions")
CloudRunPatchService(c) == SendsModify(c, "functions", SUBSET Fields)

ContainerAppsCreateOrUpdate(c) == SendsCreate(c, "functions", {CallersKey})
ContainerAppsDelete(c) == SendsDelete(c, "functions")
ContainerAppsUpdate(c) == SendsModify(c, "functions", SUBSET Fields)

CloudSql(c) ==
    \/ SqlCreateInstance(c) \/ SqlDeleteInstance(c) \/ SqlPatchInstance(c) \/ SqlRestart(c)
    \/ SqlCreateBackupRun(c) \/ SqlDeleteBackupRun(c) \/ SqlRestoreBackup(c)
Memorystore(c) ==
    \/ MemorystoreCreate(c) \/ MemorystoreDelete(c) \/ MemorystorePatch(c) \/ MemorystoreFailover(c)
CloudRun(c) == CloudRunCreateService(c) \/ CloudRunDeleteService(c) \/ CloudRunPatchService(c)

ControlRequests(c) ==
    /\ req[c] = Idle
    /\ \/ CreateDBInstance(c) \/ DeleteDBInstance(c) \/ ModifyDBInstance(c) \/ RebootDBInstance(c)
       \/ CreateDBSnapshot(c) \/ DeleteDBSnapshot(c) \/ RestoreDBInstanceFromDBSnapshot(c)
       \/ CloudSql(c)
       \/ ServersCreateOrUpdate(c) \/ ServersDelete(c) \/ ServersUpdate(c) \/ ServersRestart(c)
       \/ BackupsCreate(c) \/ BackupsDelete(c)
       \/ CreateCacheCluster(c) \/ DeleteCacheCluster(c) \/ ModifyCacheCluster(c)
       \/ RebootCacheCluster(c)
       \/ Memorystore(c)
       \/ RedisCreate(c) \/ RedisDelete(c) \/ RedisUpdate(c) \/ RedisForceReboot(c)
       \/ CreateFunction(c) \/ DeleteFunction(c) \/ UpdateFunctionConfiguration(c)
       \/ UpdateFunctionCode(c)
       \/ CloudRun(c)
       \/ ContainerAppsCreateOrUpdate(c) \/ ContainerAppsDelete(c) \/ ContainerAppsUpdate(c)

-----------------------------------------------------------------------------
(* What a call leaves *)

On(c, op, s, b) == service = s /\ Is(c, op, "first", b)
Then(c, op, at, s, b) == service = s /\ Is(c, op, at, b)

ControlSame == UNCHANGED controlVars
ControlFails(c) == Fails(c) /\ ControlSame
ControlGoes(c, r) == Goes(c, r) /\ ControlSame
Finishes(c) == Ends(c, None)

\* Objects of a versioned store get a new version with every write.
Versioned == {"cnpg", "redisop", "knative", "gcp"}
NextRevision == IF backend \in Versioned THEN revision + 1 ELSE revision
Puts(n, i) ==
    /\ inst' = [inst EXCEPT ![n] = IF i = None THEN None ELSE [i EXCEPT !.rev = NextRevision]]
    /\ revision' = NextRevision
    /\ UNCHANGED <<creds, snaps, sent>>
PutsSecret(n, k) ==
    /\ creds' = [creds EXCEPT ![n] = IF k = None THEN None ELSE [key |-> k, rev |-> NextRevision]]
    /\ revision' = NextRevision
    /\ UNCHANGED <<inst, snaps, sent, sleepers>>
PutsSnapshot(s, status) ==
    /\ snaps' = [snaps EXCEPT ![s] = status]
    /\ UNCHANGED <<inst, creds, revision, sent>>
Calm == UNCHANGED sleepers
Schedules(kind, n) == sleepers' = [sleepers EXCEPT ![<<kind, n>>] = @ + 1]

NewInstance(k) == [status |-> "creating", size |-> 0, key |-> k, rev |-> 0]
Current(c) == inst[req[c].name]
Modified(i, r, status) ==
    [i EXCEPT !.status = status, !.size = IF "size" \in r.sets THEN r.size ELSE @,
              !.key = IF "key" \in r.sets THEN r.key ELSE @]

-----------------------------------------------------------------------------
(* The in-process backends: each operation under the mutex. *)

InmemCreates(c, k) ==
    IF Current(c) # None THEN ControlFails(c)
    ELSE Puts(req[c].name, NewInstance(k)) /\ Schedules("create", req[c].name) /\ Finishes(c)
InmemSets(c, i, kind) ==
    IF Current(c) = None THEN ControlFails(c)
    ELSE Puts(req[c].name, i) /\ Schedules(kind, req[c].name) /\ Finishes(c)
InmemDeletes(c) == InmemSets(c, [Current(c) EXCEPT !.status = "deleting"], "delete")
InmemModifies(c) == InmemSets(c, Modified(Current(c), req[c], "modifying"), "modify")
InmemReboots(c) == InmemSets(c, [Current(c) EXCEPT !.status = "rebooting"], "reboot")

RdsInmemCreate(c) == On(c, "create", "rdbms", "inmem") /\ InmemCreates(c, req[c].key)
RdsInmemDelete(c) == On(c, "delete", "rdbms", "inmem") /\ InmemDeletes(c)
RdsInmemModify(c) == On(c, "modify", "rdbms", "inmem") /\ InmemModifies(c)
RdsInmemReboot(c) == On(c, "reboot", "rdbms", "inmem") /\ InmemReboots(c)
CacheInmemCreate(c) == On(c, "create", "cache", "inmem") /\ InmemCreates(c, req[c].key)
CacheInmemDelete(c) == On(c, "delete", "cache", "inmem") /\ InmemDeletes(c)
CacheInmemModify(c) == On(c, "modify", "cache", "inmem") /\ InmemModifies(c)
CacheInmemReboot(c) == On(c, "reboot", "cache", "inmem") /\ InmemReboots(c)
FunctionInmemCreate(c) == On(c, "create", "functions", "inmem") /\ InmemCreates(c, req[c].key)
FunctionInmemDelete(c) == On(c, "delete", "functions", "inmem") /\ InmemDeletes(c)
FunctionInmemUpdate(c) == On(c, "modify", "functions", "inmem") /\ InmemModifies(c)

RdsInmemSnapshot(c) ==
    /\ On(c, "snapshot", "rdbms", "inmem")
    /\ IF Current(c) = None \/ snaps[req[c].snap] # None THEN ControlFails(c)
       ELSE /\ PutsSnapshot(req[c].snap, "creating")
            /\ Schedules("snapshot", req[c].snap)
            /\ Finishes(c)
RdsInmemDropSnapshot(c) ==
    /\ On(c, "drop", "rdbms", "inmem")
    /\ IF snaps[req[c].snap] = None THEN ControlFails(c)
       ELSE PutsSnapshot(req[c].snap, None) /\ Calm /\ Ends(c, None)
\* The snapshot is looked up, the mutex released, the instance created.
RdsInmemRestore(c) ==
    /\ On(c, "restore", "rdbms", "inmem")
    /\ IF snaps[req[c].snap] = None THEN ControlFails(c)
       ELSE ControlGoes(c, [req[c] EXCEPT !.at = "create"])
RdsInmemRestoreCreate(c) ==
    /\ Then(c, "restore", "create", "rdbms", "inmem")
    /\ InmemCreates(c, sent + 1)

\* The goroutines, when they wake.
WakesAvailable(i) == IF i.status = "deleting" THEN i ELSE [i EXCEPT !.status = "available"]
WakesModified(i) == IF i.status = "modifying" THEN [i EXCEPT !.status = "available"] ELSE i
\* Mutant: the goroutine of a reboot waits for the status of a modification.
RebootedAsModified(i) == IF i.status = "modifying" THEN [i EXCEPT !.status = "available"] ELSE i
WakesRebooted(i) == IF i.status = "rebooting" THEN [i EXCEPT !.status = "available"] ELSE i
\* Mutant: the goroutine looks whether the instance is still being deleted.
StillDeleting(i) == IF i.status = "deleting" THEN None ELSE i
WakesDeleting(i) == None
After(kind, i) ==
    CASE kind = "create" -> WakesAvailable(i) [] kind = "modify" -> WakesModified(i)
      [] kind = "reboot" -> WakesRebooted(i) [] kind = "delete" -> WakesDeleting(i)
Awakes(j) == sleepers[j] > 0 /\ sleepers' = [sleepers EXCEPT ![j] = @ - 1]
Wakes(kind, n) ==
    /\ Awakes(<<kind, n>>)
    /\ inst' = IF inst[n] = None THEN inst ELSE [inst EXCEPT ![n] = After(kind, @)]
    /\ answer' = None
    /\ UNCHANGED <<service, backend, req, alone, creds, snaps, revision, sent>>
WakesSnapshot(s) ==
    /\ Awakes(<<"snapshot", s>>)
    /\ snaps' = IF snaps[s] = None THEN snaps ELSE [snaps EXCEPT ![s] = "available"]
    /\ answer' = None
    /\ UNCHANGED <<service, backend, req, alone, inst, creds, revision, sent>>

-----------------------------------------------------------------------------
(* cnpg and redisop: a Secret with the key, and the custom resource. *)

\* A Secret of that name is as good as a new one.
OperatorSecret(c) ==
    /\ Goes(c, [req[c] EXCEPT !.at = "resource"])
    /\ IF creds[req[c].name] = None THEN PutsSecret(req[c].name, req[c].key) ELSE ControlSame
OperatorResource(c) ==
    IF Current(c) # None THEN ControlFails(c)
    ELSE Puts(req[c].name, NewInstance(0)) /\ Calm /\ Finishes(c)
OperatorRemoves(c) ==
    IF Current(c) = None THEN ControlFails(c)
    ELSE Puts(req[c].name, None) /\ Calm /\ Goes(c, [req[c] EXCEPT !.at = "secret"])
\* The error of the second call is dropped.
OperatorRemovesSecret(c) ==
    /\ Finishes(c)
    /\ PutsSecret(req[c].name, None) \/ ControlSame
\* Read the resource; write it back, which the version read decides.
Reads(c) ==
    IF Current(c) = None THEN ControlFails(c)
    ELSE ControlGoes(c, [req[c] EXCEPT !.at = "write", !.read = Current(c)])
\* Mutant: the write does not depend on the version that was read.
AnyVersion(c) == Current(c) # None
StillCurrent(c) == Current(c) # None /\ Current(c).rev = req[c].read.rev
SecretGet(c) ==
    IF creds[req[c].name] = None THEN Finishes(c) /\ ControlSame
    ELSE ControlGoes(c, [req[c] EXCEPT !.at = "swap", !.read = creds[req[c].name]])
\* The error is dropped, a conflict included.
SecretUpdate(c) ==
    /\ Finishes(c)
    /\ \/ /\ creds[req[c].name] # None
          /\ creds[req[c].name].rev = req[c].read.rev
          /\ PutsSecret(req[c].name, req[c].key)
       \/ ControlSame

CnpgCreateSecret(c) == On(c, "create", "rdbms", "cnpg") /\ OperatorSecret(c)
CnpgCreateCluster(c) == Then(c, "create", "resource", "rdbms", "cnpg") /\ OperatorResource(c)
CnpgDelete(c) == On(c, "delete", "rdbms", "cnpg") /\ OperatorRemoves(c)
CnpgDeleteSecret(c) == Then(c, "delete", "secret", "rdbms", "cnpg") /\ OperatorRemovesSecret(c)
CnpgModify(c) == On(c, "modify", "rdbms", "cnpg") /\ Reads(c)
CnpgModifyUpdate(c) ==
    /\ Then(c, "modify", "write", "rdbms", "cnpg")
    /\ IF ~StillCurrent(c) THEN ControlFails(c)
       ELSE /\ Puts(req[c].name,
                    [req[c].read EXCEPT !.size = IF "size" \in req[c].sets THEN req[c].size ELSE @])
            /\ Calm
            /\ IF "key" \in req[c].sets THEN Goes(c, [req[c] EXCEPT !.at = "secret"])
               ELSE Finishes(c)
CnpgModifySecretGet(c) == Then(c, "modify", "secret", "rdbms", "cnpg") /\ SecretGet(c)
CnpgModifySecret(c) == Then(c, "modify", "swap", "rdbms", "cnpg") /\ SecretUpdate(c)
CnpgReboot(c) == On(c, "reboot", "rdbms", "cnpg") /\ Reads(c)
CnpgRebootUpdate(c) ==
    /\ Then(c, "reboot", "write", "rdbms", "cnpg")
    /\ IF ~StillCurrent(c) THEN ControlFails(c)
       ELSE Puts(req[c].name, req[c].read) /\ Calm /\ Finishes(c)
\* Whether the instance exists is not asked.
CnpgSnapshot(c) ==
    /\ On(c, "snapshot", "rdbms", "cnpg")
    /\ IF snaps[req[c].snap] # None THEN ControlFails(c)
       ELSE PutsSnapshot(req[c].snap, "creating") /\ Calm /\ Finishes(c)
CnpgDropSnapshot(c) ==
    /\ On(c, "drop", "rdbms", "cnpg")
    /\ IF snaps[req[c].snap] = None THEN ControlFails(c)
       ELSE PutsSnapshot(req[c].snap, None) /\ Calm /\ Ends(c, None)
CnpgRestore(c) ==
    /\ On(c, "restore", "rdbms", "cnpg")
    /\ IF snaps[req[c].snap] = None THEN ControlFails(c)
       ELSE ControlGoes(c, [req[c] EXCEPT !.at = "resource"])
CnpgRestoreCluster(c) == Then(c, "restore", "resource", "rdbms", "cnpg") /\ OperatorResource(c)

RedisopCreateSecret(c) == On(c, "create", "cache", "redisop") /\ OperatorSecret(c)
RedisopCreateRedis(c) == Then(c, "create", "resource", "cache", "redisop") /\ OperatorResource(c)
RedisopDelete(c) == On(c, "delete", "cache", "redisop") /\ OperatorRemoves(c)
RedisopDeleteSecret(c) ==
    Then(c, "delete", "secret", "cache", "redisop") /\ OperatorRemovesSecret(c)
\* Only the key is modified; the resource is not even looked up.
RedisopModify(c) ==
    /\ On(c, "modify", "cache", "redisop")
    /\ IF "key" \in req[c].sets THEN SecretGet(c) ELSE Finishes(c) /\ ControlSame
RedisopModifySecret(c) == Then(c, "modify", "swap", "cache", "redisop") /\ SecretUpdate(c)
RedisopReboot(c) == On(c, "reboot", "cache", "redisop") /\ Reads(c)
RedisopRebootUpdate(c) ==
    /\ Then(c, "reboot", "write", "cache", "redisop")
    /\ IF ~StillCurrent(c) THEN ControlFails(c)
       ELSE Puts(req[c].name, req[c].read) /\ Calm /\ Finishes(c)

KnativeCreate(c) ==
    /\ On(c, "create", "functions", "knative")
    /\ IF Current(c) # None THEN ControlFails(c)
       ELSE Puts(req[c].name, NewInstance(req[c].key)) /\ Calm /\ Finishes(c)
KnativeDelete(c) ==
    /\ On(c, "delete", "functions", "knative")
    /\ IF Current(c) = None THEN ControlFails(c) ELSE Puts(req[c].name, None) /\ Calm /\ Finishes(c)
KnativeUpdate(c) == On(c, "modify", "functions", "knative") /\ Reads(c)
KnativeUpdateWrite(c) ==
    /\ Then(c, "modify", "write", "functions", "knative")
    /\ IF ~StillCurrent(c) THEN ControlFails(c)
       ELSE Puts(req[c].name, Modified(req[c].read, req[c], "creating")) /\ Calm /\ Finishes(c)

-----------------------------------------------------------------------------
(* The clouds: one call, carried out later. *)

Stands(c) == Current(c) # None => Current(c).status # "deleting"
CloudSets(c, i) == Puts(req[c].name, i) /\ Calm /\ Finishes(c)
CloudCreates(c, k) == IF Current(c) # None THEN ControlFails(c) ELSE CloudSets(c, NewInstance(k))
\* PUT creates or replaces.
CloudReplaces(c, k) == IF Stands(c) THEN CloudSets(c, NewInstance(k)) ELSE ControlFails(c)
CloudDeletes(c) ==
    IF Current(c) = None THEN ControlFails(c)
    ELSE CloudSets(c, [Current(c) EXCEPT !.status = "deleting"])
CloudModifies(c, r) ==
    IF Current(c) # None /\ Stands(c) THEN CloudSets(c, Modified(Current(c), r, "modifying"))
    ELSE ControlFails(c)
CloudReboots(c) ==
    IF Current(c) # None /\ Stands(c) THEN CloudSets(c, [Current(c) EXCEPT !.status = "rebooting"])
    ELSE ControlFails(c)
CloudSnapshots(c) ==
    IF Current(c) = None \/ snaps[req[c].snap] # None THEN ControlFails(c)
    ELSE PutsSnapshot(req[c].snap, "creating") /\ Calm /\ Finishes(c)
\* The cloud chooses the token; the one in the answer was never sent to it.
CloudsKey == MaxRequests + 1
WithoutKey(r) == [r EXCEPT !.sets = @ \ {"key"}]

RdsAwsCreate(c) == On(c, "create", "rdbms", "aws") /\ CloudCreates(c, req[c].key)
RdsAwsDelete(c) == On(c, "delete", "rdbms", "aws") /\ CloudDeletes(c)
RdsAwsModify(c) == On(c, "modify", "rdbms", "aws") /\ CloudModifies(c, req[c])
RdsAwsReboot(c) == On(c, "reboot", "rdbms", "aws") /\ CloudReboots(c)
RdsAwsSnapshot(c) == On(c, "snapshot", "rdbms", "aws") /\ CloudSnapshots(c)
RdsAwsDropSnapshot(c) ==
    /\ On(c, "drop", "rdbms", "aws")
    /\ IF snaps[req[c].snap] = None THEN ControlFails(c)
       ELSE PutsSnapshot(req[c].snap, None) /\ Calm /\ Ends(c, None)
RdsAwsRestore(c) ==
    /\ On(c, "restore", "rdbms", "aws")
    /\ IF snaps[req[c].snap] = None THEN ControlFails(c) ELSE CloudCreates(c, CloudsKey)
RdsGcpCreate(c) == On(c, "create", "rdbms", "gcp") /\ CloudCreates(c, req[c].key)
RdsGcpDelete(c) == On(c, "delete", "rdbms", "gcp") /\ CloudDeletes(c)
\* Patch, then the password of the user, whose error is dropped.
RdsGcpModify(c) ==
    /\ On(c, "modify", "rdbms", "gcp")
    /\ IF Current(c) = None \/ ~Stands(c) THEN ControlFails(c)
       ELSE /\ Puts(req[c].name, Modified(Current(c), WithoutKey(req[c]), "modifying"))
            /\ Calm
            /\ IF "key" \in req[c].sets THEN Goes(c, [req[c] EXCEPT !.at = "user"]) ELSE Finishes(c)
RdsGcpModifyUser(c) ==
    /\ Then(c, "modify", "user", "rdbms", "gcp")
    /\ Finishes(c)
    /\ \/ /\ Current(c) # None
          /\ Puts(req[c].name, [Current(c) EXCEPT !.key = req[c].key]) /\ Calm
       \/ ControlSame
RdsGcpReboot(c) == On(c, "reboot", "rdbms", "gcp") /\ CloudReboots(c)
\* Cloud SQL numbers its backups: the id is a description, which another may have.
RdsGcpSnapshot(c) ==
    /\ On(c, "snapshot", "rdbms", "gcp")
    /\ IF Current(c) = None THEN ControlFails(c)
       ELSE PutsSnapshot(req[c].snap, "creating") /\ Calm /\ Finishes(c)
RdsGcpDropSnapshot(c) == On(c, "drop", "rdbms", "gcp") /\ ControlFails(c)
RdsGcpRestore(c) == On(c, "restore", "rdbms", "gcp") /\ ControlFails(c)
RdsAzureCreate(c) == On(c, "create", "rdbms", "azure") /\ CloudReplaces(c, req[c].key)
RdsAzureDelete(c) == On(c, "delete", "rdbms", "azure") /\ CloudDeletes(c)
RdsAzureModify(c) == On(c, "modify", "rdbms", "azure") /\ CloudModifies(c, req[c])
RdsAzureReboot(c) == On(c, "reboot", "rdbms", "azure") /\ CloudReboots(c)
RdsAzureSnapshot(c) == On(c, "snapshot", "rdbms", "azure") /\ CloudSnapshots(c)
RdsAzureDropSnapshot(c) == On(c, "drop", "rdbms", "azure") /\ ControlFails(c)
RdsAzureRestore(c) == On(c, "restore", "rdbms", "azure") /\ ControlFails(c)

CacheAwsCreate(c) == On(c, "create", "cache", "aws") /\ CloudCreates(c, req[c].key)
CacheAwsDelete(c) == On(c, "delete", "cache", "aws") /\ CloudDeletes(c)
CacheAwsModify(c) == On(c, "modify", "cache", "aws") /\ CloudModifies(c, req[c])
CacheAwsReboot(c) == On(c, "reboot", "cache", "aws") /\ CloudReboots(c)
CacheGcpCreate(c) == On(c, "create", "cache", "gcp") /\ CloudCreates(c, CloudsKey)
CacheGcpDelete(c) == On(c, "delete", "cache", "gcp") /\ CloudDeletes(c)
CacheGcpModify(c) == On(c, "modify", "cache", "gcp") /\ CloudModifies(c, WithoutKey(req[c]))
CacheGcpReboot(c) == On(c, "reboot", "cache", "gcp") /\ CloudReboots(c)
CacheAzureCreate(c) == On(c, "create", "cache", "azure") /\ CloudReplaces(c, CloudsKey)
CacheAzureDelete(c) == On(c, "delete", "cache", "azure") /\ CloudDeletes(c)
CacheAzureModify(c) == On(c, "modify", "cache", "azure") /\ CloudModifies(c, WithoutKey(req[c]))
CacheAzureReboot(c) == On(c, "reboot", "cache", "azure") /\ CloudReboots(c)

FunctionAwsCreate(c) == On(c, "create", "functions", "aws") /\ CloudCreates(c, req[c].key)
FunctionAwsDelete(c) == On(c, "delete", "functions", "aws") /\ CloudDeletes(c)
\* The image with one call, the configuration with another.
FunctionAwsUpdateCode(c) ==
    /\ On(c, "modify", "functions", "aws")
    /\ IF "size" \notin req[c].sets THEN ControlGoes(c, [req[c] EXCEPT !.at = "configuration"])
       ELSE IF Current(c) = None \/ ~Stands(c) THEN ControlFails(c)
       ELSE /\ Puts(req[c].name, Modified(Current(c), WithoutKey(req[c]), "modifying"))
            /\ Calm
            /\ Goes(c, [req[c] EXCEPT !.at = "configuration"])
FunctionAwsUpdateConfiguration(c) ==
    /\ Then(c, "modify", "configuration", "functions", "aws")
    /\ IF "key" \in req[c].sets THEN CloudModifies(c, [req[c] EXCEPT !.sets = {"key"}])
       ELSE Finishes(c) /\ ControlSame
FunctionGcpCreate(c) == On(c, "create", "functions", "gcp") /\ CloudCreates(c, req[c].key)
FunctionGcpDelete(c) == On(c, "delete", "functions", "gcp") /\ CloudDeletes(c)
\* Read the service; patch it whole, with the etag that was read.
FunctionGcpUpdate(c) == On(c, "modify", "functions", "gcp") /\ Reads(c)
FunctionGcpUpdatePatch(c) ==
    /\ Then(c, "modify", "write", "functions", "gcp")
    /\ IF ~StillCurrent(c) \/ ~Stands(c) THEN ControlFails(c)
       ELSE CloudSets(c, Modified(req[c].read, req[c], "modifying"))
FunctionAzureCreate(c) == On(c, "create", "functions", "azure") /\ CloudReplaces(c, req[c].key)
FunctionAzureDelete(c) == On(c, "delete", "functions", "azure") /\ CloudDeletes(c)
\* The patch holds a container with what the caller mentions, and replaces the
\* whole list of containers.
FunctionAzureUpdate(c) ==
    /\ On(c, "modify", "functions", "azure")
    /\ CloudModifies(c, [req[c] EXCEPT !.sets = IF @ = {} THEN {} ELSE Fields,
                                       !.size = IF "size" \in req[c].sets THEN @ ELSE 0])

\* The cloud or the operator carries out what was asked.
CloudSettles(n) ==
    /\ backend # "inmem"
    /\ inst[n] # None
    /\ inst[n].status # "available"
    /\ Puts(n, IF inst[n].status = "deleting" THEN None ELSE [inst[n] EXCEPT !.status = "available"])
    /\ Calm
    /\ answer' = None
    /\ UNCHANGED <<service, backend, req, alone>>
CloudSettlesSnapshot(s) ==
    /\ backend # "inmem"
    /\ snaps[s] = "creating"
    /\ PutsSnapshot(s, "available") /\ Calm
    /\ answer' = None
    /\ UNCHANGED <<service, backend, req, alone>>

-----------------------------------------------------------------------------
ControlCall(c) ==
    \/ RdsInmemCreate(c) \/ RdsInmemDelete(c) \/ RdsInmemModify(c) \/ RdsInmemReboot(c)
    \/ RdsInmemSnapshot(c) \/ RdsInmemDropSnapshot(c) \/ RdsInmemRestore(c)
    \/ RdsInmemRestoreCreate(c)
    \/ CacheInmemCreate(c) \/ CacheInmemDelete(c) \/ CacheInmemModify(c) \/ CacheInmemReboot(c)
    \/ FunctionInmemCreate(c) \/ FunctionInmemDelete(c) \/ FunctionInmemUpdate(c)
    \/ CnpgCreateSecret(c) \/ CnpgCreateCluster(c) \/ CnpgDelete(c) \/ CnpgDeleteSecret(c)
    \/ CnpgModify(c) \/ CnpgModifyUpdate(c) \/ CnpgModifySecretGet(c) \/ CnpgModifySecret(c)
    \/ CnpgReboot(c) \/ CnpgRebootUpdate(c) \/ CnpgSnapshot(c) \/ CnpgDropSnapshot(c)
    \/ CnpgRestore(c) \/ CnpgRestoreCluster(c)
    \/ RedisopCreateSecret(c) \/ RedisopCreateRedis(c) \/ RedisopDelete(c) \/ RedisopDeleteSecret(c)
    \/ RedisopModify(c) \/ RedisopModifySecret(c) \/ RedisopReboot(c) \/ RedisopRebootUpdate(c)
    \/ KnativeCreate(c) \/ KnativeDelete(c) \/ KnativeUpdate(c) \/ KnativeUpdateWrite(c)
    \/ RdsAwsCreate(c) \/ RdsAwsDelete(c) \/ RdsAwsModify(c) \/ RdsAwsReboot(c) \/ RdsAwsSnapshot(c)
    \/ RdsAwsDropSnapshot(c) \/ RdsAwsRestore(c)
    \/ RdsGcpCreate(c) \/ RdsGcpDelete(c) \/ RdsGcpModify(c) \/ RdsGcpModifyUser(c) \/ RdsGcpReboot(c)
    \/ RdsGcpSnapshot(c) \/ RdsGcpDropSnapshot(c) \/ RdsGcpRestore(c)
    \/ RdsAzureCreate(c) \/ RdsAzureDelete(c) \/ RdsAzureModify(c) \/ RdsAzureReboot(c)
    \/ RdsAzureSnapshot(c) \/ RdsAzureDropSnapshot(c) \/ RdsAzureRestore(c)
    \/ CacheAwsCreate(c) \/ CacheAwsDelete(c) \/ CacheAwsModify(c) \/ CacheAwsReboot(c)
    \/ CacheGcpCreate(c) \/ CacheGcpDelete(c) \/ CacheGcpModify(c) \/ CacheGcpReboot(c)
    \/ CacheAzureCreate(c) \/ CacheAzureDelete(c) \/ CacheAzureModify(c) \/ CacheAzureReboot(c)
    \/ FunctionAwsCreate(c) \/ FunctionAwsDelete(c) \/ FunctionAwsUpdateCode(c)
    \/ FunctionAwsUpdateConfiguration(c)
    \/ FunctionGcpCreate(c) \/ FunctionGcpDelete(c) \/ FunctionGcpUpdate(c)
    \/ FunctionGcpUpdatePatch(c)
    \/ FunctionAzureCreate(c) \/ FunctionAzureDelete(c) \/ FunctionAzureUpdate(c)

Settling ==
    \/ \E n \in Instances : \/ \E kind \in {"create", "modify", "reboot", "delete"} : Wakes(kind, n)
                            \/ CloudSettles(n)
    \/ \E s \in Snapshots : WakesSnapshot(s) \/ CloudSettlesSnapshot(s)

ControlNext ==
    /\ service \in ControlServices
    /\ \/ \E c \in Clients : ControlRequests(c) \/ ControlCall(c) \/ (Dies(c) /\ ControlSame)
       \/ Settling

\* A goroutine that sleeps wakes; a cloud carries out what it accepted.  Nothing
\* is assumed of clients, nor of a request in progress.
ControlFairness ==
    /\ \A n \in Instances :
        /\ \A kind \in {"create", "modify", "reboot", "delete"} :
            WF_<<shimVars, controlVars>>(Wakes(kind, n))
        /\ WF_<<shimVars, controlVars>>(CloudSettles(n))
    /\ \A s \in Snapshots :
        /\ WF_<<shimVars, controlVars>>(WakesSnapshot(s))
        /\ WF_<<shimVars, controlVars>>(CloudSettlesSnapshot(s))

ControlSpec ==
    /\ ControlInit
    /\ [][ControlNext]_<<shimVars, controlVars>>
    /\ ControlFairness

-----------------------------------------------------------------------------
(* Properties *)

Settled(n) == inst[n] # None => inst[n].status = "available"

\* Once requests have ended, every instance and snapshot is available or gone:
\* for every status an operation sets, something is under way that ends it,
\* whatever operations came in between (the goroutines of the in-process backend
\* only end the status of their own operation).
SettlesWhenQuiet ==
    <>[](\A c \in Clients : req[c] = Idle)
        => <>[](/\ \A n \in Instances : Settled(n)
                /\ \A s \in Snapshots : snaps[s] # "creating")

\* An instance that is being deleted will have gone, even if it is modified or
\* rebooted before the deletion is carried out.
DeletedGoes ==
    \A n \in Instances :
        (inst[n] # None /\ inst[n].status = "deleting") ~> (inst[n] = None)

\* No step changes the size or the key of an instance, or the key in a Secret,
\* except for a request to modify just that: neither a write of what was read
\* before another change, nor a create of a name that is taken.  azure is not
\* claimed: its PUT replaces, and its patch of a function replaces the container.
Mentions(c, n, field) ==
    /\ req[c].op = "modify"
    /\ req[c].name = n
    /\ field \in req[c].sets
    /\ req'[c] # req[c]
UpdateKeepsOthers ==
    [][backend # "azure" =>
        \A n \in Instances :
            /\ (inst[n] # None /\ inst'[n] # None) =>
                \A field \in Fields :
                    inst'[n][field] # inst[n][field] => \E c \in Clients : Mentions(c, n, field)
            /\ (creds[n] # None /\ creds'[n] # None) =>
                (creds'[n].key # creds[n].key => \E c \in Clients : Mentions(c, n, "key"))]_<<shimVars, controlVars>>
=============================================================================
