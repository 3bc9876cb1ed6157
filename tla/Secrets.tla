------------------------------- MODULE Secrets -------------------------------
(***************************************************************************)
(* Versioned secrets (services/secrets): one name over the backends inmem, *)
(* vault, gcp, azure and aws, behind the frontends aws_secretsmanager,     *)
(* gcp_secretmanager and azure_keyvault.                                   *)
(*                                                                         *)
(* The domain numbers the versions of a secret 1, 2, ...  vault and gcp    *)
(* number them too; azure and aws do not, and there the number is derived  *)
(* by listing the versions, with another call.  Every value written is     *)
(* another one, so that a value tells which write it came from.            *)
(***************************************************************************)
EXTENDS Shim, Sequences

CONSTANTS
    Labels,         \* tags a secret may carry; the description is one more
    Description,
    GivenLabels,    \* sets of them that a create may carry
    VersionPage,    \* versions that one answer of aws lists
    MaxValues,      \* bound: values ever written
    MaxSecrets      \* bound: create requests ever made

ASSUME DescriptionAssumption == Description \notin Labels
ASSUME GivenLabelsAssumption == GivenLabels \subseteq SUBSET (Labels \cup {Description})
ASSUME VersionPageAssumption == VersionPage \in Nat \ {0}
ASSUME MaxValuesAssumption == MaxValues \in Nat
ASSUME SecretBackends ==
    \A d \in Deployments : d[1] = "secrets" => d[2] \in {"inmem", "vault", "gcp", "azure", "aws"}

VARIABLES
    secret,     \* labels, values by version, hidden versions, scheduled for deletion
    written,    \* how many values have been sent
    creates,    \* how many creates have been sent
    told        \* history: the versions the shim has named, with their values,
                \* since the secret was created

secretsVars == <<secret, written, creates, told>>

AllLabels == Labels \cup {Description}
Placeholder == 0     \* the empty value azure needs for a secret without one
NoValue == MaxValues + 1
NewSecret(l, vs) == [labels |-> l, vals |-> vs, hidden |-> {}, deleting |-> FALSE]
SecretStates == [labels : SUBSET AllLabels, vals : Seq(Nat), hidden : SUBSET Nat, deleting : BOOLEAN]

ASSUME NoneIsNoSecret == None \notin SecretStates
ASSUME NoneIsNoAnswer == None \notin {"ok", "missing"}

SecretsInit == secret = None /\ written = 0 /\ creates = 0 /\ told = {}

LatestVersion == Len(secret.vals)
Usable == secret # None /\ ~secret.deleting

-----------------------------------------------------------------------------
(* Requests *)

CreateSecret(v, l, orPut) ==
    [op |-> "create", at |-> "first", val |-> v, labels |-> l, orPut |-> orPut]
PutSecretValue(v) == [op |-> "put", at |-> "first", val |-> v]
GetSecretValue(at, n, head) == [op |-> "get", at |-> at, ver |-> n, val |-> NoValue, head |-> head]
HeadSecretRequest == [op |-> "head", at |-> "first"]
\* tags to add or remove, and what to do with the description; want is the
\* whole set of tags once it is known, None to leave the tags alone
UpdateSecret(at, tags, add, text) ==
    [op |-> "update", at |-> at, tags |-> tags, add |-> add, text |-> text, want |-> None,
     left |-> {}]
DeleteSecret(force) == [op |-> "delete", at |-> "first", force |-> force]

SendsSecret(c, r) == Begin(c, r) /\ UNCHANGED <<secret, creates, written, told>>
SendsValue(c, r) ==
    /\ written < MaxValues
    /\ r.op = "create" => creates < MaxSecrets
    /\ Begin(c, r)
    /\ written' = written + 1
    /\ creates' = IF r.op = "create" THEN creates + 1 ELSE creates
    /\ UNCHANGED <<secret, told>>
SendsEmpty(c, r) ==
    /\ creates < MaxSecrets
    /\ Begin(c, r)
    /\ creates' = creates + 1
    /\ UNCHANGED <<secret, written, told>>

AwsCreateSecret(c) == \E l \in GivenLabels :
    \/ SendsValue(c, CreateSecret(written + 1, l, FALSE))
    \/ SendsEmpty(c, CreateSecret(NoValue, l, FALSE))
\* AWSPREVIOUS lists the versions first.
AwsGetSecretValue(c) == \/ \E n \in 0..MaxValues : SendsSecret(c, GetSecretValue("first", n, FALSE))
                        \/ SendsSecret(c, GetSecretValue("front", 0, FALSE))
AwsPutSecretValue(c) == SendsValue(c, PutSecretValue(written + 1))
AwsDeleteSecret(c) == \E force \in BOOLEAN : SendsSecret(c, DeleteSecret(force))
AwsUpdateSecret(c) ==
    \E text \in {"set", "clear"} : SendsSecret(c, UpdateSecret("first", {}, TRUE, text))
\* The tags are read and the whole set is written back.
AwsTagResource(c) == \E t \in Labels : SendsSecret(c, UpdateSecret("front", {t}, TRUE, "leave"))
AwsUntagResource(c) == \E t \in Labels : SendsSecret(c, UpdateSecret("front", {t}, FALSE, "leave"))
AwsDescribeSecret(c) == SendsSecret(c, HeadSecretRequest)

GcpCreateSecretFront(c) ==
    \E l \in GivenLabels : SendsEmpty(c, CreateSecret(NoValue, l, FALSE))
GcpAddSecretVersion(c) == SendsValue(c, PutSecretValue(written + 1))
GcpAccessSecretVersion(c) ==
    \E n \in 0..MaxValues : SendsSecret(c, GetSecretValue("first", n, FALSE))
GcpDeleteSecretFront(c) == SendsSecret(c, DeleteSecret(TRUE))

\* Create, or else put.
AzureSetSecret(c) == \E l \in GivenLabels : SendsValue(c, CreateSecret(written + 1, l, TRUE))
\* The value, then the metadata.
AzureGetSecret(c) == \E n \in 0..MaxValues : SendsSecret(c, GetSecretValue("first", n, TRUE))
AzureDeleteSecretFront(c) == SendsSecret(c, DeleteSecret(FALSE))
AzurePurgeDeletedSecret(c) == SendsSecret(c, DeleteSecret(TRUE))

SecretRequests(c) ==
    /\ req[c] = Idle
    /\ \/ AwsCreateSecret(c) \/ AwsGetSecretValue(c) \/ AwsPutSecretValue(c) \/ AwsDeleteSecret(c)
       \/ AwsUpdateSecret(c) \/ AwsTagResource(c) \/ AwsUntagResource(c) \/ AwsDescribeSecret(c)
       \/ GcpCreateSecretFront(c) \/ GcpAddSecretVersion(c) \/ GcpAccessSecretVersion(c)
       \/ GcpDeleteSecretFront(c)
       \/ AzureSetSecret(c) \/ AzureGetSecret(c) \/ AzureDeleteSecretFront(c)
       \/ AzurePurgeDeletedSecret(c)

-----------------------------------------------------------------------------
(* What a call leaves *)

SecretSame == UNCHANGED <<secret, written, creates, told>>
SecretFails(c) == Fails(c) /\ SecretSame
SecretGoes(c, r) == Goes(c, r) /\ SecretSame
SecretBecomes(s) ==
    /\ secret' = s
    /\ UNCHANGED <<written, creates>>
\* aws lists one page of versions, and the code does not ask for the next.
WholeList == backend = "aws" /\ secret # None => LatestVersion <= VersionPage
\* The backends whose calls return the number with the value; elsewhere a
\* number counts only when no other request ran and all versions were listed.
ExactNumbers == [create |-> {"inmem", "vault", "aws"}, put |-> {"inmem", "vault", "gcp"},
          get |-> {"inmem", "vault", "gcp"}]
NamesVersion(c, n, v) ==
    IF backend \in ExactNumbers[req[c].op] \/ (alone = c /\ WholeList) THEN {<<n, v>>} ELSE {}
TellsVersion(c, n, v) == told' = told \cup NamesVersion(c, n, v)

WithVersion(s, v) == [s EXCEPT !.vals = Append(@, v)]

\* The name is taken: an error, or the put of SetSecret.
SecretExists(c) ==
    IF req[c].orPut THEN SecretGoes(c, PutSecretValue(req[c].val)) ELSE SecretFails(c)

-----------------------------------------------------------------------------
(* CreateSecret *)

MakesSecret(c, vs) ==
    /\ SecretBecomes(NewSecret(req[c].labels, vs))
    /\ told' = IF vs = <<>> THEN {} ELSE NamesVersion(c, 1, vs[1])
    /\ Ends(c, "ok")
InitialVersions(r) == IF r.val = NoValue THEN <<>> ELSE <<r.val>>

InmemCreate(c) ==
    /\ Is(c, "create", "first", "inmem")
    /\ IF secret = None THEN MakesSecret(c, InitialVersions(req[c]))
       ELSE IF secret.deleting THEN SecretFails(c) ELSE SecretExists(c)
AwsCreate(c) ==
    /\ Is(c, "create", "first", "aws")
    /\ IF secret = None THEN MakesSecret(c, InitialVersions(req[c]))
       ELSE IF secret.deleting THEN SecretFails(c) ELSE SecretExists(c)

\* vault: look for the metadata, write it if there are labels, and write the
\* value if there are no versions.  With neither, nothing is written.  A look
\* that fails is taken for a name that is free.
VaultWrites(c) ==
    IF req[c].labels # {} THEN SecretGoes(c, [req[c] EXCEPT !.at = "meta"])
    ELSE IF req[c].val # NoValue THEN SecretGoes(c, [req[c] EXCEPT !.at = "data"])
    ELSE Ends(c, "ok") /\ SecretSame
VaultCreateRead(c) ==
    /\ Is(c, "create", "first", "vault")
    /\ (secret # None /\ SecretExists(c)) \/ VaultWrites(c)
VaultCreateMeta(c) ==
    /\ Is(c, "create", "meta", "vault")
    /\ SecretBecomes(IF secret = None THEN NewSecret(req[c].labels, <<>>)
               ELSE [secret EXCEPT !.labels = req[c].labels])
    /\ told' = told
    /\ IF req[c].val = NoValue THEN Ends(c, "ok") ELSE Goes(c, [req[c] EXCEPT !.at = "data"])
\* Mutation: the write is not conditional.
NoCas == TRUE
CasZero == secret = None \/ secret.vals = <<>>
VaultCreateData(c) ==
    /\ Is(c, "create", "data", "vault")
    /\ IF ~CasZero THEN SecretFails(c)
       ELSE /\ SecretBecomes(WithVersion(IF secret = None THEN NewSecret({}, <<>>) ELSE secret, req[c].val))
            /\ TellsVersion(c, 1, req[c].val)
            /\ Ends(c, "ok")

\* azure: look for the secret, then set it, whatever it is by then.  A look
\* that fails is taken for a name that is free, even if it is not (blind).
AzureCreateRead(c) ==
    /\ Is(c, "create", "first", "azure")
    /\ IF Usable THEN SecretExists(c) \/ SecretGoes(c, [req[c] EXCEPT !.at = "blind"])
       ELSE SecretGoes(c, [req[c] EXCEPT !.at = "set"])
AzureSet(l, v) == IF secret = None THEN NewSecret(l, <<v>>)
                  ELSE [WithVersion(secret, v) EXCEPT !.labels = l]
AzureCreateSet(c) ==
    /\ Is(c, "create", "set", "azure") \/ Is(c, "create", "blind", "azure")
    /\ IF secret # None /\ secret.deleting THEN SecretFails(c)
       ELSE LET v == IF req[c].val = NoValue THEN Placeholder ELSE req[c].val IN
            /\ SecretBecomes(AzureSet(req[c].labels, v))
            /\ IF req[c].at = "set" THEN TellsVersion(c, 1, v) ELSE told' = told
            /\ Ends(c, "ok")

\* gcp: the secret, then its first version.
GcpCreate(c) ==
    /\ Is(c, "create", "first", "gcp")
    /\ IF secret # None THEN SecretExists(c)
       ELSE IF req[c].val = NoValue THEN MakesSecret(c, <<>>)
       ELSE /\ SecretBecomes(NewSecret(req[c].labels, <<>>))
            /\ told' = {}
            /\ Goes(c, [req[c] EXCEPT !.at = "data"])
GcpCreateVersion(c) ==
    /\ Is(c, "create", "data", "gcp")
    /\ IF secret = None THEN SecretFails(c)
       ELSE SecretBecomes(WithVersion(secret, req[c].val)) /\ TellsVersion(c, 1, req[c].val) /\ Ends(c, "ok")

-----------------------------------------------------------------------------
(* PutSecretValue *)

\* ListVersions, for which a secret scheduled for deletion may be out of sight.
InmemVersions == Usable
VaultVersions == secret # None
GcpVersions == secret # None
AwsVersions == secret # None
AzureVersions == Usable
VersionsListed == CASE backend = "inmem" -> InmemVersions
                    [] backend = "vault" -> VaultVersions
                    [] backend = "gcp"   -> GcpVersions
                    [] backend = "aws"   -> AwsVersions
                    [] backend = "azure" -> AzureVersions


AddsVersion(c, s) ==
    /\ SecretBecomes(WithVersion(s, req[c].val))
    /\ TellsVersion(c, Len(s.vals) + 1, req[c].val)
    /\ Ends(c, "ok")
InmemPut(c) ==
    /\ Is(c, "put", "first", "inmem")
    /\ IF Usable THEN AddsVersion(c, secret) ELSE SecretFails(c)
\* vault: a write to a name that is not there creates it.
VaultPut(c) ==
    /\ Is(c, "put", "first", "vault")
    /\ AddsVersion(c, IF secret = None THEN NewSecret({}, <<>>) ELSE secret)
GcpPut(c) ==
    /\ Is(c, "put", "first", "gcp")
    /\ IF secret # None THEN AddsVersion(c, secret) ELSE SecretFails(c)
\* aws and azure: the write, then a list whose length is the number.
AwsPut(c) ==
    /\ Is(c, "put", "first", "aws")
    /\ IF ~Usable THEN SecretFails(c)
       ELSE SecretBecomes(WithVersion(secret, req[c].val)) /\ told' = told /\ Goes(c, [req[c] EXCEPT !.at = "list"])
VersionCount == IF WholeList THEN LatestVersion ELSE VersionPage
AwsPutList(c) ==
    /\ Is(c, "put", "list", "aws")
    /\ IF ~AwsVersions THEN SecretFails(c)
       ELSE TellsVersion(c, VersionCount, req[c].val) /\ Ends(c, "ok") /\ SecretBecomes(secret)
\* azure: the new version has no labels.
AzurePut(c) ==
    /\ Is(c, "put", "first", "azure")
    /\ IF secret # None /\ secret.deleting THEN SecretFails(c)
       ELSE /\ SecretBecomes(AzureSet({}, req[c].val))
            /\ told' = told
            /\ Goes(c, [req[c] EXCEPT !.at = "list"])
AzurePutList(c) ==
    /\ Is(c, "put", "list", "azure")
    /\ IF ~AzureVersions THEN SecretFails(c)
       ELSE TellsVersion(c, VersionCount, req[c].val) /\ Ends(c, "ok") /\ SecretBecomes(secret)

-----------------------------------------------------------------------------
(* GetSecretValue *)

\* Version 0 is the latest one.
ChosenVersion(n) == IF n = 0 THEN LatestVersion ELSE n
ReadableVersion(n) == ChosenVersion(n) \in (1..LatestVersion) \ secret.hidden
ReturnsValue(c, n, v) ==
    /\ TellsVersion(c, n, v)
    /\ SecretBecomes(secret)
    /\ IF req[c].head THEN Goes(c, HeadSecretRequest) ELSE Ends(c, "ok")

FrontVersions(c) ==
    /\ req[c].op = "get" /\ req[c].at = "front"
    /\ IF ~VersionsListed \/ VersionCount < 2 THEN SecretFails(c)
       ELSE SecretGoes(c, [req[c] EXCEPT !.at = "first", !.ver = VersionCount - 1])

InmemGet(c) ==
    /\ Is(c, "get", "first", "inmem")
    /\ IF ~Usable \/ ~ReadableVersion(req[c].ver) THEN SecretFails(c)
       ELSE LET n == ChosenVersion(req[c].ver) IN ReturnsValue(c, n, secret.vals[n])
VaultGet(c) ==
    /\ Is(c, "get", "first", "vault")
    /\ IF secret = None \/ ~ReadableVersion(req[c].ver) THEN SecretFails(c)
       ELSE LET n == ChosenVersion(req[c].ver) IN ReturnsValue(c, n, secret.vals[n])
GcpGet(c) ==
    /\ Is(c, "get", "first", "gcp")
    /\ IF secret = None \/ ~ReadableVersion(req[c].ver) THEN SecretFails(c)
       ELSE LET n == ChosenVersion(req[c].ver) IN ReturnsValue(c, n, secret.vals[n])

\* aws and azure: for the latest, its value and then the count of versions;
\* for another, the list and then the value of the version found in it: when
\* the list is a page of the versions, any of them may be the nth.
Listed(n) == IF n = 0 \/ WholeList THEN {ChosenVersion(n)} ELSE 1..LatestVersion
ByNumber(c, listable) ==
    IF listable /\ ReadableVersion(req[c].ver) /\ req[c].ver <= VersionCount
    THEN \E i \in Listed(req[c].ver) :
            SecretGoes(c, [req[c] EXCEPT !.val = secret.vals[i],
                                         !.at = IF req[c].ver = 0 THEN "count" ELSE "fetch"])
    ELSE SecretFails(c)
Fetched(c) ==
    IF Usable /\ \E i \in 1..LatestVersion : secret.vals[i] = req[c].val
    THEN ReturnsValue(c, req[c].ver, req[c].val) ELSE SecretFails(c)
AwsGet(c) == Is(c, "get", "first", "aws") /\ ByNumber(c, Usable)
AwsGetCount(c) ==
    /\ Is(c, "get", "count", "aws")
    /\ IF ~AwsVersions \/ LatestVersion = 0 THEN SecretFails(c)
       ELSE ReturnsValue(c, VersionCount, req[c].val)
AwsGetFetch(c) == Is(c, "get", "fetch", "aws") /\ Fetched(c)
AzureGet(c) == Is(c, "get", "first", "azure") /\ ByNumber(c, Usable)
AzureGetCount(c) ==
    /\ Is(c, "get", "count", "azure")
    /\ IF ~AzureVersions THEN SecretFails(c) ELSE ReturnsValue(c, VersionCount, req[c].val)
AzureGetFetch(c) == Is(c, "get", "fetch", "azure") /\ Fetched(c)

-----------------------------------------------------------------------------
(* HeadSecret, alone or to read the tags an update will replace *)

InmemHead == Usable
VaultHead == secret # None
GcpHead == secret # None
AwsHead == secret # None
AzureHead == Usable
Headed == CASE backend = "inmem" -> InmemHead
            [] backend = "vault" -> VaultHead
            [] backend = "gcp"   -> GcpHead
            [] backend = "aws"   -> AwsHead
            [] backend = "azure" -> AzureHead
HeadSecret(c) ==
    /\ req[c].op = "head"
    /\ Ends(c, None) /\ SecretSame
Retagged(r) == LET t == secret.labels \ {Description} IN
               IF r.add THEN t \cup r.tags ELSE t \ r.tags
FrontHead(c) ==
    /\ req[c].op = "update" /\ req[c].at = "front"
    /\ IF Headed THEN SecretGoes(c, [req[c] EXCEPT !.at = "first", !.want = Retagged(req[c])])
       ELSE SecretFails(c)

-----------------------------------------------------------------------------
(* UpdateSecret *)

Described(l, text) == CASE text = "leave" -> l
                        [] text = "set"   -> l \cup {Description}
                        [] text = "clear" -> l \ {Description}
\* What is not mentioned stays.
Patched(l, r) ==
    Described(IF r.want = None THEN l ELSE r.want \cup (l \cap {Description}), r.text)
\* One map of labels is sent, with what is mentioned and nothing else.
Replaced(r) == Described(IF r.want = None THEN {} ELSE r.want, r.text)
Relabels(c, l) == SecretBecomes([secret EXCEPT !.labels = l]) /\ told' = told /\ Ends(c, "ok")

InmemUpdate(c) ==
    /\ Is(c, "update", "first", "inmem")
    /\ IF secret = None THEN SecretFails(c) ELSE Relabels(c, Patched(secret.labels, req[c]))
VaultUpdateRead(c) ==
    /\ Is(c, "update", "first", "vault")
    /\ IF secret = None THEN SecretFails(c)
       ELSE SecretGoes(c, [req[c] EXCEPT !.at = "write", !.left = Patched(secret.labels, req[c])])
VaultUpdateWrite(c) ==
    /\ Is(c, "update", "write", "vault")
    /\ SecretBecomes(IF secret = None THEN NewSecret(req[c].left, <<>>)
               ELSE [secret EXCEPT !.labels = req[c].left])
    /\ told' = told
    /\ Ends(c, "ok")
GcpUpdate(c) ==
    /\ Is(c, "update", "first", "gcp")
    /\ IF secret = None THEN SecretFails(c) ELSE Relabels(c, Replaced(req[c]))
AzureUpdate(c) ==
    /\ Is(c, "update", "first", "azure")
    /\ IF ~Usable THEN SecretFails(c) ELSE Relabels(c, Replaced(req[c]))
\* aws: the description in one call; or look at the tags, remove those not
\* wanted, and add those wanted.
AwsUpdateText(c) ==
    /\ Is(c, "update", "first", "aws")
    /\ req[c].want = None
    /\ IF ~Usable THEN SecretFails(c) ELSE Relabels(c, Patched(secret.labels, req[c]))
AwsUpdateLook(c) ==
    /\ Is(c, "update", "first", "aws")
    /\ req[c].want # None
    /\ IF secret = None THEN SecretFails(c)
       ELSE LET l == secret.labels \ (req[c].want \cup {Description}) IN
            SecretGoes(c, [req[c] EXCEPT !.at = IF l = {} THEN "tag" ELSE "untag", !.left = l])
AwsUpdateUntag(c) ==
    /\ Is(c, "update", "untag", "aws")
    /\ IF ~Usable THEN SecretFails(c)
       ELSE /\ SecretBecomes([secret EXCEPT !.labels = @ \ req[c].left])
            /\ told' = told
            /\ Goes(c, [req[c] EXCEPT !.at = "tag"])
AwsUpdateTag(c) ==
    /\ Is(c, "update", "tag", "aws")
    /\ IF req[c].want = {} THEN Ends(c, "ok") /\ SecretSame
       ELSE IF ~Usable THEN SecretFails(c) ELSE Relabels(c, secret.labels \cup req[c].want)

-----------------------------------------------------------------------------
(* DeleteSecret *)

SecretVanishes(c) == SecretBecomes(None) /\ told' = {} /\ Ends(c, "ok")
SecretMissing(c) == Ends(c, "missing") /\ SecretSame
SchedulesDeletion(c) ==
    SecretBecomes([secret EXCEPT !.deleting = TRUE]) /\ told' = told /\ Ends(c, "ok")

InmemDelete(c) ==
    /\ Is(c, "delete", "first", "inmem")
    /\ IF secret = None THEN SecretMissing(c)
       ELSE IF req[c].force THEN SecretVanishes(c) ELSE SchedulesDeletion(c)
\* vault: all of it, or the latest version is hidden; no error when it is not there.
VaultDelete(c) ==
    /\ Is(c, "delete", "first", "vault")
    /\ IF req[c].force THEN SecretVanishes(c)
       ELSE /\ SecretBecomes(IF secret = None \/ LatestVersion = 0 THEN secret
                       ELSE [secret EXCEPT !.hidden = @ \cup {LatestVersion}])
            /\ told' = told
            /\ Ends(c, "ok")
GcpDelete(c) ==
    /\ Is(c, "delete", "first", "gcp")
    /\ IF secret = None THEN SecretMissing(c) ELSE SecretVanishes(c)
AwsDelete(c) ==
    /\ Is(c, "delete", "first", "aws")
    /\ IF req[c].force THEN SecretVanishes(c)
       ELSE IF secret = None THEN SecretMissing(c)
       ELSE IF secret.deleting THEN SecretFails(c) ELSE SchedulesDeletion(c)
\* azure: the deletion, then the purge, tried until it works or time is out.
\* Mutation: the deletion alone is the answer to a purge, too.
NeverPurges(r) == FALSE
Purges(r) == r.force
AzureDelete(c) ==
    /\ Is(c, "delete", "first", "azure")
    /\ IF ~Usable THEN SecretMissing(c)
       ELSE IF ~Purges(req[c]) THEN SchedulesDeletion(c)
       ELSE /\ SecretBecomes([secret EXCEPT !.deleting = TRUE])
            /\ told' = told
            /\ Goes(c, [req[c] EXCEPT !.at = "purge"])
AzurePurge(c) ==
    /\ Is(c, "delete", "purge", "azure")
    /\ secret # None /\ secret.deleting
    /\ SecretVanishes(c)

\* The recovery window is over.
SecretExpires ==
    /\ backend \in {"aws", "azure"}
    /\ secret # None /\ secret.deleting
    /\ SecretBecomes(None) /\ told' = {}
    /\ alone' = None /\ answer' = None
    /\ UNCHANGED <<service, backend, req>>

-----------------------------------------------------------------------------
SecretStep(c) ==
    /\ req[c] # Idle
    /\ \/ FrontVersions(c) \/ HeadSecret(c) \/ FrontHead(c)
       \/ /\ backend = "inmem"
          /\ \/ InmemCreate(c) \/ InmemPut(c) \/ InmemGet(c) \/ InmemUpdate(c)
             \/ InmemDelete(c)
       \/ /\ backend = "aws"
          /\ \/ AwsCreate(c) \/ AwsPut(c) \/ AwsPutList(c) \/ AwsGet(c)
             \/ AwsGetCount(c) \/ AwsGetFetch(c) \/ AwsUpdateText(c)
             \/ AwsUpdateLook(c) \/ AwsUpdateUntag(c) \/ AwsUpdateTag(c)
             \/ AwsDelete(c)
       \/ /\ backend = "vault"
          /\ \/ VaultCreateRead(c) \/ VaultCreateMeta(c) \/ VaultCreateData(c)
             \/ VaultPut(c) \/ VaultGet(c) \/ VaultUpdateRead(c)
             \/ VaultUpdateWrite(c) \/ VaultDelete(c)
       \/ /\ backend = "azure"
          /\ \/ AzureCreateRead(c) \/ AzureCreateSet(c) \/ AzurePut(c)
             \/ AzurePutList(c) \/ AzureGet(c) \/ AzureGetCount(c)
             \/ AzureGetFetch(c) \/ AzureUpdate(c) \/ AzureDelete(c)
             \/ AzurePurge(c)
       \/ /\ backend = "gcp"
          /\ \/ GcpCreate(c) \/ GcpCreateVersion(c) \/ GcpPut(c) \/ GcpGet(c)
             \/ GcpUpdate(c) \/ GcpDelete(c)

SecretsNext ==
    /\ service = "secrets"
    /\ \/ \E c \in Clients : SecretRequests(c) \/ SecretStep(c) \/ (Dies(c) /\ SecretSame)
       \/ SecretExpires

SecretsSpec == ShimInit /\ SecretsInit /\ [][SecretsNext]_<<shimVars, secretsVars>>

-----------------------------------------------------------------------------
\* A version keeps its value as long as the secret lives: what PutSecretValue,
\* GetSecretValue and CreateSecret ever said of a version is what it holds.
\* Where the number comes from another call than the value (aws, azure, and
\* the second call of CreateSecret on gcp) this is said of requests that no
\* other request overlapped; on aws, of secrets whose versions fit in one page
\* of their list; and on azure, of creates that did not fail to see a secret
\* that was there: such a create says version 1 whatever it appended.
VersionsTold ==
    secret # None => \A p \in told : p[1] \in 1..LatestVersion /\ secret.vals[p[1]] = p[2]

\* A forced DeleteSecret that nothing overlapped frees the name, whatever
\* failed or soft-deleted attempts had left of the secret; so it does when it
\* answers that there is no such secret, except on azure, whose purge starts
\* with a deletion that does not find a secret already deleted.
ForcedDeleteFrees ==
    [][\A c \in Clients :
         /\ service = "secrets" /\ alone = c
         /\ req[c].op = "delete" /\ req[c].force
         /\ answer' = "ok" \/ (answer' = "missing" /\ backend # "azure")
         => secret' = None]_<<shimVars, secretsVars>>
=============================================================================
