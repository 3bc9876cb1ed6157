--------------------------------- MODULE Kms ---------------------------------
(***************************************************************************)
(* Encryption keys (services/kms): the backends inmem, gcp, azure and aws, *)
(* behind the frontends aws_kms, gcp_cloudkms and azure_keyvault_keys.     *)
(*                                                                         *)
(* A ciphertext is the key it names and the material it was made with.     *)
(* Material is numbered in the order in which it is made; a key has the    *)
(* material it encrypts with and the set of what it still decrypts.        *)
(***************************************************************************)
EXTENDS Shim

CONSTANTS
    ChosenIds,      \* names that callers give to keys; generated ones are 1, 2, ...
    MaxMaterial,    \* bound: key materials ever made
    KeyRing

ASSUME ChosenIsSome == 0 \notin ChosenIds
ASSUME MaterialIsCounted == MaxMaterial \in Nat
ASSUME NoneIsNoKey ==
    None \notin [state : {"enabled", "pending", "disabled"}, latest : 1..MaxMaterial,
                 decrypts : SUBSET (1..MaxMaterial), rotates : BOOLEAN]

VARIABLES
    keys,       \* per id None or state, material, what it decrypts, rotation
    rings,      \* the key rings that exist (inmem, gcp)
    seq,        \* generated ids so far
    material,   \* materials made so far
    issued,     \* history: the ciphertexts handed out
    replaced    \* history: materials of keys that a generated id has taken over

kmsVars == <<keys, rings, seq, material, issued, replaced>>

KeyIds == ChosenIds \cup 1..MaxMaterial
NewKey ==
    [state |-> "enabled", latest |-> material + 1, decrypts |-> {material + 1}, rotates |-> FALSE]

KmsInit ==
    /\ keys = [k \in KeyIds |-> None]
    /\ rings = {}
    /\ seq = 0
    /\ material = 0
    /\ issued = {}
    /\ replaced = {}

-----------------------------------------------------------------------------
(* Requests.  The name 0 stands for none given. *)

KeyRequest(op, at, k) == [op |-> op, at |-> at, id |-> k]
AsksKms(c, r) == Begin(c, r) /\ UNCHANGED kmsVars
AsksOfKey(c, op) == \E k \in KeyIds : AsksKms(c, KeyRequest(op, "first", k))
AsksDecrypt(c, named) ==
    \E ct \in issued, k \in KeyIds \cup {0} :
        /\ named <=> k # 0
        /\ AsksKms(c, [op |-> "decrypt", at |-> "first", id |-> k, of |-> ct])

AwsCreateKey(c) == AsksKms(c, KeyRequest("create", "first", 0))
AwsDescribeKey(c) == AsksOfKey(c, "describe")
AwsEncrypt(c) == AsksOfKey(c, "encrypt")
AwsDecrypt(c) == AsksDecrypt(c, TRUE) \/ AsksDecrypt(c, FALSE)
AwsScheduleKeyDeletion(c) == AsksOfKey(c, "schedule")
AwsCancelKeyDeletion(c) == AsksOfKey(c, "cancel")
AwsEnableKeyRotation(c) == AsksOfKey(c, "enable")
AwsDisableKeyRotation(c) == AsksOfKey(c, "disable")

GcpCreateKeyRing(c) == AsksKms(c, KeyRequest("ring", "first", 0))
\* The ring is looked up first; a create may go without a name.
GcpCreateCryptoKey(c) == \E k \in ChosenIds \cup {0} : AsksKms(c, KeyRequest("create", "ring", k))
GcpDestroyCryptoKeyVersion(c) == AsksOfKey(c, "schedule")
GcpPatchCryptoKey(c) == AsksOfKey(c, "enable") \/ AsksOfKey(c, "disable")
GcpEncrypt(c) == AsksOfKey(c, "encrypt")
GcpDecrypt(c) == AsksDecrypt(c, TRUE)
CloudKms(c) ==
    \/ GcpCreateKeyRing(c) \/ GcpCreateCryptoKey(c) \/ GcpDestroyCryptoKeyVersion(c)
    \/ GcpPatchCryptoKey(c) \/ GcpEncrypt(c) \/ GcpDecrypt(c)

AzureCreateKey(c) == \E k \in ChosenIds \cup {0} : AsksKms(c, KeyRequest("create", "first", k))
AzureDeleteKey(c) == AsksOfKey(c, "schedule")
AzureEncrypt(c) == AsksOfKey(c, "encrypt")
AzureDecrypt(c) == AsksDecrypt(c, TRUE)
KeyVaultKeys(c) == AzureCreateKey(c) \/ AzureDeleteKey(c) \/ AzureEncrypt(c) \/ AzureDecrypt(c)

KmsRequests(c) ==
    /\ req[c] = Idle
    /\ \/ AwsCreateKey(c) \/ AwsDescribeKey(c) \/ AwsEncrypt(c) \/ AwsDecrypt(c)
       \/ AwsScheduleKeyDeletion(c) \/ AwsCancelKeyDeletion(c)
       \/ AwsEnableKeyRotation(c) \/ AwsDisableKeyRotation(c)
       \/ CloudKms(c) \/ KeyVaultKeys(c)

-----------------------------------------------------------------------------
(* What a call leaves *)

KmsFails(c) == Fails(c) /\ UNCHANGED kmsVars
\* A read, whatever it finds.
KmsRead(c) == Ends(c, None) /\ UNCHANGED kmsVars
KeyOf(c) == keys[req[c].id]
Has(c) == IF req[c].id = 0 THEN FALSE ELSE KeyOf(c) # None
Enabled(c) == IF Has(c) THEN KeyOf(c).state = "enabled" ELSE FALSE
SetsKey(c, key) ==
    /\ keys' = [keys EXCEPT ![req[c].id] = key]
    /\ UNCHANGED <<rings, seq, material, issued, replaced>>
    /\ Ends(c, None)
\* In a state the operation allows, or else an error.
Changes(c, allowed, key) == IF allowed THEN SetsKey(c, key) ELSE KmsFails(c)
MakesKey(c, k, key) ==
    /\ material < MaxMaterial
    /\ keys' = [keys EXCEPT ![k] = key]
    /\ material' = material + 1
    /\ UNCHANGED <<rings, issued>>
    /\ Ends(c, None)
Seals(c) ==
    IF ~Enabled(c) THEN KmsFails(c)
    ELSE /\ issued' = issued \cup {[id |-> req[c].id, by |-> KeyOf(c).latest]}
         /\ UNCHANGED <<keys, rings, seq, material, replaced>>
         /\ Ends(c, None)
\* The key a ciphertext is decrypted with: the one it names, which must be the
\* one asked for if one is.
Opens(c, k) ==
    /\ UNCHANGED kmsVars
    /\ IF k = 0 THEN Fails(c)
       ELSE IF keys[k] = None THEN Fails(c)
       ELSE IF keys[k].state # "enabled" \/ req[c].of.by \notin keys[k].decrypts THEN Fails(c)
       ELSE Ends(c, [plain |-> req[c].of.by])

CreateRingCheck(c) ==
    /\ service = "kms"
    /\ req[c].op = "create"
    /\ req[c].at = "ring"
    /\ UNCHANGED kmsVars
    /\ IF backend \in {"inmem", "gcp"} /\ rings = {} THEN Fails(c)
       ELSE Goes(c, [req[c] EXCEPT !.at = "first"])

-----------------------------------------------------------------------------
(* inmem: keys by the id a caller chose, or by a generated one, which is not *)
(* looked for first.                                                        *)

Materials(k) == IF keys[k] = None THEN {} ELSE keys[k].decrypts

\* Mutant: a chosen id may be taken.
NeverTaken(c) == FALSE
Taken(c) == Has(c)
InmemCreateKey(c) ==
    /\ Is(c, "create", "first", "inmem")
    /\ IF req[c].id # 0
       THEN /\ UNCHANGED <<seq, replaced>>
            /\ IF Taken(c) THEN Fails(c) /\ UNCHANGED <<keys, rings, material, issued>>
               ELSE MakesKey(c, req[c].id, NewKey)
       ELSE /\ seq' = seq + 1
            /\ MakesKey(c, seq + 1, NewKey)
            /\ replaced' = replaced \cup Materials(seq + 1)
InmemEncrypt(c) == Is(c, "encrypt", "first", "inmem") /\ Seals(c)
InmemDecrypt(c) ==
    /\ Is(c, "decrypt", "first", "inmem")
    /\ Opens(c, IF req[c].id \in {0, req[c].of.id} THEN req[c].of.id ELSE 0)
InmemScheduleKeyDeletion(c) ==
    /\ Is(c, "schedule", "first", "inmem")
    /\ Changes(c, Has(c), [KeyOf(c) EXCEPT !.state = "pending"])
InmemCancelKeyDeletion(c) ==
    /\ Is(c, "cancel", "first", "inmem")
    /\ Changes(c, IF Has(c) THEN KeyOf(c).state = "pending" ELSE FALSE, [KeyOf(c) EXCEPT !.state = "disabled"])
InmemEnableKeyRotation(c) ==
    /\ Is(c, "enable", "first", "inmem")
    /\ Changes(c, Has(c), [KeyOf(c) EXCEPT !.rotates = TRUE])
InmemDisableKeyRotation(c) ==
    /\ Is(c, "disable", "first", "inmem")
    /\ Changes(c, Has(c), [KeyOf(c) EXCEPT !.rotates = FALSE])
InmemCreateKeyRing(c) ==
    /\ Is(c, "ring", "first", "inmem")
    /\ rings' = {KeyRing}
    /\ UNCHANGED <<keys, seq, material, issued, replaced>>
    /\ Ends(c, None)
InmemDescribeKey(c) == Is(c, "describe", "first", "inmem") /\ KmsRead(c)

-----------------------------------------------------------------------------
(* aws: ids are generated; the name a caller chose is not sent. *)

AwsMakesKey(c) ==
    /\ Is(c, "create", "first", "aws")
    /\ seq' = seq + 1
    /\ UNCHANGED replaced
    /\ MakesKey(c, seq + 1, NewKey)
AwsSeals(c) == Is(c, "encrypt", "first", "aws") /\ Seals(c)
AwsOpens(c) ==
    /\ Is(c, "decrypt", "first", "aws")
    /\ Opens(c, IF req[c].id \in {0, req[c].of.id} THEN req[c].of.id ELSE 0)
AwsSchedules(c) ==
    /\ Is(c, "schedule", "first", "aws")
    /\ Changes(c, IF Has(c) THEN KeyOf(c).state # "pending" ELSE FALSE, [KeyOf(c) EXCEPT !.state = "pending"])
AwsCancels(c) ==
    /\ Is(c, "cancel", "first", "aws")
    /\ Changes(c, IF Has(c) THEN KeyOf(c).state = "pending" ELSE FALSE, [KeyOf(c) EXCEPT !.state = "disabled"])
AwsEnables(c) ==
    Is(c, "enable", "first", "aws") /\ Changes(c, Enabled(c), [KeyOf(c) EXCEPT !.rotates = TRUE])
AwsDisables(c) ==
    Is(c, "disable", "first", "aws") /\ Changes(c, Enabled(c), [KeyOf(c) EXCEPT !.rotates = FALSE])
AwsKeyRing(c) == Is(c, "ring", "first", "aws") /\ KmsFails(c)
\* The key, then its tags.
AwsDescribes(c) ==
    /\ Is(c, "describe", "first", "aws")
    /\ UNCHANGED kmsVars
    /\ IF Has(c) THEN Goes(c, [req[c] EXCEPT !.at = "tags"]) ELSE Fails(c)
AwsListsTags(c) == Is(c, "describe", "tags", "aws") /\ KmsRead(c)

-----------------------------------------------------------------------------
(* gcp: keys cannot be deleted. *)

GcpMakesKey(c) ==
    /\ Is(c, "create", "first", "gcp")
    /\ UNCHANGED <<seq, replaced>>
    /\ IF req[c].id = 0 \/ Has(c) THEN Fails(c) /\ UNCHANGED <<keys, rings, material, issued>>
       ELSE MakesKey(c, req[c].id, NewKey)
GcpSeals(c) == Is(c, "encrypt", "first", "gcp") /\ Seals(c)
GcpOpens(c) ==
    /\ Is(c, "decrypt", "first", "gcp")
    /\ Opens(c, IF req[c].id = req[c].of.id THEN req[c].of.id ELSE 0)
GcpSchedules(c) == Is(c, "schedule", "first", "gcp") /\ KmsFails(c)
GcpCancels(c) == Is(c, "cancel", "first", "gcp") /\ KmsFails(c)
GcpEnables(c) ==
    Is(c, "enable", "first", "gcp") /\ Changes(c, Has(c), [KeyOf(c) EXCEPT !.rotates = TRUE])
GcpDisables(c) ==
    Is(c, "disable", "first", "gcp") /\ Changes(c, Has(c), [KeyOf(c) EXCEPT !.rotates = FALSE])
GcpMakesRing(c) ==
    /\ Is(c, "ring", "first", "gcp")
    /\ rings' = {KeyRing}
    /\ UNCHANGED <<keys, seq, material, issued, replaced>>
    /\ Ends(c, None)
GcpDescribes(c) == Is(c, "describe", "first", "gcp") /\ KmsRead(c)

-----------------------------------------------------------------------------
(* azure: creating a key that exists adds a version, and what was encrypted  *)
(* is decrypted with the latest one.                                         *)

Latest(key) == [key EXCEPT !.decrypts = {key.latest}]
AzureMakesKey(c) ==
    /\ Is(c, "create", "first", "azure")
    /\ UNCHANGED <<seq, replaced>>
    /\ IF req[c].id = 0 \/ (Has(c) /\ ~Enabled(c)) THEN Fails(c) /\ UNCHANGED <<keys, rings, material, issued>>
       ELSE MakesKey(c, req[c].id, Latest(NewKey))
AzureSeals(c) == Is(c, "encrypt", "first", "azure") /\ Seals(c)
AzureOpens(c) == Is(c, "decrypt", "first", "azure") /\ Opens(c, req[c].id)
AzureSchedules(c) ==
    Is(c, "schedule", "first", "azure") /\ Changes(c, Enabled(c), [KeyOf(c) EXCEPT !.state = "pending"])
AzureCancels(c) ==
    /\ Is(c, "cancel", "first", "azure")
    /\ Changes(c, IF Has(c) THEN KeyOf(c).state = "pending" ELSE FALSE, [KeyOf(c) EXCEPT !.state = "enabled"])
AzureEnables(c) ==
    Is(c, "enable", "first", "azure") /\ Changes(c, Enabled(c), [KeyOf(c) EXCEPT !.rotates = TRUE])
AzureDisables(c) ==
    Is(c, "disable", "first", "azure") /\ Changes(c, Enabled(c), [KeyOf(c) EXCEPT !.rotates = FALSE])
AzureKeyRing(c) == Is(c, "ring", "first", "azure") /\ KmsFails(c)
AzureDescribes(c) == Is(c, "describe", "first", "azure") /\ KmsRead(c)

\* The cloud rotates a key: it encrypts with new material and keeps the old.
CloudRotates(k) ==
    /\ backend # "inmem"
    /\ keys[k] # None
    /\ keys[k].rotates
    /\ keys[k].state = "enabled"
    /\ material < MaxMaterial
    /\ material' = material + 1
    /\ keys' = [keys EXCEPT ![k].latest = material + 1,
                            ![k].decrypts = (IF backend = "azure" THEN {} ELSE @) \cup {material + 1}]
    /\ UNCHANGED <<rings, seq, issued, replaced>>
\* The waiting time of a deletion ends.
CloudForgets(k) ==
    /\ backend \in {"aws", "azure"}
    /\ keys[k] # None
    /\ keys[k].state = "pending"
    /\ keys' = [keys EXCEPT ![k] = None]
    /\ UNCHANGED <<rings, seq, material, issued, replaced>>

-----------------------------------------------------------------------------
KmsCall(c) ==
    /\ req[c] # Idle
    /\ \/ CreateRingCheck(c)
       \/ /\ backend = "inmem"
          /\ \/ InmemCreateKey(c) \/ InmemEncrypt(c) \/ InmemDecrypt(c)
             \/ InmemScheduleKeyDeletion(c) \/ InmemCancelKeyDeletion(c)
             \/ InmemEnableKeyRotation(c) \/ InmemDisableKeyRotation(c)
             \/ InmemCreateKeyRing(c) \/ InmemDescribeKey(c)
       \/ /\ backend = "aws"
          /\ \/ AwsMakesKey(c) \/ AwsSeals(c) \/ AwsOpens(c) \/ AwsSchedules(c)
             \/ AwsCancels(c) \/ AwsEnables(c) \/ AwsDisables(c) \/ AwsKeyRing(c)
             \/ AwsDescribes(c) \/ AwsListsTags(c)
       \/ /\ backend = "gcp"
          /\ \/ GcpMakesKey(c) \/ GcpSeals(c) \/ GcpOpens(c) \/ GcpSchedules(c)
             \/ GcpCancels(c) \/ GcpEnables(c) \/ GcpDisables(c) \/ GcpMakesRing(c)
             \/ GcpDescribes(c)
       \/ /\ backend = "azure"
          /\ \/ AzureMakesKey(c) \/ AzureSeals(c) \/ AzureOpens(c)
             \/ AzureSchedules(c) \/ AzureCancels(c) \/ AzureEnables(c)
             \/ AzureDisables(c) \/ AzureKeyRing(c) \/ AzureDescribes(c)

KmsNext ==
    /\ service = "kms"
    /\ \/ \E c \in Clients : KmsRequests(c) \/ KmsCall(c) \/ (Dies(c) /\ UNCHANGED kmsVars)
       \/ /\ \E k \in KeyIds : CloudRotates(k) \/ CloudForgets(k)
          /\ answer' = None
          /\ UNCHANGED <<service, backend, req, alone>>

KmsSpec == ShimInit /\ KmsInit /\ [][KmsNext]_<<shimVars, kmsVars>>

-----------------------------------------------------------------------------
(* Property *)

\* What was encrypted under a key can be decrypted for as long as there is a key
\* of that id, however keys have been created, rotated, scheduled for deletion
\* and recovered since, by any client, but for one way to lose it: CreateKey of
\* the in-process backend with an id it generates takes over a key that a caller
\* had created under that very name.  azure is not claimed: there a second
\* create and a rotation take the earlier ciphertexts away.
StillReadable ==
    backend # "azure" =>
        \A ct \in issued :
            keys[ct.id] # None /\ ct.by \notin replaced => ct.by \in keys[ct.id].decrypts
=============================================================================
