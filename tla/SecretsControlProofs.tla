------------------------ MODULE SecretsControlProofs ------------------------
(***************************************************************************)
(* Two services that read and write back what others change meanwhile: the *)
(* secrets, and the managed instances of the control planes (below).       *)
(*                                                                         *)
(* VersionsTold and ForcedDeleteFrees for every set of clients and labels, *)
(* on every backend.                                                       *)
(*                                                                         *)
(* A version and a value that a client was told belong together for as     *)
(* long as the secret lives: a secret only gains versions, and a request   *)
(* that reads the number with another call than the value tells the two    *)
(* only if nobody disturbed it (Undisturbed says what such a request may   *)
(* rely on between its calls).                                             *)
(***************************************************************************)
EXTENDS Secrets, ControlPlane, TLAPS

SecCreateReqs == [op : {"create"}, at : {"first", "meta", "data", "set", "blind"}, val : Nat,
                  labels : SUBSET AllLabels, orPut : BOOLEAN]
SecPutReqs == [op : {"put"}, at : {"first", "list"}, val : Nat]
SecGetReqs == [op : {"get"}, at : {"first", "front", "count", "fetch"}, ver : Nat, val : Nat, head : BOOLEAN]
SecHeadReqs == [op : {"head"}, at : {"first"}]
SecUpdateShapes == [op : {"update"}, at : {"front", "first", "write", "untag", "tag"}, tags : SUBSET Labels,
                    add : BOOLEAN, text : {"leave", "set", "clear"}, want : (SUBSET AllLabels) \cup {None},
                    left : SUBSET AllLabels]
SecUpdateReqs == {r \in SecUpdateShapes : r.at \in {"untag", "tag"} => r.want # None}
SecDeleteReqs == [op : {"delete"}, at : {"first", "purge"}, force : BOOLEAN]
SecReq == SecCreateReqs \cup SecPutReqs \cup SecGetReqs \cup SecHeadReqs \cup SecUpdateReqs \cup SecDeleteReqs

SecretTypes ==
    /\ secret \in SecretStates \cup {None}
    /\ told \subseteq Nat \X Nat
    /\ written \in Nat
SecretReqs ==
    /\ req \in [Clients -> {Idle} \cup SecReq]
    /\ alone # None => alone \in Clients /\ \A d \in Clients : d # alone => req[d] = Idle
\* What was told of a secret went with it.
ToldOfThis == (secret = None => told = {}) /\ VersionsTold

\* What a request that nobody disturbed may rely on between its two calls:
\* the version it wrote is the last one; the value it read is that of the
\* version it asked for; the secret it made has no version yet; the secret it
\* did not see cannot be used.
Latest(v) == LatestVersion >= 1 /\ secret.vals[LatestVersion] = v
StillTrue(r) ==
    /\ r.op = "put" /\ r.at = "list" /\ secret # None => Latest(r.val)
    /\ r.op = "get" /\ r.at = "count" /\ secret # None => Latest(r.val)
    /\ r.op = "get" /\ r.at = "fetch" /\ secret # None /\ WholeList =>
          r.ver \in 1..LatestVersion /\ secret.vals[r.ver] = r.val
    /\ r.op = "create" /\ r.at = "data" /\ backend = "gcp" /\ secret # None => secret.vals = <<>>
    /\ r.op = "create" /\ r.at = "set" => ~Usable
Undisturbed == \A c \in Clients : alone = c => StillTrue(req[c])

\* The shim runs one of the five backends.
SecretsServed == service = "secrets" => backend \in {"inmem", "vault", "gcp", "azure", "aws"}

SecretInv == SecretTypes /\ ToldOfThis /\ SecretReqs /\ Undisturbed

-----------------------------------------------------------------------------
(* Requests *)

LEMMA SecReqKinds ==
    ASSUME SecretReqs, NEW c \in Clients, req[c] # Idle
    PROVE  /\ req[c] \in SecReq
           /\ req[c].op = "create" => req[c] \in SecCreateReqs
           /\ req[c].op = "put" => req[c] \in SecPutReqs
           /\ req[c].op = "get" => req[c] \in SecGetReqs
           /\ req[c].op = "update" => req[c] \in SecUpdateReqs
           /\ req[c].op = "delete" => req[c] \in SecDeleteReqs
BY DEF SecretReqs, SecReq, SecCreateReqs, SecPutReqs, SecGetReqs, SecHeadReqs, SecUpdateReqs, SecUpdateShapes, SecDeleteReqs

LEMMA SecIdleIsNone == Idle \notin SecReq
BY DEF Idle, SecReq, SecCreateReqs, SecPutReqs, SecGetReqs, SecHeadReqs, SecUpdateReqs, SecUpdateShapes, SecDeleteReqs

LEMMA SecBegins ==
    ASSUME SecretReqs, Undisturbed, UNCHANGED secret, NEW c \in Clients, NEW r \in SecReq,
           r.at \in {"first", "front"}, Begin(c, r)
    PROVE  SecretReqs' /\ Undisturbed'
<1>1. req' = [req EXCEPT ![c] = r] /\ req' \in [Clients -> {Idle} \cup SecReq]
  BY DEF Begin, SecretReqs
<1>2. alone' = IF Running(c) = {} THEN c ELSE None
  BY DEF Begin
<1>3. Running(c) = {} => \A d \in Clients : d # c => req[d] = Idle
  BY DEF Running
<1>4. alone' # None => alone' = c /\ \A d \in Clients : d # c => req'[d] = Idle
  BY <1>1, <1>2, <1>3 DEF SecretReqs
<1>5. SecretReqs'
  BY <1>1, <1>4 DEF SecretReqs
<1>6. StillTrue(req[c])'
  BY <1>1 DEF StillTrue, SecretReqs
<1>7. Undisturbed'
  BY <1>4, <1>6, NoneIsNoClient DEF Undisturbed
<1> QED
  BY <1>5, <1>7

LEMMA SecGoes ==
    ASSUME SecretReqs, Undisturbed, NEW c \in Clients, req[c] # Idle, NEW r \in SecReq,
           Goes(c, r), alone = c => StillTrue(r)'
    PROVE  SecretReqs' /\ Undisturbed'
<1>1. req' = [req EXCEPT ![c] = r] /\ req' \in [Clients -> {Idle} \cup SecReq] /\ alone' = alone
  BY DEF Goes, SecretReqs
<1>2. alone # None => alone = c
  BY DEF SecretReqs
<1>3. SecretReqs'
  BY <1>1, <1>2 DEF SecretReqs
<1>4. req'[c] = r
  BY <1>1 DEF SecretReqs
<1>5. alone = c => StillTrue(req[c])'
  BY <1>4 DEF StillTrue
<1>6. Undisturbed'
  BY <1>1, <1>2, <1>5, NoneIsNoClient DEF Undisturbed
<1> QED
  BY <1>3, <1>6

LEMMA SecEnds ==
    ASSUME SecretReqs, NEW c \in Clients, NEW says, Ends(c, says)
    PROVE  SecretReqs' /\ Undisturbed'
BY NoneIsNoClient DEF Ends, SecretReqs, Undisturbed

-----------------------------------------------------------------------------
(* The secret *)

LEMMA SecretSameKeeps ==
    ASSUME SecretTypes, ToldOfThis, SecretSame
    PROVE  SecretTypes' /\ ToldOfThis'
BY DEF SecretTypes, ToldOfThis, VersionsTold, LatestVersion, SecretSame

LEMMA SecretGone ==
    ASSUME SecretTypes, secret' = None, told' = {}, UNCHANGED written
    PROVE  SecretTypes' /\ ToldOfThis'
BY DEF SecretTypes, ToldOfThis, VersionsTold

\* s is secret with no version changed, or a new one: what was told stands.
Continues(s) ==
    secret # None => /\ Len(secret.vals) <= Len(s.vals)
                     /\ \A i \in 1..Len(secret.vals) : s.vals[i] = secret.vals[i]
LEMMA SecretContinues ==
    ASSUME SecretTypes, ToldOfThis, NEW s \in SecretStates, secret' = s, UNCHANGED written, Continues(s),
           \A p \in told' : p \in told \/ (p \in Nat \X Nat /\ p[1] \in 1..Len(s.vals) /\ s.vals[p[1]] = p[2])
    PROVE  SecretTypes' /\ ToldOfThis'
<1>1. SecretTypes'
  BY DEF SecretTypes
<1>2. secret' # None
  BY NoneIsNoSecret
<1>3. ASSUME NEW p \in told'
      PROVE  p[1] \in 1..Len(s.vals) /\ s.vals[p[1]] = p[2]
  <2>1. CASE p \in told
    <3>1. secret # None /\ p[1] \in 1..Len(secret.vals) /\ secret.vals[p[1]] = p[2]
      BY <2>1 DEF ToldOfThis, VersionsTold, LatestVersion
    <3>2. Len(secret.vals) \in Nat /\ Len(s.vals) \in Nat
      BY <3>1 DEF SecretTypes, SecretStates
    <3> QED
      BY <3>1, <3>2 DEF Continues
  <2> QED
    BY <2>1
<1>4. ToldOfThis'
  BY <1>2, <1>3 DEF ToldOfThis, VersionsTold, LatestVersion
<1> QED
  BY <1>1, <1>4

LEMMA NewSecretIs ==
    ASSUME NEW l \in SUBSET AllLabels, NEW vs \in Seq(Nat)
    PROVE  /\ NewSecret(l, vs) \in SecretStates /\ NewSecret(l, vs).vals = vs
           /\ secret = None => Continues(NewSecret(l, vs))
BY DEF NewSecret, SecretStates, Continues

LEMMA EmptySecretIs ==
    ASSUME NEW l \in SUBSET AllLabels
    PROVE  /\ NewSecret(l, <<>>) \in SecretStates /\ NewSecret(l, <<>>).vals = <<>>
           /\ secret = None => Continues(NewSecret(l, <<>>))
<1>1. <<>> \in Seq(Nat)
  OBVIOUS
<1> QED
  BY <1>1, NewSecretIs

LEMMA ValuedIs ==
    ASSUME NEW s \in SecretStates, NEW vs \in Seq(Nat)
    PROVE  LET t == [s EXCEPT !.vals = vs]
           IN  t \in SecretStates /\ t.vals = vs /\ t.labels = s.labels /\ t.deleting = s.deleting
BY DEF SecretStates

LEMMA WithVersionIs ==
    ASSUME NEW s \in SecretStates, NEW v \in Nat
    PROVE  LET t == WithVersion(s, v) IN
           /\ t \in SecretStates /\ t.labels = s.labels /\ t.deleting = s.deleting
           /\ Len(t.vals) = Len(s.vals) + 1 /\ t.vals[Len(s.vals) + 1] = v /\ Len(s.vals) \in Nat
           /\ \A i \in 1..Len(s.vals) : t.vals[i] = s.vals[i]
<1> DEFINE t == WithVersion(s, v)
           vs == Append(s.vals, v)
<1>1. s.vals \in Seq(Nat) /\ vs \in Seq(Nat)
  BY DEF SecretStates
<1>2. t = [s EXCEPT !.vals = vs]
  BY DEF WithVersion
<1>3. Len(vs) = Len(s.vals) + 1 /\ vs[Len(s.vals) + 1] = v /\ Len(s.vals) \in Nat
  BY <1>1
<1>4. \A i \in 1..Len(s.vals) : vs[i] = s.vals[i]
  BY <1>1
<1> HIDE DEF t, vs
<1>5. t \in SecretStates /\ t.vals = vs /\ t.labels = s.labels /\ t.deleting = s.deleting
  BY <1>1, <1>2, ValuedIs
<1> QED
  BY <1>3, <1>4, <1>5 DEF t

LEMMA LabelledIs ==
    ASSUME NEW s \in SecretStates, NEW l \in SUBSET AllLabels
    PROVE  LET t == [s EXCEPT !.labels = l]
           IN  t \in SecretStates /\ t.vals = s.vals /\ t.deleting = s.deleting
BY DEF SecretStates

LEMMA DeletingIs ==
    ASSUME NEW s \in SecretStates
    PROVE  LET t == [s EXCEPT !.deleting = TRUE]
           IN  t \in SecretStates /\ t.vals = s.vals /\ t.deleting
BY DEF SecretStates

LEMMA HiddenIs ==
    ASSUME NEW s \in SecretStates, NEW h \in Nat
    PROVE  LET t == [s EXCEPT !.hidden = @ \cup {h}]
           IN  t \in SecretStates /\ t.vals = s.vals
BY DEF SecretStates

\* A version is added to the secret, or to one that is made with it.
LEMMA SecretAdds ==
    ASSUME SecretTypes, ToldOfThis, NEW s \in SecretStates, s = secret \/ (secret = None /\ s.vals = <<>>),
           NEW v \in Nat, NEW t \in SecretStates, t.vals = WithVersion(s, v).vals,
           secret' = t, UNCHANGED written, told' \subseteq told \cup {<<Len(s.vals) + 1, v>>}
    PROVE  SecretTypes' /\ ToldOfThis' /\ Latest(v)'
<1>1. /\ Len(t.vals) = Len(s.vals) + 1 /\ t.vals[Len(s.vals) + 1] = v /\ Len(s.vals) \in Nat
      /\ \A i \in 1..Len(s.vals) : t.vals[i] = s.vals[i]
  BY WithVersionIs
<1>2. Continues(t)
  BY <1>1 DEF Continues
<1>3. \A p \in told' : p \in told \/ (p \in Nat \X Nat /\ p[1] \in 1..Len(t.vals) /\ t.vals[p[1]] = p[2])
  <2> SUFFICES ASSUME NEW p, p = <<Len(s.vals) + 1, v>>
               PROVE  p \in Nat \X Nat /\ p[1] \in 1..Len(t.vals) /\ t.vals[p[1]] = p[2]
    OBVIOUS
  <2> QED
    BY <1>1
<1>4. Latest(v)'
  BY <1>1 DEF Latest, LatestVersion
<1> QED
  BY <1>2, <1>3, <1>4, SecretContinues

\* The versions stay; something true of them may be told.
LEMMA SecretRemains ==
    ASSUME SecretTypes, ToldOfThis, NEW t \in SecretStates, secret # None, t.vals = secret.vals,
           secret' = t, UNCHANGED written, NEW n, NEW v, told' \subseteq told \cup {<<n, v>>},
           told' # told => v \in Nat /\ n \in 1..Len(secret.vals) /\ secret.vals[n] = v
    PROVE  SecretTypes' /\ ToldOfThis'
<1>0. Len(secret.vals) \in Nat
  BY DEF SecretTypes, SecretStates
<1>1. Continues(t)
  BY <1>0 DEF Continues
<1>2. \A p \in told' : p \in told \/ (p \in Nat \X Nat /\ p[1] \in 1..Len(t.vals) /\ t.vals[p[1]] = p[2])
  <2> SUFFICES ASSUME NEW p \in told', p \notin told
               PROVE  p \in Nat \X Nat /\ p[1] \in 1..Len(t.vals) /\ t.vals[p[1]] = p[2]
    OBVIOUS
  <2>1. p = <<n, v>> /\ v \in Nat /\ n \in 1..Len(secret.vals) /\ secret.vals[n] = v
    OBVIOUS
  <2> QED
    BY <1>0, <2>1
<1> QED
  BY <1>1, <1>2, SecretContinues

LEMMA NamesAtMost ==
    ASSUME NEW c, NEW n, NEW v
    PROVE  /\ NamesVersion(c, n, v) \subseteq {<<n, v>>}
           /\ TellsVersion(c, n, v) => told' \subseteq told \cup {<<n, v>>}
BY DEF NamesVersion, TellsVersion

-----------------------------------------------------------------------------
(* Steps that do not change the secret *)

LEMMA SecFails ==
    ASSUME SecretInv, NEW c \in Clients, NEW says, Ends(c, says), SecretSame
    PROVE  SecretInv'
BY SecEnds, SecretSameKeeps DEF SecretInv

LEMMA SecretFailsKeeps ==
    ASSUME SecretInv, NEW c \in Clients, SecretFails(c)
    PROVE  SecretInv'
BY SecFails DEF SecretFails, Fails

LEMMA SecretGoesKeeps ==
    ASSUME SecretInv, NEW c \in Clients, req[c] # Idle, NEW r \in SecReq, SecretGoes(c, r),
           alone = c => StillTrue(r)
    PROVE  SecretInv'
<1>1. SecretSame /\ Goes(c, r) /\ backend' = backend
  BY DEF SecretGoes, Goes
<1>2. StillTrue(r) => StillTrue(r)'
  BY <1>1 DEF StillTrue, Latest, LatestVersion, Usable, WholeList, SecretSame
<1> QED
  BY <1>1, <1>2, SecGoes, SecretSameKeeps DEF SecretInv

LEMMA SecretSends ==
    ASSUME SecretInv, NEW c \in Clients, NEW r \in SecReq, r.at \in {"first", "front"},
           SendsSecret(c, r) \/ SendsValue(c, r) \/ SendsEmpty(c, r)
    PROVE  SecretInv'
<1>1. Begin(c, r) /\ UNCHANGED <<secret, told>> /\ (written' = written \/ written' = written + 1)
  BY DEF SendsSecret, SendsValue, SendsEmpty
<1>2. SecretTypes' /\ ToldOfThis'
  BY <1>1 DEF SecretInv, SecretTypes, ToldOfThis, VersionsTold, LatestVersion
<1> QED
  BY <1>1, <1>2, SecBegins DEF SecretInv

LEMMA SecretAsked ==
    ASSUME SecretInv, NEW c \in Clients, SecretRequests(c)
    PROVE  SecretInv'
<1>0. written + 1 \in Nat /\ NoValue \in Nat /\ 0..MaxValues \subseteq Nat
  BY MaxValuesAssumption DEF SecretInv, SecretTypes, NoValue
<1>1. ASSUME NEW v \in Nat, NEW l \in SUBSET AllLabels, NEW b \in BOOLEAN
      PROVE  CreateSecret(v, l, b) \in SecReq /\ CreateSecret(v, l, b).at = "first"
  BY DEF CreateSecret, SecReq, SecCreateReqs
<1>2. ASSUME NEW v \in Nat
      PROVE  PutSecretValue(v) \in SecReq /\ PutSecretValue(v).at = "first"
  BY DEF PutSecretValue, SecReq, SecPutReqs
<1>3. ASSUME NEW n \in Nat, NEW at \in {"first", "front"}, NEW b \in BOOLEAN
      PROVE  GetSecretValue(at, n, b) \in SecReq /\ GetSecretValue(at, n, b).at = at
  BY <1>0 DEF GetSecretValue, SecReq, SecGetReqs
<1>4. HeadSecretRequest \in SecReq /\ HeadSecretRequest.at = "first"
  BY DEF HeadSecretRequest, SecReq, SecHeadReqs
<1>5. ASSUME NEW tags \in SUBSET Labels, NEW at \in {"first", "front"}, NEW b \in BOOLEAN,
             NEW text \in {"leave", "set", "clear"}
      PROVE  UpdateSecret(at, tags, b, text) \in SecReq /\ UpdateSecret(at, tags, b, text).at = at
  BY DEF UpdateSecret, SecReq, SecUpdateReqs, SecUpdateShapes
<1>6. ASSUME NEW b \in BOOLEAN
      PROVE  DeleteSecret(b) \in SecReq /\ DeleteSecret(b).at = "first"
  BY DEF DeleteSecret, SecReq, SecDeleteReqs
<1>7. CASE AwsCreateSecret(c) \/ GcpCreateSecretFront(c) \/ AzureSetSecret(c)
  BY <1>0, <1>1, <1>7, SecretSends, GivenLabelsAssumption DEF AwsCreateSecret, GcpCreateSecretFront, AzureSetSecret,
     AllLabels
<1>8. CASE AwsPutSecretValue(c) \/ GcpAddSecretVersion(c)
  BY <1>0, <1>2, <1>8, SecretSends DEF AwsPutSecretValue, GcpAddSecretVersion
<1>9. CASE AwsGetSecretValue(c) \/ GcpAccessSecretVersion(c) \/ AzureGetSecret(c)
  BY <1>0, <1>3, <1>9, SecretSends DEF AwsGetSecretValue, GcpAccessSecretVersion, AzureGetSecret
<1>10. CASE AwsUpdateSecret(c) \/ AwsTagResource(c) \/ AwsUntagResource(c)
  BY <1>5, <1>10, SecretSends DEF AwsUpdateSecret, AwsTagResource, AwsUntagResource
<1>11. CASE AwsDescribeSecret(c)
  BY <1>4, <1>11, SecretSends DEF AwsDescribeSecret
<1>12. CASE AwsDeleteSecret(c) \/ GcpDeleteSecretFront(c) \/ AzureDeleteSecretFront(c) \/ AzurePurgeDeletedSecret(c)
  BY <1>6, <1>12, SecretSends DEF AwsDeleteSecret, GcpDeleteSecretFront, AzureDeleteSecretFront, AzurePurgeDeletedSecret
<1> QED
  BY <1>7, <1>8, <1>9, <1>10, <1>11, <1>12 DEF SecretRequests
-----------------------------------------------------------------------------
(* CreateSecret *)

LEMMA SecretExistsKeeps ==
    ASSUME SecretInv, NEW c \in Clients, req[c] \in SecCreateReqs, SecretExists(c), req[c] # Idle
    PROVE  SecretInv'
<1>1. CASE SecretFails(c)
  BY <1>1, SecretFailsKeeps
<1>2. CASE SecretGoes(c, PutSecretValue(req[c].val))
  <2> DEFINE r == PutSecretValue(req[c].val)
  <2>1. r \in SecReq /\ StillTrue(r)
    BY DEF PutSecretValue, SecReq, SecPutReqs, SecCreateReqs, StillTrue
  <2> HIDE DEF r
  <2> QED
    BY <1>2, <2>1, SecretGoesKeeps DEF r
<1> QED
  BY <1>1, <1>2 DEF SecretExists

LEMMA MakesSecretKeeps ==
    ASSUME SecretInv, NEW c \in Clients, req[c] \in SecCreateReqs, secret = None, NEW vs \in Seq(Nat),
           vs = <<>> \/ vs = <<req[c].val>>, MakesSecret(c, vs)
    PROVE  SecretInv'
<1> DEFINE s == NewSecret(req[c].labels, vs)
<1>1. s \in SecretStates /\ s.vals = vs /\ Continues(s)
  BY NewSecretIs DEF SecCreateReqs
<1>2. secret' = s /\ UNCHANGED written /\ Ends(c, "ok")
  BY DEF MakesSecret, SecretBecomes
<1>3. \A p \in told' : p \in Nat \X Nat /\ p[1] \in 1..Len(vs) /\ vs[p[1]] = p[2]
  <2>1. CASE vs = <<>>
    BY <2>1 DEF MakesSecret
  <2>2. CASE vs = <<req[c].val>>
    <3>1. vs # <<>> /\ vs[1] = req[c].val /\ Len(vs) = 1 /\ req[c].val \in Nat
      BY <2>2 DEF SecCreateReqs
    <3>2. told' \subseteq {<<1, req[c].val>>}
      BY <3>1, NamesAtMost DEF MakesSecret
    <3> QED
      BY <3>1, <3>2
  <2> QED
    BY <2>1, <2>2
<1> HIDE DEF s
<1>4. SecretTypes' /\ ToldOfThis'
  BY <1>1, <1>2, <1>3, SecretContinues DEF SecretInv
<1> QED
  BY <1>2, <1>4, SecEnds DEF SecretInv

LEMMA SecInitialVersions ==
    ASSUME NEW r \in SecCreateReqs
    PROVE  /\ InitialVersions(r) \in Seq(Nat)
           /\ InitialVersions(r) = <<>> \/ InitialVersions(r) = <<r.val>>
BY DEF InitialVersions, SecCreateReqs

LEMMA CreatesInOne ==
    ASSUME SecretInv, NEW c \in Clients, req[c] # Idle, InmemCreate(c) \/ AwsCreate(c)
    PROVE  SecretInv'
<1>1. req[c] \in SecCreateReqs
  BY SecReqKinds DEF SecretInv, InmemCreate, AwsCreate, Is
<1>2. \/ secret = None /\ MakesSecret(c, InitialVersions(req[c]))
      \/ SecretFails(c) \/ SecretExists(c)
  BY DEF InmemCreate, AwsCreate
<1> QED
  BY <1>1, <1>2, MakesSecretKeeps, SecInitialVersions, SecretFailsKeeps, SecretExistsKeeps

LEMMA VaultCreates ==
    ASSUME SecretInv, NEW c \in Clients, req[c] # Idle, VaultCreateRead(c) \/ VaultCreateMeta(c) \/ VaultCreateData(c)
    PROVE  SecretInv'
<1>1. req[c] \in SecCreateReqs /\ backend = "vault"
  BY SecReqKinds DEF SecretInv, VaultCreateRead, VaultCreateMeta, VaultCreateData, Is
<1>2. ASSUME NEW at \in {"meta", "data"}
      PROVE  LET r == [req[c] EXCEPT !.at = at]
             IN  r \in SecReq /\ r.op = "create" /\ r.at = at /\ (r.at # "set" /\ backend # "gcp")
  BY <1>1 DEF SecCreateReqs, SecReq
<1>3. ASSUME NEW at \in {"meta", "data"}
      PROVE  LET r == [req[c] EXCEPT !.at = at] IN r \in SecReq /\ StillTrue(r)
  BY <1>2 DEF StillTrue
<1>4. CASE VaultCreateRead(c)
  BY <1>1, <1>3, <1>4, SecretExistsKeeps, SecretGoesKeeps, SecFails DEF VaultCreateRead, VaultWrites
<1>5. CASE VaultCreateMeta(c)
  <2>1. SecretTypes' /\ ToldOfThis'
    <3> DEFINE s == IF secret = None THEN NewSecret(req[c].labels, <<>>) ELSE [secret EXCEPT !.labels = req[c].labels]
    <3>1. secret' = s /\ UNCHANGED <<written, told>>
      BY <1>5 DEF VaultCreateMeta, SecretBecomes
    <3>2. req[c].labels \in SUBSET AllLabels
      BY <1>1 DEF SecCreateReqs
    <3>3. s \in SecretStates /\ Continues(s)
      <4>1. CASE secret = None
        BY <3>2, <4>1, EmptySecretIs
      <4>2. CASE secret # None
        <5>1. secret \in SecretStates /\ s = [secret EXCEPT !.labels = req[c].labels]
          BY <4>2 DEF SecretInv, SecretTypes
        <5>2. s \in SecretStates /\ s.vals = secret.vals
          BY <3>2, <5>1, LabelledIs
        <5>3. Len(secret.vals) \in Nat
          BY <5>1 DEF SecretStates
        <5> QED
          BY <5>2, <5>3 DEF Continues
      <4> QED
        BY <4>1, <4>2
    <3> HIDE DEF s
    <3> QED
      BY <3>1, <3>3, SecretContinues DEF SecretInv
  <2>2. CASE Ends(c, "ok")
    BY <2>1, <2>2, SecEnds DEF SecretInv
  <2>3. CASE Goes(c, [req[c] EXCEPT !.at = "data"])
    <3>1. PICK r \in SecReq : r = [req[c] EXCEPT !.at = "data"]
      BY <1>2
    <3>2. r.op = "create" /\ r.at = "data" /\ backend' # "gcp"
      BY <1>1, <1>2, <2>3, <3>1 DEF Goes
    <3>3. StillTrue(r)'
      BY <3>2 DEF StillTrue
    <3>4. Goes(c, r)
      BY <2>3, <3>1
    <3> QED
      BY <2>1, <3>3, <3>4, SecGoes DEF SecretInv
  <2> QED
    BY <1>5, <2>2, <2>3 DEF VaultCreateMeta
<1>6. CASE VaultCreateData(c)
  <2>1. CASE SecretFails(c)
    BY <2>1, SecretFailsKeeps
  <2>2. CASE CasZero /\ SecretBecomes(WithVersion(IF secret = None THEN NewSecret({}, <<>>) ELSE secret, req[c].val))
             /\ TellsVersion(c, 1, req[c].val) /\ Ends(c, "ok")
    <3> DEFINE s == IF secret = None THEN NewSecret({}, <<>>) ELSE secret
               t == WithVersion(s, req[c].val)
    <3>1. s \in SecretStates /\ s.vals = <<>> /\ (s = secret \/ (secret = None /\ s.vals = <<>>))
      <4>1. CASE secret = None
        BY <4>1, EmptySecretIs
      <4>2. CASE secret # None
        BY <2>2, <4>2 DEF CasZero, SecretInv, SecretTypes
      <4> QED
        BY <4>1, <4>2
    <3>2. req[c].val \in Nat
      BY <1>1 DEF SecCreateReqs
    <3>3. secret' = t /\ UNCHANGED written /\ told' \subseteq told \cup {<<1, req[c].val>>}
      BY <2>2, NamesAtMost DEF SecretBecomes
    <3> HIDE DEF s
    <3>4. t \in SecretStates /\ t.vals = WithVersion(s, req[c].val).vals
      BY <3>1, <3>2, WithVersionIs
    <3>5. Len(s.vals) + 1 = 1
      BY <3>1
    <3> HIDE DEF t
    <3>6. SecretTypes' /\ ToldOfThis'
      BY <3>1, <3>2, <3>3, <3>4, <3>5, SecretAdds DEF SecretInv
    <3> QED
      BY <2>2, <3>6, SecEnds DEF SecretInv
  <2> QED
    BY <1>6, <2>1, <2>2 DEF VaultCreateData
<1> QED
  BY <1>4, <1>5, <1>6

LEMMA AzureSetIs ==
    ASSUME SecretTypes, ToldOfThis, NEW l \in SUBSET AllLabels, NEW v \in Nat,
           secret' = AzureSet(l, v), UNCHANGED written,
           told' = told \/ (secret = None /\ told' \subseteq {<<1, v>>})
    PROVE  SecretTypes' /\ ToldOfThis' /\ Latest(v)'
<1>1. CASE secret = None
  <2> DEFINE s == NewSecret(l, <<>>)
             t == NewSecret(l, <<v>>)
  <2>1. s \in SecretStates /\ s.vals = <<>>
    BY EmptySecretIs
  <2>2. <<v>> \in Seq(Nat)
    OBVIOUS
  <2>3. t \in SecretStates /\ t.vals = <<v>>
    BY <2>2, NewSecretIs
  <2>4. WithVersion(s, v).vals = <<v>>
    BY <2>1 DEF WithVersion, NewSecret
  <2>5. secret' = t /\ Len(s.vals) + 1 = 1 /\ told' \subseteq told \cup {<<1, v>>}
    BY <1>1, <2>1 DEF AzureSet
  <2> HIDE DEF s, t
  <2> QED
    BY <1>1, <2>1, <2>3, <2>4, <2>5, SecretAdds
<1>2. CASE secret # None
  <2> DEFINE w == WithVersion(secret, v)
             t == [w EXCEPT !.labels = l]
  <2>1. secret \in SecretStates
    BY <1>2 DEF SecretTypes
  <2>2. w \in SecretStates
    BY <2>1, WithVersionIs
  <2>3. secret' = t /\ told' \subseteq told
    BY <1>2 DEF AzureSet
  <2> HIDE DEF w
  <2>4. t \in SecretStates /\ t.vals = w.vals
    BY <2>2, LabelledIs
  <2> HIDE DEF t
  <2> QED
    BY <2>1, <2>3, <2>4, SecretAdds DEF w
<1> QED
  BY <1>1, <1>2

LEMMA AzureCreates ==
    ASSUME SecretInv, NEW c \in Clients, req[c] # Idle, AzureCreateRead(c) \/ AzureCreateSet(c)
    PROVE  SecretInv'
<1>1. req[c] \in SecCreateReqs /\ backend = "azure" /\ req[c].op = "create"
  BY SecReqKinds DEF SecretInv, AzureCreateRead, AzureCreateSet, Is
<1>2. CASE AzureCreateRead(c)
  <2>1. CASE SecretExists(c)
    BY <1>1, <2>1, SecretExistsKeeps
  <2>2. ASSUME NEW at \in {"set", "blind"}, at = "set" => ~Usable, SecretGoes(c, [req[c] EXCEPT !.at = at])
        PROVE  SecretInv'
    <3> DEFINE r == [req[c] EXCEPT !.at = at]
    <3>1. r \in SecReq /\ r.op = "create" /\ r.at = at
      BY <1>1 DEF SecReq, SecCreateReqs
    <3>2. SecretGoes(c, r)
      BY <2>2
    <3> HIDE DEF r
    <3>3. StillTrue(r)
      BY <2>2, <3>1, <1>1 DEF StillTrue
    <3> QED
      BY <3>1, <3>2, <3>3, SecretGoesKeeps
  <2> QED
    BY <1>2, <2>1, <2>2 DEF AzureCreateRead
<1>3. CASE AzureCreateSet(c)
  <2>1. CASE SecretFails(c)
    BY <2>1, SecretFailsKeeps
  <2>2. CASE ~(secret # None /\ secret.deleting)
    <3> DEFINE v == IF req[c].val = NoValue THEN Placeholder ELSE req[c].val
    <3>1. v \in Nat /\ req[c].labels \in SUBSET AllLabels
      BY <1>1 DEF SecCreateReqs, Placeholder
    <3>2. /\ secret' = AzureSet(req[c].labels, v) /\ UNCHANGED written /\ Ends(c, "ok")
          /\ IF req[c].at = "set" THEN TellsVersion(c, 1, v) ELSE told' = told
      BY <1>3, <2>2 DEF AzureCreateSet, SecretBecomes
    <3>3. alone = c /\ req[c].at = "set" => secret = None
      <4>1. alone = c => StillTrue(req[c])
        BY DEF SecretInv, Undisturbed
      <4> QED
        BY <1>1, <2>2, <4>1 DEF StillTrue, Usable
    <3>4. alone # c => NamesVersion(c, 1, v) = {}
      BY <1>1 DEF NamesVersion, ExactNumbers
    <3>5. told' = told \/ (secret = None /\ told' \subseteq {<<1, v>>})
      <4>1. CASE req[c].at # "set"
        BY <3>2, <4>1
      <4>2. CASE req[c].at = "set" /\ alone # c
        BY <3>2, <3>4, <4>2 DEF TellsVersion
      <4>3. CASE req[c].at = "set" /\ alone = c
        BY <3>2, <3>3, <4>3, NamesAtMost DEF TellsVersion, SecretInv, ToldOfThis
      <4> QED
        BY <4>1, <4>2, <4>3
    <3> HIDE DEF v
    <3> QED
      BY <3>1, <3>2, <3>5, AzureSetIs, SecEnds DEF SecretInv
  <2> QED
    BY <1>3, <2>1, <2>2 DEF AzureCreateSet
<1> QED
  BY <1>2, <1>3

LEMMA GcpCreates ==
    ASSUME SecretInv, NEW c \in Clients, req[c] # Idle, GcpCreate(c) \/ GcpCreateVersion(c)
    PROVE  SecretInv'
<1>1. req[c] \in SecCreateReqs /\ backend = "gcp" /\ req[c].op = "create"
  BY SecReqKinds DEF SecretInv, GcpCreate, GcpCreateVersion, Is
<1>2. CASE GcpCreate(c)
  <2>1. CASE SecretExists(c)
    BY <1>1, <2>1, SecretExistsKeeps
  <2>2. CASE secret = None /\ MakesSecret(c, <<>>)
    <3>1. <<>> \in Seq(Nat)
      OBVIOUS
    <3> QED
      BY <1>1, <2>2, <3>1, MakesSecretKeeps
  <2>3. CASE secret = None /\ SecretBecomes(NewSecret(req[c].labels, <<>>)) /\ told' = {}
             /\ Goes(c, [req[c] EXCEPT !.at = "data"])
    <3> DEFINE s == NewSecret(req[c].labels, <<>>)
    <3>1. PICK r \in SecReq : r = [req[c] EXCEPT !.at = "data"]
      BY <1>1 DEF SecReq, SecCreateReqs
    <3>2. s \in SecretStates /\ s.vals = <<>> /\ Continues(s)
      BY <1>1, <2>3, EmptySecretIs DEF SecCreateReqs
    <3>3. Goes(c, r) /\ secret' = s /\ UNCHANGED written /\ told' = {}
      BY <2>3, <3>1 DEF SecretBecomes
    <3>4. secret'.vals = <<>>
      BY <3>2, <3>3
    <3> HIDE DEF s
    <3>5. SecretTypes' /\ ToldOfThis'
      BY <3>2, <3>3, SecretContinues DEF SecretInv
    <3>6. r.op = "create" /\ r.at = "data"
      BY <1>1, <3>1 DEF SecCreateReqs
    <3>7. StillTrue(r)'
      BY <3>4, <3>6 DEF StillTrue
    <3> QED
      BY <3>3, <3>5, <3>7, SecGoes DEF SecretInv
  <2> QED
    BY <1>2, <2>1, <2>2, <2>3 DEF GcpCreate
<1>3. CASE GcpCreateVersion(c)
  <2>1. CASE SecretFails(c)
    BY <2>1, SecretFailsKeeps
  <2>2. CASE secret # None
    <3> DEFINE t == WithVersion(secret, req[c].val)
    <3>1. secret \in SecretStates /\ req[c].val \in Nat
      BY <1>1, <2>2 DEF SecretInv, SecretTypes, SecCreateReqs
    <3>2. secret' = t /\ UNCHANGED written /\ TellsVersion(c, 1, req[c].val) /\ Ends(c, "ok")
      BY <1>3, <2>2 DEF GcpCreateVersion, SecretBecomes
    <3>3. t \in SecretStates
      BY <3>1, WithVersionIs
    <3>4. alone = c => secret.vals = <<>>
      <4>1. alone = c => StillTrue(req[c])
        BY DEF SecretInv, Undisturbed
      <4> QED
        BY <1>1, <1>3, <2>2, <4>1 DEF StillTrue, GcpCreateVersion, Is
    <3>5. alone # c => NamesVersion(c, 1, req[c].val) = {}
      BY <1>1 DEF NamesVersion, ExactNumbers
    <3>6. told' \subseteq told \cup {<<Len(secret.vals) + 1, req[c].val>>}
      <4>1. CASE alone # c
        BY <3>2, <3>5, <4>1 DEF TellsVersion
      <4>2. CASE alone = c
        <5>1. Len(secret.vals) + 1 = 1
          BY <3>4, <4>2
        <5> QED
          BY <3>2, <5>1, NamesAtMost
      <4> QED
        BY <4>1, <4>2
    <3> HIDE DEF t
    <3>7. SecretTypes' /\ ToldOfThis'
      BY <3>1, <3>2, <3>3, <3>6, SecretAdds DEF SecretInv, t
    <3> QED
      BY <3>2, <3>7, SecEnds DEF SecretInv
  <2> QED
    BY <1>3, <2>1, <2>2 DEF GcpCreateVersion
<1> QED
  BY <1>2, <1>3

-----------------------------------------------------------------------------
(* PutSecretValue *)

LEMMA AddsVersionKeeps ==
    ASSUME SecretInv, NEW c \in Clients, req[c].val \in Nat, NEW s \in SecretStates,
           s = secret \/ (secret = None /\ s.vals = <<>>), AddsVersion(c, s)
    PROVE  SecretInv'
<1> DEFINE t == WithVersion(s, req[c].val)
<1>1. secret' = t /\ UNCHANGED written /\ Ends(c, "ok")
      /\ told' \subseteq told \cup {<<Len(s.vals) + 1, req[c].val>>}
  BY NamesAtMost DEF AddsVersion, SecretBecomes
<1>2. t \in SecretStates
  BY WithVersionIs
<1> HIDE DEF t
<1>3. SecretTypes' /\ ToldOfThis'
  BY <1>1, <1>2, SecretAdds DEF SecretInv, t
<1> QED
  BY <1>1, <1>3, SecEnds DEF SecretInv

LEMMA PutsInOne ==
    ASSUME SecretInv, NEW c \in Clients, req[c] # Idle, InmemPut(c) \/ VaultPut(c) \/ GcpPut(c)
    PROVE  SecretInv'
<1>1. req[c].val \in Nat
  BY SecReqKinds DEF SecretInv, InmemPut, VaultPut, GcpPut, Is, SecPutReqs
<1>2. secret # None => secret \in SecretStates
  BY DEF SecretInv, SecretTypes
<1>3. CASE SecretFails(c)
  BY <1>3, SecretFailsKeeps
<1>4. CASE secret # None /\ AddsVersion(c, secret)
  BY <1>1, <1>2, <1>4, AddsVersionKeeps
<1>5. CASE secret = None /\ AddsVersion(c, NewSecret({}, <<>>))
  <2>1. PICK s \in SecretStates : s = NewSecret({}, <<>>) /\ s.vals = <<>>
    BY EmptySecretIs
  <2>2. AddsVersion(c, s)
    BY <1>5, <2>1
  <2> QED
    BY <1>1, <1>5, <2>1, <2>2, AddsVersionKeeps
<1>6. CASE VaultPut(c)
  <2>1. CASE secret = None
    BY <1>5, <1>6, <2>1 DEF VaultPut
  <2>2. CASE secret # None
    BY <1>4, <1>6, <2>2 DEF VaultPut
  <2> QED
    BY <2>1, <2>2
<1> QED
  BY <1>3, <1>4, <1>6 DEF InmemPut, GcpPut, Usable

\* aws and azure: the version is written, and the request goes on to count.
LEMMA PutWrites ==
    ASSUME SecretInv, NEW c \in Clients, req[c] # Idle, AwsPut(c) \/ AzurePut(c)
    PROVE  SecretInv'
<1>1. req[c] \in SecPutReqs
  BY SecReqKinds DEF SecretInv, AwsPut, AzurePut, Is
<1>2. req[c].val \in Nat /\ req[c].op = "put"
  BY <1>1 DEF SecPutReqs
<1>3. CASE SecretFails(c)
  BY <1>3, SecretFailsKeeps
<1>4. CASE ~SecretFails(c)
  <2>1. PICK r \in SecReq : r = [req[c] EXCEPT !.at = "list"]
    BY <1>1 DEF SecPutReqs, SecReq
  <2>2. r.op = "put" /\ r.at = "list" /\ r.val = req[c].val
    BY <1>1, <2>1 DEF SecPutReqs
  <2>3. Goes(c, r) /\ told' = told /\ UNCHANGED written
    BY <1>4, <2>1 DEF AwsPut, AzurePut, SecretBecomes
  <2>4. SecretTypes' /\ ToldOfThis' /\ Latest(r.val)'
    <3>1. CASE AwsPut(c)
      <4> DEFINE t == WithVersion(secret, req[c].val)
      <4>1. secret \in SecretStates /\ secret' = t
        BY <1>4, <3>1 DEF AwsPut, Usable, SecretBecomes, SecretInv, SecretTypes
      <4>2. t \in SecretStates
        BY <1>2, <4>1, WithVersionIs
      <4>3. t.vals = WithVersion(secret, r.val).vals
        BY <2>2
      <4> HIDE DEF t
      <4> QED
        BY <1>2, <2>2, <2>3, <4>1, <4>2, <4>3, SecretAdds DEF SecretInv
    <3>2. CASE AzurePut(c)
      <4>1. secret' = AzureSet({}, r.val)
        BY <1>4, <2>2, <3>2 DEF AzurePut, SecretBecomes
      <4> QED
        BY <1>2, <2>2, <2>3, <4>1, AzureSetIs DEF SecretInv
    <3> QED
      BY <3>1, <3>2
  <2>5. StillTrue(r)'
    BY <2>2, <2>4 DEF StillTrue
  <2> QED
    BY <2>3, <2>4, <2>5, SecGoes DEF SecretInv
<1> QED
  BY <1>3, <1>4

\* A number is told only when it is that of the value.
LEMMA PutCounts ==
    ASSUME SecretInv, NEW c \in Clients, req[c] # Idle, AwsPutList(c) \/ AzurePutList(c)
    PROVE  SecretInv'
<1>1. req[c].val \in Nat /\ req[c].op = "put" /\ req[c].at = "list" /\ backend \in {"aws", "azure"}
  BY SecReqKinds DEF SecretInv, AwsPutList, AzurePutList, Is, SecPutReqs
<1>2. CASE SecretFails(c)
  BY <1>2, SecretFailsKeeps
<1>3. CASE ~SecretFails(c)
  <2>1. secret # None /\ TellsVersion(c, VersionCount, req[c].val) /\ Ends(c, "ok") /\ SecretBecomes(secret)
    BY <1>3 DEF AwsPutList, AzurePutList, AwsVersions, AzureVersions, Usable
  <2>2. secret \in SecretStates
    BY <2>1 DEF SecretInv, SecretTypes
  <2>3. Len(secret.vals) \in Nat
    BY <2>2 DEF SecretStates
  <2>4. alone = c => Latest(req[c].val)
    BY <1>1, <2>1 DEF SecretInv, Undisturbed, StillTrue
  <2>5. ~(alone = c /\ WholeList) => NamesVersion(c, VersionCount, req[c].val) = {}
    BY <1>1 DEF NamesVersion, ExactNumbers
  <2>6. /\ told' \subseteq told \cup {<<VersionCount, req[c].val>>}
        /\ told' # told => /\ VersionCount \in 1..Len(secret.vals)
                           /\ secret.vals[VersionCount] = req[c].val
    BY <2>1, <2>3, <2>4, <2>5, NamesAtMost DEF TellsVersion, Latest, VersionCount, LatestVersion
  <2>7. SecretTypes' /\ ToldOfThis'
    BY <1>1, <2>1, <2>2, <2>6, SecretRemains DEF SecretInv, SecretBecomes
  <2> QED
    BY <2>1, <2>7, SecEnds DEF SecretInv
<1> QED
  BY <1>2, <1>3

-----------------------------------------------------------------------------
(* GetSecretValue *)

\* What is returned is true of the secret, or it is not told.
LEMMA ReturnsValueKeeps ==
    ASSUME SecretInv, NEW c \in Clients, req[c] # Idle, secret # None, NEW n, NEW v \in Nat,
           ReturnsValue(c, n, v),
           backend \in ExactNumbers[req[c].op] \/ (alone = c /\ WholeList) =>
              n \in 1..LatestVersion /\ secret.vals[n] = v
    PROVE  SecretInv'
<1>1. TellsVersion(c, n, v) /\ secret' = secret /\ UNCHANGED written
  BY DEF ReturnsValue, SecretBecomes
<1>2. secret \in SecretStates
  BY DEF SecretInv, SecretTypes
<1>3. /\ told' \subseteq told \cup {<<n, v>>}
      /\ told' # told => n \in 1..Len(secret.vals) /\ secret.vals[n] = v
  BY <1>1, NamesAtMost DEF TellsVersion, NamesVersion, LatestVersion
<1>4. SecretTypes' /\ ToldOfThis'
  BY <1>1, <1>2, <1>3, SecretRemains DEF SecretInv
<1>5. CASE Ends(c, "ok")
  BY <1>4, <1>5, SecEnds DEF SecretInv
<1>6. CASE Goes(c, HeadSecretRequest)
  <2>1. PICK r \in SecReq : r = HeadSecretRequest
    BY DEF HeadSecretRequest, SecReq, SecHeadReqs
  <2>2. r.op = "head"
    BY <2>1 DEF HeadSecretRequest
  <2>3. StillTrue(r)' /\ Goes(c, r)
    BY <1>6, <2>1, <2>2 DEF StillTrue
  <2> QED
    BY <1>4, <2>3, SecGoes DEF SecretInv
<1> QED
  BY <1>5, <1>6 DEF ReturnsValue

LEMMA ReadableIs ==
    ASSUME SecretTypes, secret # None, NEW n \in Nat, ReadableVersion(n)
    PROVE  /\ ChosenVersion(n) \in 1..LatestVersion
           /\ secret.vals[ChosenVersion(n)] \in Nat
           /\ LatestVersion \in Nat
           /\ n = 0 => ChosenVersion(n) = LatestVersion
           /\ n # 0 => ChosenVersion(n) = n
<1>1. secret.vals \in Seq(Nat)
  BY DEF SecretTypes, SecretStates
<1>2. LatestVersion \in Nat /\ LatestVersion = Len(secret.vals)
  BY <1>1 DEF LatestVersion
<1>3. ChosenVersion(n) \in 1..Len(secret.vals)
  BY <1>2 DEF ReadableVersion
<1>4. secret.vals[ChosenVersion(n)] \in Nat
  BY <1>1, <1>3
<1> QED
  BY <1>2, <1>3, <1>4 DEF ChosenVersion

LEMMA GetsInOne ==
    ASSUME SecretInv, NEW c \in Clients, req[c] # Idle, InmemGet(c) \/ VaultGet(c) \/ GcpGet(c)
    PROVE  SecretInv'
<1>1. req[c].ver \in Nat
  BY SecReqKinds DEF SecretInv, InmemGet, VaultGet, GcpGet, Is, SecGetReqs
<1>2. CASE SecretFails(c)
  BY <1>2, SecretFailsKeeps
<1>3. CASE ~SecretFails(c)
  <2> DEFINE n == ChosenVersion(req[c].ver)
  <2>1. secret # None /\ ReadableVersion(req[c].ver) /\ ReturnsValue(c, n, secret.vals[n])
    BY <1>3 DEF InmemGet, VaultGet, GcpGet, Usable
  <2>2. n \in 1..LatestVersion /\ secret.vals[n] \in Nat
    BY <1>1, <2>1, ReadableIs DEF SecretInv
  <2> HIDE DEF n
  <2> QED
    BY <2>1, <2>2, ReturnsValueKeeps
<1> QED
  BY <1>2, <1>3

LEMMA GetsByNumber ==
    ASSUME SecretInv, NEW c \in Clients, req[c] # Idle, AwsGet(c) \/ AzureGet(c)
    PROVE  SecretInv'
<1>1. req[c] \in SecGetReqs
  BY SecReqKinds DEF SecretInv, AwsGet, AzureGet, Is
<1>2. req[c].ver \in Nat /\ ByNumber(c, Usable)
  BY <1>1 DEF SecGetReqs, AwsGet, AzureGet
<1>3. CASE SecretFails(c)
  BY <1>3, SecretFailsKeeps
<1>4. CASE ~SecretFails(c)
  <2> DEFINE at == IF req[c].ver = 0 THEN "count" ELSE "fetch"
  <2>1. secret # None /\ ReadableVersion(req[c].ver)
    BY <1>2, <1>4 DEF ByNumber, Usable
  <2>a. PICK n \in Listed(req[c].ver) : SecretGoes(c, [req[c] EXCEPT !.val = secret.vals[n], !.at = at])
    BY <1>2, <1>4 DEF ByNumber
  <2> DEFINE q == [req[c] EXCEPT !.val = secret.vals[n]]
             r == [q EXCEPT !.at = at]
  <2>2. [req[c] EXCEPT !.val = secret.vals[n], !.at = at] = r
    OBVIOUS
  <2>3. SecretGoes(c, r)
    BY <2>a, <2>2
  <2>b. secret.vals \in Seq(Nat)
    BY <2>1 DEF SecretInv, SecretTypes, SecretStates
  <2>c. /\ n \in 1..LatestVersion /\ LatestVersion \in Nat
        /\ req[c].ver = 0 => n = LatestVersion
        /\ req[c].ver # 0 /\ WholeList => n = req[c].ver
    BY <1>2, <2>1, <2>a, ReadableIs DEF SecretInv, Listed
  <2>4. /\ n \in 1..LatestVersion /\ secret.vals[n] \in Nat /\ LatestVersion \in Nat
        /\ req[c].ver = 0 => n = LatestVersion
        /\ req[c].ver # 0 /\ WholeList => n = req[c].ver
    BY <2>b, <2>c DEF LatestVersion
  <2>5. at \in {"count", "fetch"} /\ (at = "count" <=> req[c].ver = 0)
    OBVIOUS
  <2> HIDE DEF at
  <2>6. q \in SecGetReqs /\ q.op = "get" /\ q.val = secret.vals[n] /\ q.ver = req[c].ver
    BY <1>1, <2>4 DEF SecGetReqs
  <2> HIDE DEF q
  <2>7. r \in SecGetReqs /\ r.op = "get" /\ r.at = at /\ r.val = secret.vals[n] /\ r.ver = req[c].ver
    BY <2>5, <2>6 DEF SecGetReqs
  <2> HIDE DEF r
  <2>8. StillTrue(r)
    BY <2>4, <2>5, <2>7 DEF StillTrue, Latest
  <2>9. r \in SecReq
    BY <2>7 DEF SecReq
  <2> QED
    BY <2>3, <2>8, <2>9, SecretGoesKeeps
<1> QED
  BY <1>3, <1>4

LEMMA GetsCount ==
    ASSUME SecretInv, NEW c \in Clients, req[c] # Idle,
           AwsGetCount(c) \/ AzureGetCount(c) \/ AwsGetFetch(c) \/ AzureGetFetch(c)
    PROVE  SecretInv'
<1>1. req[c] \in SecGetReqs /\ req[c].op = "get" /\ backend \in {"aws", "azure"} /\ req[c].val \in Nat
  BY SecReqKinds DEF SecretInv, AwsGetCount, AzureGetCount, AwsGetFetch, AzureGetFetch, Is, SecGetReqs
<1>2. backend \notin ExactNumbers[req[c].op]
  BY <1>1 DEF ExactNumbers
<1>3. alone = c => StillTrue(req[c])
  BY DEF SecretInv, Undisturbed
<1>4. CASE SecretFails(c)
  BY <1>4, SecretFailsKeeps
<1>5. CASE (AwsGetCount(c) \/ AzureGetCount(c)) /\ ~SecretFails(c)
  <2>1. secret # None /\ req[c].at = "count" /\ ReturnsValue(c, VersionCount, req[c].val)
    BY <1>5 DEF AwsGetCount, AzureGetCount, AwsVersions, AzureVersions, Usable, Is
  <2>2. alone = c => Latest(req[c].val)
    BY <1>1, <1>3, <2>1 DEF StillTrue
  <2>3. LatestVersion \in Nat
    BY <2>1 DEF LatestVersion, SecretInv, SecretTypes, SecretStates
  <2>4. alone = c /\ WholeList => VersionCount \in 1..LatestVersion /\ secret.vals[VersionCount] = req[c].val
    BY <2>2, <2>3 DEF VersionCount, Latest
  <2> QED
    BY <1>1, <1>2, <2>1, <2>4, ReturnsValueKeeps
<1>6. CASE (AwsGetFetch(c) \/ AzureGetFetch(c)) /\ ~SecretFails(c)
  <2>1. secret # None /\ req[c].at = "fetch" /\ ReturnsValue(c, req[c].ver, req[c].val)
    BY <1>6 DEF AwsGetFetch, AzureGetFetch, Fetched, Usable, Is
  <2>2. alone = c /\ WholeList => req[c].ver \in 1..LatestVersion /\ secret.vals[req[c].ver] = req[c].val
    BY <1>1, <1>3, <2>1 DEF StillTrue
  <2> QED
    BY <1>1, <1>2, <2>1, <2>2, ReturnsValueKeeps
<1> QED
  BY <1>4, <1>5, <1>6

LEMMA GetsPrevious ==
    ASSUME SecretInv, SecretsServed, service = "secrets", NEW c \in Clients, req[c] # Idle, FrontVersions(c)
    PROVE  SecretInv'
<1>1. req[c] \in SecGetReqs
  BY SecReqKinds DEF SecretInv, FrontVersions
<1>2. CASE SecretFails(c)
  BY <1>2, SecretFailsKeeps
<1>3. CASE ~SecretFails(c)
  <2> DEFINE q == [req[c] EXCEPT !.at = "first"]
             r == [q EXCEPT !.ver = VersionCount - 1]
  <2>1. VersionsListed /\ ~(VersionCount < 2)
    BY <1>3 DEF FrontVersions
  <2>2. secret # None
    BY <2>1 DEF SecretsServed, VersionsListed, InmemVersions, VaultVersions, GcpVersions, AwsVersions,
                AzureVersions, Usable
  <2>3. VersionCount \in Nat
    BY <2>2, VersionPageAssumption DEF VersionCount, LatestVersion, SecretInv, SecretTypes, SecretStates
  <2>4. VersionCount - 1 \in Nat
    BY <2>1, <2>3
  <2>5. [req[c] EXCEPT !.at = "first", !.ver = VersionCount - 1] = r
    OBVIOUS
  <2>6. SecretGoes(c, r)
    BY <1>3, <2>5 DEF FrontVersions
  <2>7. q \in SecGetReqs /\ q.op = "get" /\ q.at = "first"
    BY <1>1 DEF SecGetReqs
  <2> HIDE DEF q
  <2>8. r \in SecGetReqs /\ r.op = "get" /\ r.at = "first"
    BY <2>4, <2>7 DEF SecGetReqs
  <2> HIDE DEF r
  <2>9. r \in SecReq /\ StillTrue(r)
    BY <2>8 DEF SecReq, StillTrue
  <2> QED
    BY <2>6, <2>9, SecretGoesKeeps
<1> QED
  BY <1>2, <1>3

-----------------------------------------------------------------------------
(* UpdateSecret *)

LEMMA RelabelledKeeps ==
    ASSUME SecretTypes, ToldOfThis, secret # None, NEW l \in SUBSET AllLabels,
           secret' = [secret EXCEPT !.labels = l], UNCHANGED <<written, told>>
    PROVE  SecretTypes' /\ ToldOfThis'
<1> DEFINE t == [secret EXCEPT !.labels = l]
<1>1. secret \in SecretStates
  BY DEF SecretTypes
<1>2. t \in SecretStates /\ t.vals = secret.vals /\ secret' = t
  BY <1>1, LabelledIs
<1>3. told' \subseteq told \cup {<<0, 0>>} /\ told' = told
  OBVIOUS
<1> HIDE DEF t
<1> QED
  BY <1>2, <1>3, SecretRemains

LEMMA RelabelsKeeps ==
    ASSUME SecretInv, NEW c \in Clients, secret # None, NEW l \in SUBSET AllLabels, Relabels(c, l)
    PROVE  SecretInv'
<1>1. secret' = [secret EXCEPT !.labels = l] /\ UNCHANGED <<written, told>> /\ Ends(c, "ok")
  BY DEF Relabels, SecretBecomes
<1> QED
  BY <1>1, RelabelledKeeps, SecEnds DEF SecretInv

LEMMA DescribedIs ==
    ASSUME NEW l \in SUBSET AllLabels, NEW text \in {"leave", "set", "clear"}
    PROVE  Described(l, text) \in SUBSET AllLabels
BY DEF Described, AllLabels

LEMMA PatchedIs ==
    ASSUME NEW l \in SUBSET AllLabels, NEW r \in SecUpdateReqs
    PROVE  Patched(l, r) \in SUBSET AllLabels /\ Replaced(r) \in SUBSET AllLabels
<1>1. r.want # None => r.want \in SUBSET AllLabels
  BY DEF SecUpdateReqs, SecUpdateShapes
<1>2. r.text \in {"leave", "set", "clear"}
  BY DEF SecUpdateReqs, SecUpdateShapes
<1> DEFINE m == IF r.want = None THEN l ELSE r.want \cup (l \cap {Description})
           k == IF r.want = None THEN {} ELSE r.want
<1>3. m \in SUBSET AllLabels /\ k \in SUBSET AllLabels
  BY <1>1
<1>4. Patched(l, r) = Described(m, r.text) /\ Replaced(r) = Described(k, r.text)
  BY DEF Patched, Replaced
<1> HIDE DEF m, k
<1> QED
  BY <1>2, <1>3, <1>4, DescribedIs

LEMMA UpdateGoes ==
    ASSUME SecretInv, NEW c \in Clients, req[c] # Idle, NEW r \in SecUpdateReqs, SecretGoes(c, r)
    PROVE  SecretInv'
<1>1. r \in SecReq /\ r.op = "update"
  BY DEF SecReq, SecUpdateReqs, SecUpdateShapes
<1>2. StillTrue(r)
  BY <1>1 DEF StillTrue
<1> QED
  BY <1>1, <1>2, SecretGoesKeeps

LEMMA UpdatesInOne ==
    ASSUME SecretInv, NEW c \in Clients, req[c] # Idle,
           InmemUpdate(c) \/ GcpUpdate(c) \/ AzureUpdate(c) \/ AwsUpdateText(c)
    PROVE  SecretInv'
<1>1. req[c] \in SecUpdateReqs
  BY SecReqKinds DEF SecretInv, InmemUpdate, GcpUpdate, AzureUpdate, AwsUpdateText, Is
<1>2. CASE SecretFails(c)
  BY <1>2, SecretFailsKeeps
<1>3. CASE ~SecretFails(c)
  <2>1. secret # None /\ (Relabels(c, Patched(secret.labels, req[c])) \/ Relabels(c, Replaced(req[c])))
    BY <1>3 DEF InmemUpdate, GcpUpdate, AzureUpdate, AwsUpdateText, Usable
  <2>2. secret.labels \in SUBSET AllLabels
    BY <2>1 DEF SecretInv, SecretTypes, SecretStates
  <2> QED
    BY <1>1, <2>1, <2>2, PatchedIs, RelabelsKeeps
<1> QED
  BY <1>2, <1>3

LEMMA VaultUpdates ==
    ASSUME SecretInv, NEW c \in Clients, req[c] # Idle, VaultUpdateRead(c) \/ VaultUpdateWrite(c)
    PROVE  SecretInv'
<1>1. req[c] \in SecUpdateReqs
  BY SecReqKinds DEF SecretInv, VaultUpdateRead, VaultUpdateWrite, Is
<1>2. CASE SecretFails(c)
  BY <1>2, SecretFailsKeeps
<1>3. CASE VaultUpdateRead(c) /\ ~SecretFails(c)
  <2> DEFINE l == Patched(secret.labels, req[c])
             q == [req[c] EXCEPT !.at = "write"]
             r == [q EXCEPT !.left = l]
  <2>1. secret # None /\ SecretGoes(c, [req[c] EXCEPT !.at = "write", !.left = l])
    BY <1>3 DEF VaultUpdateRead
  <2>2. secret.labels \in SUBSET AllLabels
    BY <2>1 DEF SecretInv, SecretTypes, SecretStates
  <2>3. l \in SUBSET AllLabels
    BY <1>1, <2>2, PatchedIs
  <2> HIDE DEF l
  <2>4. [req[c] EXCEPT !.at = "write", !.left = l] = r
    OBVIOUS
  <2>5. q \in SecUpdateReqs
    BY <1>1 DEF SecUpdateReqs, SecUpdateShapes
  <2>6. SecretGoes(c, r)
    BY <2>1, <2>4
  <2> HIDE DEF q
  <2>7. r \in SecUpdateReqs
    BY <2>3, <2>5 DEF SecUpdateReqs, SecUpdateShapes
  <2> HIDE DEF r
  <2> QED
    BY <2>6, <2>7, UpdateGoes
<1>4. CASE VaultUpdateWrite(c)
  <2>1. req[c].left \in SUBSET AllLabels
    BY <1>1 DEF SecUpdateReqs, SecUpdateShapes
  <2>2. UNCHANGED <<written, told>> /\ Ends(c, "ok")
    BY <1>4 DEF VaultUpdateWrite, SecretBecomes
  <2>3. CASE secret = None
    <3> DEFINE s == NewSecret(req[c].left, <<>>)
    <3>1. s \in SecretStates /\ Continues(s)
      BY <2>1, <2>3, EmptySecretIs
    <3>2. secret' = s
      BY <1>4, <2>3 DEF VaultUpdateWrite, SecretBecomes
    <3> HIDE DEF s
    <3>3. SecretTypes' /\ ToldOfThis'
      BY <2>2, <3>1, <3>2, SecretContinues DEF SecretInv
    <3> QED
      BY <2>2, <3>3, SecEnds DEF SecretInv
  <2>4. CASE secret # None
    <3>1. secret' = [secret EXCEPT !.labels = req[c].left]
      BY <1>4, <2>4 DEF VaultUpdateWrite, SecretBecomes
    <3>2. SecretTypes' /\ ToldOfThis'
      BY <2>1, <2>2, <2>4, <3>1, RelabelledKeeps DEF SecretInv
    <3> QED
      BY <2>2, <3>2, SecEnds DEF SecretInv
  <2> QED
    BY <2>3, <2>4
<1> QED
  BY <1>2, <1>3, <1>4

LEMMA AwsUpdates ==
    ASSUME SecretInv, NEW c \in Clients, req[c] # Idle,
           AwsUpdateLook(c) \/ AwsUpdateUntag(c) \/ AwsUpdateTag(c)
    PROVE  SecretInv'
<1>1. req[c] \in SecUpdateReqs
  BY SecReqKinds DEF SecretInv, AwsUpdateLook, AwsUpdateUntag, AwsUpdateTag, Is
<1>2. CASE SecretFails(c)
  BY <1>2, SecretFailsKeeps
<1>3. CASE AwsUpdateLook(c) /\ ~SecretFails(c)
  <2> DEFINE l == secret.labels \ (req[c].want \cup {Description})
             at == IF l = {} THEN "tag" ELSE "untag"
             q == [req[c] EXCEPT !.at = at]
             r == [q EXCEPT !.left = l]
  <2>1. secret # None /\ SecretGoes(c, [req[c] EXCEPT !.at = at, !.left = l])
    BY <1>3 DEF AwsUpdateLook
  <2>2. l \in SUBSET AllLabels /\ at \in {"tag", "untag"}
    BY <2>1 DEF SecretInv, SecretTypes, SecretStates
  <2> HIDE DEF l, at
  <2>3. [req[c] EXCEPT !.at = at, !.left = l] = r
    OBVIOUS
  <2>4. q \in SecUpdateReqs
    BY <1>1, <1>3, <2>2 DEF AwsUpdateLook, SecUpdateReqs, SecUpdateShapes
  <2>5. SecretGoes(c, r)
    BY <2>1, <2>3
  <2> HIDE DEF q
  <2>6. r \in SecUpdateReqs
    BY <2>2, <2>4 DEF SecUpdateReqs, SecUpdateShapes
  <2> HIDE DEF r
  <2> QED
    BY <2>5, <2>6, UpdateGoes
<1>4. CASE AwsUpdateUntag(c) /\ ~SecretFails(c)
  <2>1. PICK r \in SecUpdateReqs : r = [req[c] EXCEPT !.at = "tag"]
    BY <1>1, <1>4 DEF AwsUpdateUntag, Is, SecUpdateReqs, SecUpdateShapes
  <2>2. PICK l : l = secret.labels \ req[c].left
    OBVIOUS
  <2>3. secret # None /\ secret' = [secret EXCEPT !.labels = l] /\ UNCHANGED <<written, told>> /\ Goes(c, r)
    BY <1>4, <2>1, <2>2 DEF AwsUpdateUntag, Usable, SecretBecomes
  <2>4. l \in SUBSET AllLabels
    BY <2>2, <2>3 DEF SecretInv, SecretTypes, SecretStates
  <2>5. SecretTypes' /\ ToldOfThis'
    BY <2>3, <2>4, RelabelledKeeps DEF SecretInv
  <2>6. r \in SecReq /\ r.op = "update"
    BY DEF SecReq, SecUpdateReqs, SecUpdateShapes
  <2>7. StillTrue(r)'
    BY <2>6 DEF StillTrue
  <2> QED
    BY <2>3, <2>5, <2>6, <2>7, SecGoes DEF SecretInv
<1>5. CASE AwsUpdateTag(c) /\ ~SecretFails(c)
  <2>1. CASE Ends(c, "ok") /\ SecretSame
    BY <2>1, SecFails
  <2>2. CASE Usable /\ Relabels(c, secret.labels \cup req[c].want)
    <3>1. secret # None /\ secret.labels \in SUBSET AllLabels
      BY <2>2 DEF Usable, SecretInv, SecretTypes, SecretStates
    <3>2. req[c].want # None /\ req[c].want \in SUBSET AllLabels
      BY <1>1, <1>5 DEF AwsUpdateTag, Is, SecUpdateReqs, SecUpdateShapes
    <3>3. secret.labels \cup req[c].want \in SUBSET AllLabels
      BY <3>1, <3>2
    <3> QED
      BY <2>2, <3>1, <3>3, RelabelsKeeps
  <2> QED
    BY <1>5, <2>1, <2>2 DEF AwsUpdateTag
<1> QED
  BY <1>2, <1>3, <1>4, <1>5

-----------------------------------------------------------------------------
(* HeadSecret, and the tags read first *)

LEMMA HeadedIs ==
    ASSUME SecretsServed, service = "secrets", Headed
    PROVE  secret # None
BY DEF SecretsServed, Headed, InmemHead, VaultHead, GcpHead, AwsHead, AzureHead, Usable

LEMMA FrontHeadKeeps ==
    ASSUME SecretInv, SecretsServed, service = "secrets", NEW c \in Clients, req[c] # Idle, FrontHead(c)
    PROVE  SecretInv'
<1>1. req[c] \in SecUpdateReqs
  BY SecReqKinds DEF SecretInv, FrontHead
<1>2. CASE SecretFails(c)
  BY <1>2, SecretFailsKeeps
<1>3. CASE ~SecretFails(c)
  <2> DEFINE l == Retagged(req[c])
             q == [req[c] EXCEPT !.at = "first"]
             r == [q EXCEPT !.want = l]
  <2>1. Headed /\ SecretGoes(c, [req[c] EXCEPT !.at = "first", !.want = l])
    BY <1>3 DEF FrontHead
  <2>2. secret.labels \in SUBSET AllLabels
    BY <2>1, HeadedIs DEF SecretInv, SecretTypes, SecretStates
  <2>3. l \in SUBSET AllLabels
    BY <1>1, <2>2 DEF Retagged, AllLabels, SecUpdateReqs, SecUpdateShapes
  <2> HIDE DEF l
  <2>4. [req[c] EXCEPT !.at = "first", !.want = l] = r
    OBVIOUS
  <2>5. q \in SecUpdateReqs /\ q.at = "first"
    BY <1>1 DEF SecUpdateReqs, SecUpdateShapes
  <2>6. SecretGoes(c, r)
    BY <2>1, <2>4
  <2> HIDE DEF q
  <2>7. r \in SecUpdateReqs
    BY <2>3, <2>5 DEF SecUpdateReqs, SecUpdateShapes
  <2> HIDE DEF r
  <2> QED
    BY <2>6, <2>7, UpdateGoes
<1> QED
  BY <1>2, <1>3

-----------------------------------------------------------------------------
(* DeleteSecret *)

LEMMA SecretVanishesKeeps ==
    ASSUME SecretInv, NEW c \in Clients, SecretVanishes(c)
    PROVE  SecretInv'
BY SecretGone, SecEnds DEF SecretInv, SecretVanishes, SecretBecomes

LEMMA SecretMissingKeeps ==
    ASSUME SecretInv, NEW c \in Clients, SecretMissing(c)
    PROVE  SecretInv'
BY SecFails DEF SecretMissing

\* Marking or hiding leaves the versions.
LEMMA VersionsStay ==
    ASSUME SecretTypes, ToldOfThis, secret # None, NEW t \in SecretStates, t.vals = secret.vals, secret' = t,
           UNCHANGED <<written, told>>
    PROVE  SecretTypes' /\ ToldOfThis'
<1>1. told' \subseteq told \cup {<<0, 0>>} /\ told' = told
  OBVIOUS
<1> QED
  BY <1>1, SecretRemains

LEMMA SchedulesDeletionKeeps ==
    ASSUME SecretInv, NEW c \in Clients, secret # None, SchedulesDeletion(c)
    PROVE  SecretInv'
<1>1. PICK t : t = [secret EXCEPT !.deleting = TRUE]
  OBVIOUS
<1>2. secret \in SecretStates
  BY DEF SecretInv, SecretTypes
<1>3. t \in SecretStates /\ t.vals = secret.vals
  BY <1>1, <1>2, DeletingIs
<1>4. secret' = t /\ UNCHANGED <<written, told>> /\ Ends(c, "ok")
  BY <1>1 DEF SchedulesDeletion, SecretBecomes
<1> QED
  BY <1>3, <1>4, VersionsStay, SecEnds DEF SecretInv

LEMMA VaultDeletes ==
    ASSUME SecretInv, NEW c \in Clients, VaultDelete(c)
    PROVE  SecretInv'
<1>1. CASE SecretVanishes(c)
  BY <1>1, SecretVanishesKeeps
<1>2. CASE ~SecretVanishes(c)
  <2>1. UNCHANGED <<written, told>> /\ Ends(c, "ok")
    BY <1>2 DEF VaultDelete, SecretBecomes
  <2>2. CASE secret' = secret
    BY <2>1, <2>2, SecretSameKeeps, SecEnds DEF SecretInv, SecretTypes, ToldOfThis, VersionsTold, LatestVersion
  <2>3. CASE secret # None /\ secret' = [secret EXCEPT !.hidden = @ \cup {LatestVersion}]
    <3>1. PICK t : t = [secret EXCEPT !.hidden = @ \cup {LatestVersion}]
      OBVIOUS
    <3>2. secret \in SecretStates
      BY <2>3 DEF SecretInv, SecretTypes
    <3>3. LatestVersion \in Nat
      BY <3>2 DEF LatestVersion, SecretStates
    <3>4. t \in SecretStates /\ t.vals = secret.vals
      BY <3>1, <3>2, <3>3, HiddenIs
    <3>5. secret' = t
      BY <2>3, <3>1
    <3> QED
      BY <2>1, <2>3, <3>4, <3>5, VersionsStay, SecEnds DEF SecretInv
  <2> QED
    BY <1>2, <2>2, <2>3 DEF VaultDelete, SecretBecomes
<1> QED
  BY <1>1, <1>2

LEMMA AzureDeletes ==
    ASSUME SecretInv, NEW c \in Clients, req[c] # Idle, AzureDelete(c)
    PROVE  SecretInv'
<1>1. req[c] \in SecDeleteReqs
  BY SecReqKinds DEF SecretInv, AzureDelete, Is
<1>2. CASE SecretMissing(c)
  BY <1>2, SecretMissingKeeps
<1>3. CASE Usable /\ SchedulesDeletion(c)
  BY <1>3, SchedulesDeletionKeeps DEF Usable
<1>4. CASE Usable /\ SecretBecomes([secret EXCEPT !.deleting = TRUE]) /\ told' = told
           /\ Goes(c, [req[c] EXCEPT !.at = "purge"])
  <2>1. PICK t : t = [secret EXCEPT !.deleting = TRUE]
    OBVIOUS
  <2>2. secret # None /\ secret \in SecretStates
    BY <1>4 DEF Usable, SecretInv, SecretTypes
  <2>3. t \in SecretStates /\ t.vals = secret.vals
    BY <2>1, <2>2, DeletingIs
  <2>4. PICK r \in SecDeleteReqs : r = [req[c] EXCEPT !.at = "purge"]
    BY <1>1 DEF SecDeleteReqs
  <2>5. r \in SecReq /\ r.op = "delete"
    BY DEF SecReq, SecDeleteReqs
  <2>6. StillTrue(r)'
    BY <2>5 DEF StillTrue
  <2>7. secret' = t /\ UNCHANGED <<written, told>> /\ Goes(c, r)
    BY <1>4, <2>1, <2>4 DEF SecretBecomes
  <2> QED
    BY <2>2, <2>3, <2>5, <2>6, <2>7, VersionsStay, SecGoes DEF SecretInv
<1> QED
  BY <1>2, <1>3, <1>4 DEF AzureDelete

LEMMA SecretDeletes ==
    ASSUME SecretInv, NEW c \in Clients, req[c] # Idle,
           InmemDelete(c) \/ GcpDelete(c) \/ AwsDelete(c) \/ AzurePurge(c)
    PROVE  SecretInv'
<1>1. \/ SecretFails(c) \/ SecretVanishes(c) \/ SecretMissing(c)
      \/ secret # None /\ SchedulesDeletion(c)
  BY DEF InmemDelete, GcpDelete, AwsDelete, AzurePurge
<1> QED
  BY <1>1, SecretFailsKeeps, SecretVanishesKeeps, SecretMissingKeeps, SchedulesDeletionKeeps

LEMMA SecretExpiresKeeps ==
    ASSUME SecretInv, SecretExpires
    PROVE  SecretInv'
<1>1. SecretTypes' /\ ToldOfThis'
  BY SecretGone DEF SecretInv, SecretExpires, SecretBecomes
<1>2. SecretReqs' /\ Undisturbed'
  BY NoneIsNoClient DEF SecretInv, SecretExpires, SecretReqs, Undisturbed
<1> QED
  BY <1>1, <1>2 DEF SecretInv

-----------------------------------------------------------------------------
LEMMA SecretStepKeeps ==
    ASSUME SecretInv, SecretsServed, service = "secrets", NEW c \in Clients, SecretStep(c)
    PROVE  SecretInv'
<1>1. req[c] # Idle
  BY DEF SecretStep
<1>2. CASE FrontVersions(c) \/ HeadSecret(c) \/ FrontHead(c)
  BY <1>1, <1>2, GetsPrevious, SecFails, FrontHeadKeeps DEF HeadSecret
<1>3. CASE InmemCreate(c) \/ InmemPut(c) \/ InmemGet(c) \/ InmemUpdate(c) \/ InmemDelete(c)
  BY <1>1, <1>3, CreatesInOne, PutsInOne, GetsInOne, UpdatesInOne, SecretDeletes
<1>4. CASE AwsCreate(c) \/ AwsPut(c) \/ AwsPutList(c) \/ AwsGet(c) \/ AwsGetCount(c) \/ AwsGetFetch(c)
  BY <1>1, <1>4, CreatesInOne, PutWrites, PutCounts, GetsByNumber, GetsCount
<1>5. CASE \/ AwsUpdateText(c) \/ AwsUpdateLook(c) \/ AwsUpdateUntag(c) \/ AwsUpdateTag(c) \/ AwsDelete(c)
  BY <1>1, <1>5, UpdatesInOne, AwsUpdates, SecretDeletes
<1>6. CASE \/ VaultCreateRead(c) \/ VaultCreateMeta(c) \/ VaultCreateData(c) \/ VaultPut(c) \/ VaultGet(c)
           \/ VaultUpdateRead(c) \/ VaultUpdateWrite(c) \/ VaultDelete(c)
  BY <1>1, <1>6, VaultCreates, PutsInOne, GetsInOne, VaultUpdates, VaultDeletes
<1>7. CASE \/ AzureCreateRead(c) \/ AzureCreateSet(c) \/ AzurePut(c) \/ AzurePutList(c) \/ AzureGet(c)
           \/ AzureGetCount(c) \/ AzureGetFetch(c) \/ AzureUpdate(c) \/ AzureDelete(c) \/ AzurePurge(c)
  BY <1>1, <1>7, AzureCreates, PutWrites, PutCounts, GetsByNumber, GetsCount, UpdatesInOne, AzureDeletes,
     SecretDeletes
<1>8. CASE \/ GcpCreate(c) \/ GcpCreateVersion(c) \/ GcpPut(c) \/ GcpGet(c) \/ GcpUpdate(c) \/ GcpDelete(c)
  BY <1>1, <1>8, GcpCreates, PutsInOne, GetsInOne, UpdatesInOne, SecretDeletes
<1> QED
  BY <1>2, <1>3, <1>4, <1>5, <1>6, <1>7, <1>8 DEF SecretStep

LEMMA SecretsInitInv == ShimInit /\ SecretsInit => SecretInv /\ SecretsServed
<1> SUFFICES ASSUME ShimInit, SecretsInit
             PROVE  SecretInv /\ SecretsServed
  OBVIOUS
<1>1. SecretTypes /\ ToldOfThis
  BY DEF SecretsInit, SecretTypes, ToldOfThis, VersionsTold
<1>2. SecretReqs /\ Undisturbed
  BY NoneIsNoClient DEF ShimInit, SecretReqs, Undisturbed
<1>3. SecretsServed
  BY SecretBackends DEF ShimInit, SecretsServed
<1> QED
  BY <1>1, <1>2, <1>3 DEF SecretInv

LEMMA SecretsServedKept ==
    ASSUME SecretsServed, [SecretsNext]_<<shimVars, secretsVars>>
    PROVE  SecretsServed'
<1> SUFFICES UNCHANGED <<service, backend>>
  BY DEF SecretsServed
<1>1. CASE UNCHANGED <<shimVars, secretsVars>>
  BY <1>1 DEF shimVars
<1>2. CASE SecretExpires
  BY <1>2 DEF SecretExpires
<1>3. ASSUME NEW c \in Clients, SecretRequests(c)
      PROVE  UNCHANGED <<service, backend>>
  <2>1. \E r : SendsSecret(c, r) \/ SendsValue(c, r) \/ SendsEmpty(c, r)
    BY <1>3 DEF SecretRequests, AwsCreateSecret, AwsGetSecretValue, AwsPutSecretValue, AwsDeleteSecret,
       AwsUpdateSecret, AwsTagResource, AwsUntagResource, AwsDescribeSecret, GcpCreateSecretFront,
       GcpAddSecretVersion, GcpAccessSecretVersion, GcpDeleteSecretFront, AzureSetSecret, AzureGetSecret,
       AzureDeleteSecretFront, AzurePurgeDeletedSecret
  <2> QED
    BY <2>1 DEF SendsSecret, SendsValue, SendsEmpty, Begin
<1>4. ASSUME NEW c \in Clients, Dies(c)
      PROVE  UNCHANGED <<service, backend>>
  BY <1>4 DEF Dies, Fails, Ends
<1>5. ASSUME NEW c \in Clients, SecretStep(c)
      PROVE  UNCHANGED <<service, backend>>
  <2>1. ASSUME SecretFails(c) \/ SecretMissing(c) \/ SecretVanishes(c) \/ SchedulesDeletion(c)
        PROVE  UNCHANGED <<service, backend>>
    BY <2>1 DEF SecretFails, SecretMissing, SecretVanishes, SchedulesDeletion, Fails, Ends
  <2>2. ASSUME NEW r, SecretGoes(c, r)
        PROVE  UNCHANGED <<service, backend>>
    BY <2>2 DEF SecretGoes, Goes
  <2>3. ASSUME NEW x, Relabels(c, x) \/ AddsVersion(c, x) \/ MakesSecret(c, x)
        PROVE  UNCHANGED <<service, backend>>
    BY <2>3 DEF Relabels, AddsVersion, MakesSecret, Ends
  <2>4. ASSUME NEW n, NEW v, ReturnsValue(c, n, v)
        PROVE  UNCHANGED <<service, backend>>
    BY <2>4 DEF ReturnsValue, Ends, Goes
  <2>5. ASSUME SecretExists(c)
        PROVE  UNCHANGED <<service, backend>>
    BY <2>1, <2>2, <2>5 DEF SecretExists
  <2>6. CASE FrontVersions(c) \/ HeadSecret(c) \/ FrontHead(c)
    BY <2>1, <2>2, <2>6 DEF FrontVersions, HeadSecret, FrontHead, Ends
  <2>7. CASE InmemCreate(c) \/ InmemPut(c) \/ InmemGet(c) \/ InmemUpdate(c) \/ InmemDelete(c)
    BY <2>1, <2>2, <2>3, <2>4, <2>5, <2>7 DEF InmemCreate, InmemPut, InmemGet, InmemUpdate, InmemDelete
  <2>8. CASE AwsCreate(c) \/ AwsPut(c) \/ AwsPutList(c) \/ AwsGet(c) \/ AwsGetCount(c) \/ AwsGetFetch(c)
    BY <2>1, <2>2, <2>3, <2>4, <2>5, <2>8 DEF AwsCreate, AwsPut, AwsPutList, AwsGet, AwsGetCount, AwsGetFetch,
       ByNumber, Fetched, Goes, Ends
  <2>9. CASE \/ AwsUpdateText(c) \/ AwsUpdateLook(c) \/ AwsUpdateUntag(c) \/ AwsUpdateTag(c) \/ AwsDelete(c)
    BY <2>1, <2>2, <2>3, <2>9 DEF AwsUpdateText, AwsUpdateLook, AwsUpdateUntag, AwsUpdateTag, AwsDelete, Goes, Ends
  <2>10. CASE \/ VaultCreateRead(c) \/ VaultCreateMeta(c) \/ VaultCreateData(c) \/ VaultPut(c) \/ VaultGet(c)
              \/ VaultUpdateRead(c) \/ VaultUpdateWrite(c) \/ VaultDelete(c)
    BY <2>1, <2>2, <2>3, <2>4, <2>5, <2>10 DEF VaultCreateRead, VaultWrites, VaultCreateMeta, VaultCreateData, VaultPut,
       VaultGet, VaultUpdateRead, VaultUpdateWrite, VaultDelete, Goes, Ends
  <2>11. CASE \/ AzureCreateRead(c) \/ AzureCreateSet(c) \/ AzurePut(c) \/ AzurePutList(c) \/ AzureGet(c)
              \/ AzureGetCount(c) \/ AzureGetFetch(c) \/ AzureUpdate(c) \/ AzureDelete(c) \/ AzurePurge(c)
    BY <2>1, <2>2, <2>3, <2>4, <2>5, <2>11 DEF AzureCreateRead, AzureCreateSet, AzurePut, AzurePutList, AzureGet,
       AzureGetCount, AzureGetFetch, AzureUpdate, AzureDelete, AzurePurge, ByNumber, Fetched, Goes, Ends
  <2>12. CASE \/ GcpCreate(c) \/ GcpCreateVersion(c) \/ GcpPut(c) \/ GcpGet(c) \/ GcpUpdate(c) \/ GcpDelete(c)
    BY <2>1, <2>2, <2>3, <2>4, <2>5, <2>12 DEF GcpCreate, GcpCreateVersion, GcpPut, GcpGet, GcpUpdate, GcpDelete,
       Goes, Ends
  <2> QED
    BY <1>5, <2>6, <2>7, <2>8, <2>9, <2>10, <2>11, <2>12 DEF SecretStep
<1> QED
  BY <1>1, <1>2, <1>3, <1>4, <1>5 DEF SecretsNext

LEMMA SecretsNextInv ==
    ASSUME SecretInv, SecretsServed, [SecretsNext]_<<shimVars, secretsVars>>
    PROVE  SecretInv'
<1>1. CASE UNCHANGED <<shimVars, secretsVars>>
  BY <1>1 DEF shimVars, secretsVars, SecretInv, SecretTypes, ToldOfThis, VersionsTold, LatestVersion, SecretReqs,
     Undisturbed, StillTrue, Latest, Usable, WholeList
<1>2. CASE SecretsNext
  <2>1. CASE SecretExpires
    BY <2>1, SecretExpiresKeeps
  <2>2. ASSUME NEW c \in Clients, SecretRequests(c) \/ SecretStep(c) \/ (Dies(c) /\ SecretSame)
        PROVE  SecretInv'
    BY <1>2, <2>2, SecretAsked, SecretStepKeeps, SecFails DEF SecretsNext, Dies, Fails
  <2> QED
    BY <1>2, <2>1, <2>2 DEF SecretsNext
<1> QED
  BY <1>1, <1>2

\* The invariant holds of every shim for secrets, whose backend is one of
\* services/secrets/backends.
THEOREM SecretsInvariant == SecretsSpec => [](SecretInv /\ SecretsServed)
<1>1. SecretInv /\ SecretsServed /\ [SecretsNext]_<<shimVars, secretsVars>> => (SecretInv /\ SecretsServed)'
  BY SecretsNextInv, SecretsServedKept
<1> QED
  BY SecretsInitInv, <1>1, PTL DEF SecretsSpec

\* PutSecretValue, GetSecretValue and CreateSecret of the five backends: what
\* they said of a version is what it holds for as long as the secret lives -
\* where the number comes from another call than the value (aws, azure, the
\* second call of CreateSecret on gcp), of requests that ran alone.
THEOREM VersionsAlwaysTold == SecretsSpec => []VersionsTold
<1>1. SecretInv => VersionsTold
  BY DEF SecretInv, ToldOfThis
<1> QED
  BY <1>1, SecretsInvariant, PTL

LEMMA DeleteFrees ==
    ASSUME SecretInv, SecretsNext, NEW c \in Clients, alone = c, req[c].op = "delete", req[c].force,
           answer' = "ok" \/ (answer' = "missing" /\ backend # "azure")
    PROVE  secret' = None
<1>1. answer' # None
  BY NoneIsNoAnswer
<1>2. ~SecretExpires
  BY <1>1 DEF SecretExpires
<1>3. ASSUME NEW d \in Clients, SecretRequests(d)
      PROVE  FALSE
  <2>1. \E r : SendsSecret(d, r) \/ SendsValue(d, r) \/ SendsEmpty(d, r)
    BY <1>3 DEF SecretRequests, AwsCreateSecret, AwsGetSecretValue, AwsPutSecretValue, AwsDeleteSecret,
       AwsUpdateSecret, AwsTagResource, AwsUntagResource, AwsDescribeSecret, GcpCreateSecretFront,
       GcpAddSecretVersion, GcpAccessSecretVersion, GcpDeleteSecretFront, AzureSetSecret, AzureGetSecret,
       AzureDeleteSecretFront, AzurePurgeDeletedSecret
  <2> QED
    BY <1>1, <2>1 DEF SendsSecret, SendsValue, SendsEmpty, Begin
<1>4. ASSUME NEW d \in Clients, Dies(d)
      PROVE  FALSE
  BY <1>1, <1>4 DEF Dies, Fails, Ends
<1>5. ASSUME NEW d \in Clients, SecretStep(d)
      PROVE  d = c
  BY <1>5, NoneIsNoClient DEF SecretStep, SecretInv, SecretReqs
<1>6. SecretStep(c)
  BY <1>2, <1>3, <1>4, <1>5 DEF SecretsNext
<1>7. InmemDelete(c) \/ VaultDelete(c) \/ GcpDelete(c) \/ AwsDelete(c) \/ AzureDelete(c) \/ AzurePurge(c)
  <2>1. ~(FrontVersions(c) \/ HeadSecret(c) \/ FrontHead(c))
    BY DEF FrontVersions, HeadSecret, FrontHead
  <2>2. ~(InmemCreate(c) \/ InmemPut(c) \/ InmemGet(c) \/ InmemUpdate(c))
    BY DEF InmemCreate, InmemPut, InmemGet, InmemUpdate, Is
  <2>3. ~(\/ AwsCreate(c) \/ AwsPut(c) \/ AwsPutList(c) \/ AwsGet(c) \/ AwsGetCount(c) \/ AwsGetFetch(c)
          \/ AwsUpdateText(c) \/ AwsUpdateLook(c) \/ AwsUpdateUntag(c) \/ AwsUpdateTag(c))
    BY DEF AwsCreate, AwsPut, AwsPutList, AwsGet, AwsGetCount, AwsGetFetch, AwsUpdateText, AwsUpdateLook,
       AwsUpdateUntag, AwsUpdateTag, Is
  <2>4. ~(\/ VaultCreateRead(c) \/ VaultCreateMeta(c) \/ VaultCreateData(c) \/ VaultPut(c) \/ VaultGet(c)
          \/ VaultUpdateRead(c) \/ VaultUpdateWrite(c))
    BY DEF VaultCreateRead, VaultCreateMeta, VaultCreateData, VaultPut, VaultGet, VaultUpdateRead,
       VaultUpdateWrite, Is
  <2>5. ~(\/ AzureCreateRead(c) \/ AzureCreateSet(c) \/ AzurePut(c) \/ AzurePutList(c) \/ AzureGet(c)
          \/ AzureGetCount(c) \/ AzureGetFetch(c) \/ AzureUpdate(c))
    BY DEF AzureCreateRead, AzureCreateSet, AzurePut, AzurePutList, AzureGet, AzureGetCount, AzureGetFetch,
       AzureUpdate, Is
  <2>6. ~(GcpCreate(c) \/ GcpCreateVersion(c) \/ GcpPut(c) \/ GcpGet(c) \/ GcpUpdate(c))
    BY DEF GcpCreate, GcpCreateVersion, GcpPut, GcpGet, GcpUpdate, Is
  <2> QED
    BY <1>6, <2>1, <2>2, <2>3, <2>4, <2>5, <2>6 DEF SecretStep
<1>8. SecretVanishes(c) => secret' = None
  BY DEF SecretVanishes, SecretBecomes
<1>9. secret = None /\ SecretMissing(c) => secret' = None
  BY DEF SecretMissing, SecretSame
<1>10. CASE InmemDelete(c) \/ VaultDelete(c) \/ GcpDelete(c) \/ AwsDelete(c) \/ AzurePurge(c)
  BY <1>8, <1>9, <1>10 DEF InmemDelete, VaultDelete, GcpDelete, AwsDelete, AzurePurge
<1>11. CASE AzureDelete(c)
  <2>1. backend = "azure" /\ answer' = "ok"
    BY <1>11 DEF AzureDelete, Is
  <2>2. ~SecretMissing(c)
    BY <2>1 DEF SecretMissing, Ends
  <2> QED
    BY <1>1, <1>11, <2>2 DEF AzureDelete, Purges, Goes
<1> QED
  BY <1>7, <1>10, <1>11

\* A forced DeleteSecret that nothing overlapped frees the name on every
\* backend - on azure, too, where the purge is a call of its own - and, but for
\* azure, also when it answers that there is no such secret.
THEOREM ForcedDeleteAlwaysFrees == SecretsSpec => ForcedDeleteFrees
<1>1. SecretInv /\ [SecretsNext]_<<shimVars, secretsVars>>
      => [\A c \in Clients :
            /\ service = "secrets" /\ alone = c
            /\ req[c].op = "delete" /\ req[c].force
            /\ answer' = "ok" \/ (answer' = "missing" /\ backend # "azure")
            => secret' = None]_<<shimVars, secretsVars>>
  BY DeleteFrees
<1> QED
  BY <1>1, SecretsInvariant, PTL DEF SecretsSpec, ForcedDeleteFrees

-----------------------------------------------------------------------------
(***************************************************************************)
(* UpdateKeepsOthers for every set of clients, instances and snapshots.    *)
(*                                                                         *)
(* A call changes one instance or one Secret, and the request it belongs   *)
(* to (CtlEffect); of the fields of an instance that stays, only those     *)
(* that the request mentions.  For a request that writes back what it has  *)
(* read this needs ReadFits: the instance is still the one that was read,  *)
(* if it has the version that was read, because every write of a versioned *)
(* store makes a version that was never given out before.                  *)
(***************************************************************************)

CtlStatuses == {"creating", "available", "modifying", "rebooting", "deleting"}
CtlInsts == [status : CtlStatuses, size : Nat, key : Nat, rev : Nat]
CtlSecrets == [key : Nat, rev : Nat]
CtlRead == CtlInsts \cup CtlSecrets \cup {None}
CtlCreates == [op : {"create"}, at : {"first", "resource"}, name : Instances, key : Nat]
CtlDeletes == [op : {"delete"}, at : {"first", "secret"}, name : Instances]
CtlModifies ==
    [op : {"modify"}, at : {"first", "write", "secret", "swap", "user", "configuration"},
     name : Instances, sets : SUBSET Fields, size : Nat, key : Nat, read : CtlRead]
CtlReboots == [op : {"reboot"}, at : {"first", "write"}, name : Instances, read : CtlRead]
CtlSnapshots == [op : {"snapshot"}, at : {"first"}, name : Instances, snap : Snapshots]
CtlDrops == [op : {"drop"}, at : {"first"}, snap : Snapshots]
CtlRestores == [op : {"restore"}, at : {"first", "create", "resource"}, name : Instances, snap : Snapshots]
CtlReqs == CtlCreates \cup CtlDeletes \cup CtlModifies \cup CtlReboots \cup CtlSnapshots
           \cup CtlDrops \cup CtlRestores

CtlTypes ==
    /\ inst \in [Instances -> CtlInsts \cup {None}]
    /\ creds \in [Instances -> CtlSecrets \cup {None}]
    /\ sleepers \in [Jobs -> Nat]
    /\ revision \in Nat
    /\ sent \in Nat
    /\ req \in [Clients -> CtlReqs \cup {Idle}]

\* Versions were given out, and nobody but the in-process backend sleeps.
CtlVersions ==
    backend \in Versioned =>
        /\ \A n \in Instances : inst[n] # None => inst[n].rev <= revision
        /\ \A j \in Jobs : sleepers[j] = 0

ReadFits(r) ==
    /\ r.op = "modify" /\ r.at \in {"secret", "swap", "user"} => "key" \in r.sets
    /\ r.op \in {"modify", "reboot"} /\ r.at = "write" =>
          /\ backend \in Versioned
          /\ r.read \in CtlInsts
          /\ r.read.rev <= revision
          /\ inst[r.name] # None /\ inst[r.name].rev = r.read.rev => inst[r.name] = r.read
CtlInv == CtlTypes /\ CtlVersions /\ \A c \in Clients : ReadFits(req[c])

\* What a step of client c's request r does to the instances: nothing, or it
\* writes one, changing only what the request mentions.
MayChange(r, field) == r.op = "modify" /\ field \in r.sets
CtlWrites(r) ==
    \E i \in CtlInsts \cup {None} :
       /\ Puts(r.name, i)
       /\ backend # "azure" /\ inst[r.name] # None /\ i # None =>
             /\ i.size # inst[r.name].size => MayChange(r, "size")
             /\ i.key # inst[r.name].key => MayChange(r, "key")
CtlWritesSecret(r) ==
    \E k \in Nat \cup {None} :
       /\ PutsSecret(r.name, k)
       /\ creds[r.name] # None /\ k # None => MayChange(r, "key")
CtlStore(r) ==
    \/ UNCHANGED <<inst, creds, revision, sent>>
    \/ r.name \in Instances /\ (CtlWrites(r) \/ CtlWritesSecret(r))
CtlSleep ==
    \/ UNCHANGED sleepers
    \/ backend = "inmem" /\ \E j \in Jobs : sleepers' = [sleepers EXCEPT ![j] = @ + 1]
\* What it does to the request: it ends or goes on.
CtlGoesOn(c, r) ==
    \/ \E says : Ends(c, says)
    \/ \E q \in CtlReqs :
          /\ Goes(c, q)
          /\ q # r
          /\ q.op = "modify" /\ q.at \in {"secret", "swap", "user"} => "key" \in q.sets
          /\ q.op \in {"modify", "reboot"} /\ q.at = "write" =>
                /\ backend \in Versioned
                /\ inst[q.name] # None /\ q.read = inst[q.name]
                /\ UNCHANGED <<inst, revision>>
CtlEffect(c) == \E r \in CtlReqs : r = req[c] /\ CtlStore(r) /\ CtlSleep /\ CtlGoesOn(c, r)

\* Which request is which.
LEMMA CtlKinds ==
    ASSUME NEW r \in CtlReqs \cup {Idle}
    PROVE  /\ r.op = "create" => r \in CtlCreates
           /\ r.op = "delete" => r \in CtlDeletes
           /\ r.op = "modify" => r \in CtlModifies
           /\ r.op = "reboot" => r \in CtlReboots
           /\ r.op = "snapshot" => r \in CtlSnapshots
           /\ r.op = "drop" => r \in CtlDrops
           /\ r.op = "restore" => r \in CtlRestores
           /\ r.op = "idle" => r = Idle
BY DEF CtlReqs, CtlCreates, CtlDeletes, CtlModifies, CtlReboots, CtlSnapshots, CtlDrops, CtlRestores, Idle

-----------------------------------------------------------------------------
(* What the calls are built from *)

\* A request that was found at one of its calls.
CtlAt(c, r) == CtlInv /\ c \in Clients /\ r \in CtlReqs /\ r = req[c]

LEMMA CtlFails ==
    ASSUME NEW c, NEW r, CtlAt(c, r), ControlFails(c) \/ (\E says : Ends(c, says) /\ ControlSame)
    PROVE  CtlEffect(c)
BY DEF CtlEffect, CtlAt, ControlFails, Fails, ControlSame, controlVars, CtlStore, CtlSleep, CtlGoesOn

\* One write of an instance, and the request ends.
LEMMA CtlPuts ==
    ASSUME NEW c, NEW r, CtlAt(c, r), r.name \in Instances, NEW i \in CtlInsts \cup {None}, Puts(r.name, i),
           backend # "azure" /\ inst[r.name] # None /\ i # None =>
             /\ i.size # inst[r.name].size => MayChange(r, "size")
             /\ i.key # inst[r.name].key => MayChange(r, "key"),
           CtlSleep, CtlGoesOn(c, r)
    PROVE  CtlEffect(c)
BY DEF CtlEffect, CtlAt, CtlStore, CtlWrites

LEMMA CtlEnds ==
    ASSUME NEW c, NEW r, Finishes(c) \/ (\E says : Ends(c, says))
    PROVE  CtlGoesOn(c, r)
BY DEF Finishes, CtlGoesOn

LEMMA CtlNew ==
    ASSUME NEW k \in Nat
    PROVE  NewInstance(k) \in CtlInsts
BY DEF NewInstance, CtlInsts, CtlStatuses

\* An instance that is there, with another status, and with what was asked.
LEMMA CtlRestatus ==
    ASSUME NEW i \in CtlInsts, NEW s \in CtlStatuses
    PROVE  /\ [i EXCEPT !.status = s] \in CtlInsts
           /\ [i EXCEPT !.status = s].size = i.size
           /\ [i EXCEPT !.status = s].key = i.key
BY DEF CtlInsts

LEMMA CtlModified ==
    ASSUME NEW i \in CtlInsts, NEW r \in CtlModifies, NEW s \in CtlStatuses
    PROVE  /\ Modified(i, r, s) \in CtlInsts
           /\ Modified(i, r, s).size # i.size => "size" \in r.sets
           /\ Modified(i, r, s).key # i.key => "key" \in r.sets
<1>1. Modified(i, r, s) = [[[i EXCEPT !.status = s] EXCEPT !.size = IF "size" \in r.sets THEN r.size ELSE i.size]
                            EXCEPT !.key = IF "key" \in r.sets THEN r.key ELSE i.key]
  BY DEF Modified, CtlInsts
<1>2. PICK a : a = [i EXCEPT !.status = s]
  OBVIOUS
<1>3. a \in CtlInsts /\ a.size = i.size /\ a.key = i.key
  BY <1>2 DEF CtlInsts
<1>4. PICK z : z = IF "size" \in r.sets THEN r.size ELSE i.size
  OBVIOUS
<1>5. z \in Nat /\ (z # i.size => "size" \in r.sets)
  BY <1>4 DEF CtlInsts, CtlModifies
<1>6. PICK b : b = [a EXCEPT !.size = z]
  OBVIOUS
<1>7. b \in CtlInsts /\ b.size = z /\ b.key = i.key
  BY <1>3, <1>5, <1>6 DEF CtlInsts
<1>8. PICK y : y = IF "key" \in r.sets THEN r.key ELSE i.key
  OBVIOUS
<1>9. y \in Nat /\ (y # i.key => "key" \in r.sets)
  BY <1>8 DEF CtlInsts, CtlModifies
<1>10. PICK d : d = [b EXCEPT !.key = y]
  OBVIOUS
<1>11. d \in CtlInsts /\ d.size = z /\ d.key = y
  BY <1>7, <1>9, <1>10 DEF CtlInsts
<1>12. Modified(i, r, s) = d
  BY <1>1, <1>2, <1>4, <1>6, <1>8, <1>10
<1> QED
  BY <1>5, <1>9, <1>11, <1>12

LEMMA CtlCurrent ==
    ASSUME NEW c, NEW r, CtlAt(c, r), r.name \in Instances
    PROVE  Current(c) = inst[r.name] /\ inst[r.name] \in CtlInsts \cup {None}
BY DEF CtlAt, Current, CtlInv, CtlTypes

LEMMA CtlJobs ==
    ASSUME NEW n \in Instances, NEW kind \in {"create", "modify", "reboot", "delete"}
    PROVE  <<kind, n>> \in Jobs
BY DEF Jobs

LEMMA CtlCalm == Calm => CtlSleep
BY DEF Calm, CtlSleep

\* A snapshot is written.
LEMMA CtlPutsSnapshot ==
    ASSUME NEW c, NEW r, CtlAt(c, r), NEW s, NEW status, PutsSnapshot(s, status), CtlSleep, CtlGoesOn(c, r)
    PROVE  CtlEffect(c)
BY DEF CtlEffect, CtlAt, CtlStore, PutsSnapshot

LEMMA CtlInmemCreates ==
    ASSUME NEW c, NEW r, CtlAt(c, r), r.name \in Instances, backend = "inmem", NEW k \in Nat, InmemCreates(c, k)
    PROVE  CtlEffect(c)
<1>1. CASE ControlFails(c)
  BY <1>1, CtlFails
<1>2. CASE ~ControlFails(c)
  <2>1. /\ inst[r.name] = None /\ Puts(r.name, NewInstance(k)) /\ Schedules("create", r.name) /\ Finishes(c)
    BY <1>2, CtlCurrent DEF InmemCreates, CtlAt
  <2>2. CtlSleep
    BY <2>1, CtlJobs DEF CtlSleep, Schedules
  <2>3. PICK i \in CtlInsts : i = NewInstance(k)
    BY CtlNew
  <2>4. CtlGoesOn(c, r)
    BY <2>1, CtlEnds
  <2> QED BY <2>1, <2>2, <2>3, <2>4, CtlPuts
<1> QED BY <1>1, <1>2

LEMMA CtlInmemSets ==
    ASSUME NEW c, NEW r, CtlAt(c, r), r.name \in Instances, backend = "inmem", NEW i, NEW kind, InmemSets(c, i, kind),
           kind \in {"create", "modify", "reboot", "delete"},
           inst[r.name] # None =>
             /\ i \in CtlInsts
             /\ i.size # inst[r.name].size => MayChange(r, "size")
             /\ i.key # inst[r.name].key => MayChange(r, "key")
    PROVE  CtlEffect(c)
<1>1. CASE ControlFails(c)
  BY <1>1, CtlFails
<1>2. CASE ~ControlFails(c)
  <2>1. inst[r.name] # None /\ Puts(r.name, i) /\ Schedules(kind, r.name) /\ Finishes(c)
    BY <1>2, CtlCurrent DEF InmemSets, CtlAt
  <2>2. CtlSleep
    BY <2>1, CtlJobs DEF CtlSleep, Schedules
  <2>3. CtlGoesOn(c, r)
    BY <2>1, CtlEnds
  <2> QED BY <2>1, <2>2, <2>3, CtlPuts
<1> QED BY <1>1, <1>2

LEMMA CtlInmemChanges ==
    ASSUME NEW c, NEW r, CtlAt(c, r), r.name \in Instances, backend = "inmem",
           InmemDeletes(c) \/ InmemReboots(c) \/ (r \in CtlModifies /\ InmemModifies(c))
    PROVE  CtlEffect(c)
<1>1. PICK o : o = inst[r.name]
  OBVIOUS
<1>2. Current(c) = o /\ (o # None => o \in CtlInsts)
  BY <1>1, CtlCurrent
<1>3. CASE InmemDeletes(c)
  <2>1. PICK i : i = [o EXCEPT !.status = "deleting"]
    OBVIOUS
  <2>2. InmemSets(c, i, "delete")
    BY <1>2, <1>3, <2>1 DEF InmemDeletes
  <2>3. o # None => i \in CtlInsts /\ i.size = o.size /\ i.key = o.key
    BY <1>2, <2>1, CtlRestatus DEF CtlStatuses
  <2> QED BY <1>1, <2>2, <2>3, CtlInmemSets
<1>4. CASE InmemReboots(c)
  <2>1. PICK i : i = [o EXCEPT !.status = "rebooting"]
    OBVIOUS
  <2>2. InmemSets(c, i, "reboot")
    BY <1>2, <1>4, <2>1 DEF InmemReboots
  <2>3. o # None => i \in CtlInsts /\ i.size = o.size /\ i.key = o.key
    BY <1>2, <2>1, CtlRestatus DEF CtlStatuses
  <2> QED BY <1>1, <2>2, <2>3, CtlInmemSets
<1>5. CASE r \in CtlModifies /\ InmemModifies(c)
  <2>1. PICK i : i = Modified(o, r, "modifying")
    OBVIOUS
  <2>2. InmemSets(c, i, "modify")
    BY <1>2, <1>5, <2>1 DEF InmemModifies, CtlAt
  <2>3. o # None => /\ i \in CtlInsts
                    /\ i.size # o.size => MayChange(r, "size")
                    /\ i.key # o.key => MayChange(r, "key")
    BY <1>2, <1>5, <2>1, CtlModified DEF CtlStatuses, MayChange, CtlModifies
  <2> QED BY <1>1, <2>2, <2>3, CtlInmemSets
<1> QED BY <1>3, <1>4, <1>5

\* A call to a cloud that writes one instance and ends the request.
LEMMA CtlCloudSets ==
    ASSUME NEW c, NEW r, CtlAt(c, r), r.name \in Instances, NEW i \in CtlInsts, CloudSets(c, i),
           backend # "azure" /\ inst[r.name] # None =>
             /\ i.size # inst[r.name].size => MayChange(r, "size")
             /\ i.key # inst[r.name].key => MayChange(r, "key")
    PROVE  CtlEffect(c)
<1>1. Puts(r.name, i) /\ Calm /\ Finishes(c)
  BY DEF CloudSets, CtlAt
<1>2. CtlSleep /\ CtlGoesOn(c, r)
  BY <1>1, CtlCalm, CtlEnds
<1> QED BY <1>1, <1>2, CtlPuts

LEMMA CtlCloudMakes ==
    ASSUME NEW c, NEW r, CtlAt(c, r), r.name \in Instances, NEW k \in Nat,
           CloudCreates(c, k) \/ (backend = "azure" /\ CloudReplaces(c, k))
    PROVE  CtlEffect(c)
<1>1. CASE ControlFails(c)
  BY <1>1, CtlFails
<1>2. CASE ~ControlFails(c)
  <2>1. PICK i \in CtlInsts : i = NewInstance(k)
    BY CtlNew
  <2>2. CloudSets(c, i) /\ (inst[r.name] = None \/ backend = "azure")
    BY <1>2, <2>1, CtlCurrent DEF CloudCreates, CloudReplaces
  <2> QED BY <2>2, CtlCloudSets
<1> QED BY <1>1, <1>2

LEMMA CtlCloudChanges ==
    ASSUME NEW c, NEW r, CtlAt(c, r), r.name \in Instances,
           CloudDeletes(c) \/ CloudReboots(c)
    PROVE  CtlEffect(c)
<1>1. CASE ControlFails(c)
  BY <1>1, CtlFails
<1>2. CASE ~ControlFails(c)
  <2>1. PICK o : o = inst[r.name]
    OBVIOUS
  <2>2. PICK s \in {"deleting", "rebooting"} : o # None /\ CloudSets(c, [o EXCEPT !.status = s])
    BY <1>2, <2>1, CtlCurrent DEF CloudDeletes, CloudReboots
  <2>3. o \in CtlInsts
    BY <2>1, <2>2, CtlCurrent
  <2>4. PICK i : i = [o EXCEPT !.status = s]
    OBVIOUS
  <2>5. i \in CtlInsts /\ i.size = o.size /\ i.key = o.key
    BY <2>3, <2>4, CtlRestatus DEF CtlStatuses
  <2> QED BY <2>1, <2>2, <2>4, <2>5, CtlCloudSets
<1> QED BY <1>1, <1>2

\* The cloud is asked for what the request q says, which is part of what the
\* caller mentioned.
LEMMA CtlCloudModifies ==
    ASSUME NEW c, NEW r, CtlAt(c, r), r \in CtlModifies, NEW q \in CtlModifies,
           backend = "azure" \/ q.sets \subseteq r.sets, CloudModifies(c, q)
    PROVE  CtlEffect(c)
<1>0. r.name \in Instances /\ r.op = "modify"
  BY DEF CtlModifies
<1>1. CASE ControlFails(c)
  BY <1>1, CtlFails
<1>2. CASE ~ControlFails(c)
  <2>1. PICK o : o = inst[r.name]
    OBVIOUS
  <2>2. o # None /\ CloudSets(c, Modified(o, q, "modifying"))
    BY <1>0, <1>2, <2>1, CtlCurrent DEF CloudModifies
  <2>3. o \in CtlInsts
    BY <1>0, <2>1, <2>2, CtlCurrent
  <2>4. PICK i : i = Modified(o, q, "modifying")
    OBVIOUS
  <2>5. i \in CtlInsts /\ (i.size # o.size => "size" \in q.sets) /\ (i.key # o.key => "key" \in q.sets)
    BY <2>3, <2>4, CtlModified DEF CtlStatuses
  <2> QED BY <1>0, <2>1, <2>2, <2>4, <2>5, CtlCloudSets DEF MayChange
<1> QED BY <1>1, <1>2

\* The request goes on to another call.
LEMMA CtlNextCall ==
    ASSUME NEW c, NEW r, CtlAt(c, r), NEW q \in CtlReqs, Goes(c, q), q # r,
           q.op = "modify" /\ q.at \in {"secret", "swap", "user"} => "key" \in q.sets,
           q.op \in {"modify", "reboot"} /\ q.at = "write" =>
                /\ backend \in Versioned
                /\ inst[q.name] # None /\ q.read = inst[q.name]
                /\ UNCHANGED <<inst, revision>>
    PROVE  CtlGoesOn(c, r)
BY DEF CtlGoesOn

LEMMA CtlSameGoesOn ==
    ASSUME NEW c, NEW r, CtlAt(c, r), ControlSame, CtlGoesOn(c, r)
    PROVE  CtlEffect(c)
BY DEF CtlEffect, CtlAt, ControlSame, controlVars, CtlStore, CtlSleep

\* A request of another kind than modify and reboot moves on.
LEMMA CtlMoves ==
    ASSUME NEW c, NEW r, CtlAt(c, r), r \in CtlCreates \cup CtlDeletes \cup CtlRestores,
           NEW at, at # r.at, Goes(c, [r EXCEPT !.at = at]), [r EXCEPT !.at = at] \in CtlReqs
    PROVE  CtlGoesOn(c, r)
<1>1. PICK q \in CtlReqs : q = [r EXCEPT !.at = at]
  OBVIOUS
<1>2. q # r /\ q.op \notin {"modify", "reboot"}
  BY <1>1 DEF CtlCreates, CtlDeletes, CtlRestores
<1> QED
  BY <1>1, <1>2, CtlNextCall

LEMMA CtlOperatorSecret ==
    ASSUME NEW c, NEW r, CtlAt(c, r), r \in CtlCreates, r.at = "first", OperatorSecret(c)
    PROVE  CtlEffect(c)
<1>1. [r EXCEPT !.at = "resource"] \in CtlReqs
  BY DEF CtlCreates, CtlReqs
<1>2. Goes(c, [r EXCEPT !.at = "resource"])
  BY DEF OperatorSecret, CtlAt
<1>3. CtlGoesOn(c, r)
  BY <1>1, <1>2, CtlMoves
<1>4. CASE ControlSame
  BY <1>3, <1>4, CtlSameGoesOn
<1>5. CASE ~ControlSame
  <2>1. creds[r.name] = None /\ PutsSecret(r.name, r.key) /\ r.key \in Nat /\ r.name \in Instances
    BY <1>5 DEF OperatorSecret, CtlAt, CtlCreates
  <2>2. CtlSleep
    BY <2>1 DEF PutsSecret, CtlSleep
  <2> QED BY <1>3, <2>1, <2>2 DEF CtlEffect, CtlAt, CtlStore, CtlWritesSecret
<1> QED BY <1>4, <1>5

LEMMA CtlOperatorResource ==
    ASSUME NEW c, NEW r, CtlAt(c, r), r.name \in Instances, OperatorResource(c)
    PROVE  CtlEffect(c)
<1>1. CASE ControlFails(c)
  BY <1>1, CtlFails
<1>2. CASE ~ControlFails(c)
  <2>1. PICK i \in CtlInsts : i = NewInstance(0)
    BY CtlNew
  <2>2. inst[r.name] = None /\ Puts(r.name, i) /\ Calm /\ Finishes(c)
    BY <1>2, <2>1, CtlCurrent DEF OperatorResource, CtlAt
  <2> QED BY <2>2, CtlPuts, CtlCalm, CtlEnds
<1> QED BY <1>1, <1>2

LEMMA CtlOperatorRemoves ==
    ASSUME NEW c, NEW r, CtlAt(c, r), r \in CtlDeletes, r.at = "first", OperatorRemoves(c)
    PROVE  CtlEffect(c)
<1>1. CASE ControlFails(c)
  BY <1>1, CtlFails
<1>2. CASE ~ControlFails(c)
  <2>1. Puts(r.name, None) /\ Calm /\ Goes(c, [r EXCEPT !.at = "secret"]) /\ r.name \in Instances
    BY <1>2 DEF OperatorRemoves, CtlAt, CtlDeletes
  <2>2. [r EXCEPT !.at = "secret"] \in CtlReqs
    BY DEF CtlDeletes, CtlReqs
  <2>3. CtlGoesOn(c, r)
    BY <2>1, <2>2, CtlMoves
  <2>4. PICK i : i = None
    OBVIOUS
  <2> QED BY <2>1, <2>3, <2>4, CtlPuts, CtlCalm
<1> QED BY <1>1, <1>2

LEMMA CtlSecretWritten ==
    ASSUME NEW c, NEW r, CtlAt(c, r), r.name \in Instances, NEW k \in Nat \cup {None}, Finishes(c),
           PutsSecret(r.name, k) \/ ControlSame,
           creds[r.name] # None /\ k # None => MayChange(r, "key")
    PROVE  CtlEffect(c)
<1>1. CtlGoesOn(c, r)
  BY CtlEnds
<1>2. CASE ControlSame
  BY <1>1, <1>2, CtlSameGoesOn
<1>3. CASE PutsSecret(r.name, k)
  BY <1>1, <1>3 DEF CtlEffect, CtlAt, CtlStore, CtlWritesSecret, PutsSecret, CtlSleep
<1> QED BY <1>2, <1>3

LEMMA CtlOperatorRemovesSecret ==
    ASSUME NEW c, NEW r, CtlAt(c, r), r.name \in Instances, OperatorRemovesSecret(c)
    PROVE  CtlEffect(c)
<1>1. PICK k : k = None
  OBVIOUS
<1> QED
  BY <1>1, CtlSecretWritten DEF OperatorRemovesSecret, CtlAt

LEMMA CtlSecretUpdate ==
    ASSUME NEW c, NEW r, CtlAt(c, r), r \in CtlModifies, "key" \in r.sets, SecretUpdate(c)
    PROVE  CtlEffect(c)
<1>1. r.name \in Instances /\ r.key \in Nat /\ MayChange(r, "key")
  BY DEF CtlModifies, MayChange
<1>2. Finishes(c) /\ (PutsSecret(r.name, r.key) \/ ControlSame)
  BY DEF SecretUpdate, CtlAt
<1> QED
  BY <1>1, <1>2, CtlSecretWritten

LEMMA CtlSecretGet ==
    ASSUME NEW c, NEW r, CtlAt(c, r), r \in CtlModifies, r.at # "swap", "key" \in r.sets, SecretGet(c)
    PROVE  CtlEffect(c)
<1>1. CASE Finishes(c) /\ ControlSame
  BY <1>1, CtlEnds, CtlSameGoesOn
<1>2. CASE ~(Finishes(c) /\ ControlSame)
  <2>1. /\ creds[r.name] # None
        /\ ControlGoes(c, [r EXCEPT !.at = "swap", !.read = creds[r.name]])
    BY <1>2 DEF SecretGet, CtlAt
  <2>2. creds[r.name] \in CtlRead
    BY <2>1 DEF CtlAt, CtlInv, CtlTypes, CtlRead, CtlModifies
  <2>3. [r EXCEPT !.at = "swap", !.read = creds[r.name]]
        = [[r EXCEPT !.at = "swap"] EXCEPT !.read = creds[r.name]]
    OBVIOUS
  <2>4. PICK s : s = [r EXCEPT !.at = "swap"]
    OBVIOUS
  <2>5. s \in CtlModifies /\ s.at = "swap" /\ s.sets = r.sets
    BY <2>4 DEF CtlModifies
  <2>6. PICK q : q = [s EXCEPT !.read = creds[r.name]]
    OBVIOUS
  <2>7. q \in CtlModifies /\ q.at = "swap" /\ q.sets = r.sets
    BY <2>2, <2>5, <2>6 DEF CtlModifies
  <2>8. Goes(c, q) /\ ControlSame
    BY <2>1, <2>3, <2>4, <2>6 DEF ControlGoes
  <2>9. CtlGoesOn(c, r)
    BY <2>7, <2>8, CtlNextCall DEF CtlReqs
  <2> QED BY <2>8, <2>9, CtlSameGoesOn
<1> QED BY <1>1, <1>2

LEMMA CtlReads ==
    ASSUME NEW c, NEW r, CtlAt(c, r), r \in CtlModifies \cup CtlReboots, r.at = "first", backend \in Versioned,
           Reads(c)
    PROVE  CtlEffect(c)
<1>1. CASE ControlFails(c)
  BY <1>1, CtlFails
<1>2. CASE ~ControlFails(c)
  <2>0. r.name \in Instances
    BY DEF CtlModifies, CtlReboots
  <2>1. PICK o : o = inst[r.name]
    OBVIOUS
  <2>2. o # None /\ o \in CtlInsts /\ ControlGoes(c, [r EXCEPT !.at = "write", !.read = o])
    BY <1>2, <2>0, <2>1, CtlCurrent DEF Reads, CtlAt
  <2>3. [r EXCEPT !.at = "write", !.read = o] = [[r EXCEPT !.at = "write"] EXCEPT !.read = o]
    OBVIOUS
  <2>4. PICK s : s = [r EXCEPT !.at = "write"]
    OBVIOUS
  <2>5. s \in CtlModifies \cup CtlReboots /\ s.at = "write" /\ s.name = r.name
    BY <2>4 DEF CtlModifies, CtlReboots
  <2>6. PICK q : q = [s EXCEPT !.read = o]
    OBVIOUS
  <2>7. o \in CtlRead
    BY <2>2 DEF CtlRead
  <2>8. q \in CtlModifies \cup CtlReboots /\ q.at = "write" /\ q.name = r.name /\ q.read = o
    <3>1. CASE s \in CtlModifies
      BY <2>5, <2>6, <2>7, <3>1 DEF CtlModifies
    <3>2. CASE s \in CtlReboots
      BY <2>5, <2>6, <2>7, <3>2 DEF CtlReboots
    <3> QED BY <2>5, <3>1, <3>2
  <2>9. Goes(c, q) /\ ControlSame
    BY <2>2, <2>3, <2>4, <2>6 DEF ControlGoes
  <2>10. UNCHANGED <<inst, revision>>
    BY <2>9 DEF ControlSame, controlVars
  <2>11. CtlGoesOn(c, r)
    BY <2>1, <2>2, <2>8, <2>9, <2>10, CtlNextCall DEF CtlReqs
  <2> QED BY <2>9, <2>11, CtlSameGoesOn
<1> QED BY <1>1, <1>2

\* What a request that finds its version writes back is what is there.
LEMMA CtlStillThere ==
    ASSUME NEW c, NEW r, CtlAt(c, r), r.op \in {"modify", "reboot"}, r.at = "write", r.name \in Instances,
           StillCurrent(c)
    PROVE  inst[r.name] # None /\ r.read = inst[r.name] /\ r.read \in CtlInsts
<1>1. inst[r.name] # None /\ inst[r.name].rev = r.read.rev
  BY CtlCurrent DEF StillCurrent, CtlAt
<1> QED
  BY <1>1 DEF CtlAt, CtlInv, ReadFits

-----------------------------------------------------------------------------
(* Each call, for each backend *)

LEMMA CtlInmemCalls ==
    ASSUME NEW c, NEW r, CtlAt(c, r),
           \/ RdsInmemCreate(c) \/ RdsInmemDelete(c) \/ RdsInmemModify(c) \/ RdsInmemReboot(c)
           \/ RdsInmemSnapshot(c) \/ RdsInmemDropSnapshot(c) \/ RdsInmemRestore(c)
           \/ RdsInmemRestoreCreate(c)
           \/ CacheInmemCreate(c) \/ CacheInmemDelete(c) \/ CacheInmemModify(c) \/ CacheInmemReboot(c)
           \/ FunctionInmemCreate(c) \/ FunctionInmemDelete(c) \/ FunctionInmemUpdate(c)
    PROVE  CtlEffect(c)
<1>0. r = req[c] /\ r \in CtlReqs /\ sent \in Nat
  BY DEF CtlAt, CtlInv, CtlTypes
<1>1. CASE RdsInmemCreate(c) \/ CacheInmemCreate(c) \/ FunctionInmemCreate(c)
  <2>1. r \in CtlCreates /\ backend = "inmem" /\ InmemCreates(c, r.key)
    BY <1>0, <1>1, CtlKinds DEF RdsInmemCreate, CacheInmemCreate, FunctionInmemCreate, On, Is
  <2> QED BY <2>1, CtlInmemCreates DEF CtlCreates
<1>2. CASE RdsInmemDelete(c) \/ CacheInmemDelete(c) \/ FunctionInmemDelete(c)
  <2>1. r \in CtlDeletes /\ backend = "inmem" /\ InmemDeletes(c)
    BY <1>0, <1>2, CtlKinds DEF RdsInmemDelete, CacheInmemDelete, FunctionInmemDelete, On, Is
  <2> QED BY <2>1, CtlInmemChanges DEF CtlDeletes
<1>3. CASE RdsInmemModify(c) \/ CacheInmemModify(c) \/ FunctionInmemUpdate(c)
  <2>1. r \in CtlModifies /\ backend = "inmem" /\ InmemModifies(c)
    BY <1>0, <1>3, CtlKinds DEF RdsInmemModify, CacheInmemModify, FunctionInmemUpdate, On, Is
  <2>2. r.name \in Instances
    BY <2>1 DEF CtlModifies
  <2> QED BY <2>1, <2>2, CtlInmemChanges
<1>4. CASE RdsInmemReboot(c) \/ CacheInmemReboot(c)
  <2>1. r \in CtlReboots /\ backend = "inmem" /\ InmemReboots(c)
    BY <1>0, <1>4, CtlKinds DEF RdsInmemReboot, CacheInmemReboot, On, Is
  <2> QED BY <2>1, CtlInmemChanges DEF CtlReboots
<1>5. CASE RdsInmemSnapshot(c)
  <2>1. CASE ControlFails(c)
    BY <2>1, CtlFails
  <2>2. CASE ~ControlFails(c)
    <3>1. /\ r \in CtlSnapshots /\ backend = "inmem" /\ PutsSnapshot(r.snap, "creating")
          /\ Schedules("snapshot", r.snap) /\ Finishes(c)
      BY <1>0, <1>5, <2>2, CtlKinds DEF RdsInmemSnapshot, On, Is
    <3>2. <<"snapshot", r.snap>> \in Jobs
      BY <3>1 DEF CtlSnapshots, Jobs
    <3>3. CtlSleep
      BY <3>1, <3>2 DEF CtlSleep, Schedules
    <3> QED BY <3>1, <3>3, CtlPutsSnapshot, CtlEnds
  <2> QED BY <2>1, <2>2
<1>6. CASE RdsInmemDropSnapshot(c)
  BY <1>0, <1>6, CtlFails, CtlPutsSnapshot, CtlCalm, CtlEnds DEF RdsInmemDropSnapshot
<1>7. CASE RdsInmemRestore(c)
  <2>1. CASE ControlFails(c)
    BY <2>1, CtlFails
  <2>2. CASE ~ControlFails(c)
    <3>1. r \in CtlRestores /\ r.at = "first" /\ ControlGoes(c, [r EXCEPT !.at = "create"])
      BY <1>0, <1>7, <2>2, CtlKinds DEF RdsInmemRestore, On, Is
    <3>2. [r EXCEPT !.at = "create"] \in CtlReqs
      BY <3>1 DEF CtlRestores, CtlReqs
    <3> QED BY <3>1, <3>2, CtlMoves, CtlSameGoesOn DEF ControlGoes
  <2> QED BY <2>1, <2>2
<1>8. CASE RdsInmemRestoreCreate(c)
  <2>1. r \in CtlRestores /\ backend = "inmem" /\ InmemCreates(c, sent + 1) /\ sent + 1 \in Nat
    BY <1>0, <1>8, CtlKinds DEF RdsInmemRestoreCreate, Then, Is
  <2>2. r.name \in Instances
    BY <2>1 DEF CtlRestores
  <2>3. PICK k \in Nat : k = sent + 1
    BY <2>1
  <2> QED BY <2>1, <2>2, <2>3, CtlInmemCreates
<1> QED BY <1>1, <1>2, <1>3, <1>4, <1>5, <1>6, <1>7, <1>8

\* What was read is written back, with what the caller mentions.
LEMMA CtlWriteBack ==
    ASSUME NEW c, NEW r, CtlAt(c, r), r \in CtlModifies \cup CtlReboots, r.at = "write",
           \/ ControlFails(c)
           \/ /\ StillCurrent(c) /\ Calm /\ Finishes(c)
              /\ \/ Puts(r.name, r.read)
                 \/ /\ r \in CtlModifies
                    /\ \E s \in CtlStatuses : Puts(r.name, Modified(r.read, r, s))
    PROVE  CtlEffect(c)
<1>1. CASE ControlFails(c)
  BY <1>1, CtlFails
<1>2. CASE ~ControlFails(c)
  <2>1. StillCurrent(c) /\ CtlSleep /\ CtlGoesOn(c, r)
    BY <1>2, CtlCalm, CtlEnds
  <2>2. r.name \in Instances /\ r.op \in {"modify", "reboot"}
    BY DEF CtlModifies, CtlReboots
  <2>3. PICK o : o = inst[r.name]
    OBVIOUS
  <2>4. o # None /\ r.read = o /\ o \in CtlInsts
    BY <2>1, <2>2, <2>3, CtlStillThere
  <2>5. CASE Puts(r.name, o)
    BY <2>1, <2>2, <2>3, <2>4, <2>5, CtlPuts
  <2>6. CASE r \in CtlModifies /\ \E s \in CtlStatuses : Puts(r.name, Modified(o, r, s))
    <3>1. PICK s \in CtlStatuses : Puts(r.name, Modified(o, r, s))
      BY <2>6
    <3>2. PICK i : i = Modified(o, r, s)
      OBVIOUS
    <3>3. i \in CtlInsts /\ (i.size # o.size => "size" \in r.sets) /\ (i.key # o.key => "key" \in r.sets)
      BY <2>4, <2>6, <3>2, CtlModified
    <3>4. r.op = "modify"
      BY <2>6 DEF CtlModifies
    <3> QED BY <2>1, <2>2, <2>3, <3>1, <3>2, <3>3, <3>4, CtlPuts DEF MayChange
  <2> QED BY <1>2, <2>4, <2>5, <2>6
<1> QED BY <1>1, <1>2

\* The request to modify moves on to a later call.
LEMMA CtlModifyMoves ==
    ASSUME NEW c, NEW r, CtlAt(c, r), r \in CtlModifies, NEW at \in {"secret", "user", "configuration"},
           at # r.at, at # "configuration" => "key" \in r.sets, Goes(c, [r EXCEPT !.at = at])
    PROVE  CtlGoesOn(c, r)
<1>1. PICK q : q = [r EXCEPT !.at = at]
  OBVIOUS
<1>2. q \in CtlModifies /\ q.at = at /\ q.sets = r.sets
  BY <1>1 DEF CtlModifies
<1>3. q # r /\ q \in CtlReqs
  BY <1>2 DEF CtlReqs
<1> QED
  BY <1>1, <1>2, <1>3, CtlNextCall

LEMMA CtlCnpgModifyUpdate ==
    ASSUME NEW c, NEW r, CtlAt(c, r), CnpgModifyUpdate(c)
    PROVE  CtlEffect(c)
<1>1. r = req[c] /\ r \in CtlModifies /\ r.at = "write" /\ r.op = "modify"
  BY CtlKinds DEF CnpgModifyUpdate, Then, Is, CtlAt
<1>2. CASE ControlFails(c)
  BY <1>2, CtlFails
<1>3. CASE ~ControlFails(c)
  <2>1. PICK v : v = IF "size" \in r.sets THEN r.size ELSE r.read.size
    OBVIOUS
  <2>2. [r.read EXCEPT !.size = IF "size" \in r.sets THEN r.size ELSE @] = [r.read EXCEPT !.size = v]
    BY <2>1
  <2>3. /\ StillCurrent(c) /\ Puts(r.name, [r.read EXCEPT !.size = v]) /\ Calm
        /\ IF "key" \in r.sets THEN Goes(c, [r EXCEPT !.at = "secret"]) ELSE Finishes(c)
    BY <1>1, <1>3, <2>2 DEF CnpgModifyUpdate
  <2>4. r.name \in Instances /\ r.size \in Nat
    BY <1>1 DEF CtlModifies
  <2>5. PICK o : o = inst[r.name]
    OBVIOUS
  <2>6. o # None /\ r.read = o /\ o \in CtlInsts
    BY <1>1, <2>3, <2>4, <2>5, CtlStillThere
  <2>7. v \in Nat /\ (v # o.size => "size" \in r.sets)
    BY <2>1, <2>4, <2>6 DEF CtlInsts
  <2>8. PICK i : i = [o EXCEPT !.size = v]
    OBVIOUS
  <2>9. i \in CtlInsts /\ i.size = v /\ i.key = o.key
    BY <2>6, <2>7, <2>8 DEF CtlInsts
  <2>10. CtlGoesOn(c, r)
    BY <1>1, <2>3, CtlEnds, CtlModifyMoves
  <2> QED BY <1>1, <2>3, <2>4, <2>5, <2>6, <2>7, <2>8, <2>9, <2>10, CtlPuts, CtlCalm DEF MayChange
<1> QED BY <1>2, <1>3

LEMMA CtlCnpgCalls ==
    ASSUME NEW c, NEW r, CtlAt(c, r),
           \/ CnpgCreateSecret(c) \/ CnpgCreateCluster(c) \/ CnpgDelete(c) \/ CnpgDeleteSecret(c)
           \/ CnpgModify(c) \/ CnpgModifyUpdate(c) \/ CnpgModifySecretGet(c) \/ CnpgModifySecret(c)
           \/ CnpgReboot(c) \/ CnpgRebootUpdate(c) \/ CnpgSnapshot(c) \/ CnpgDropSnapshot(c)
           \/ CnpgRestore(c) \/ CnpgRestoreCluster(c)
    PROVE  CtlEffect(c)
<1>0. r = req[c] /\ r \in CtlReqs /\ ReadFits(r)
  BY DEF CtlAt, CtlInv
<1>1. CASE CnpgCreateSecret(c)
  BY <1>0, <1>1, CtlKinds, CtlOperatorSecret DEF CnpgCreateSecret, On, Is
<1>2. CASE CnpgCreateCluster(c)
  BY <1>0, <1>2, CtlKinds, CtlOperatorResource DEF CnpgCreateCluster, Then, Is, CtlCreates
<1>3. CASE CnpgDelete(c)
  BY <1>0, <1>3, CtlKinds, CtlOperatorRemoves DEF CnpgDelete, On, Is
<1>4. CASE CnpgDeleteSecret(c)
  BY <1>0, <1>4, CtlKinds, CtlOperatorRemovesSecret DEF CnpgDeleteSecret, Then, Is, CtlDeletes
<1>5. CASE CnpgModify(c) \/ CnpgReboot(c)
  BY <1>0, <1>5, CtlKinds, CtlReads DEF CnpgModify, CnpgReboot, On, Is, Versioned
<1>6. CASE CnpgModifyUpdate(c)
  BY <1>6, CtlCnpgModifyUpdate
<1>7. CASE CnpgModifySecretGet(c)
  BY <1>0, <1>7, CtlKinds, CtlSecretGet DEF CnpgModifySecretGet, Then, Is, ReadFits
<1>8. CASE CnpgModifySecret(c)
  BY <1>0, <1>8, CtlKinds, CtlSecretUpdate DEF CnpgModifySecret, Then, Is, ReadFits
<1>9. CASE CnpgRebootUpdate(c)
  BY <1>0, <1>9, CtlKinds, CtlWriteBack DEF CnpgRebootUpdate, Then, Is
<1>10. CASE CnpgSnapshot(c)
  BY <1>0, <1>10, CtlFails, CtlPutsSnapshot, CtlCalm, CtlEnds DEF CnpgSnapshot
<1>11. CASE CnpgDropSnapshot(c)
  BY <1>0, <1>11, CtlFails, CtlPutsSnapshot, CtlCalm, CtlEnds DEF CnpgDropSnapshot
<1>12. CASE CnpgRestore(c)
  <2>1. CASE ControlFails(c)
    BY <2>1, CtlFails
  <2>2. CASE ~ControlFails(c)
    <3>1. r \in CtlRestores /\ r.at = "first" /\ ControlGoes(c, [r EXCEPT !.at = "resource"])
      BY <1>0, <1>12, <2>2, CtlKinds DEF CnpgRestore, On, Is
    <3>2. [r EXCEPT !.at = "resource"] \in CtlReqs
      BY <3>1 DEF CtlRestores, CtlReqs
    <3> QED BY <3>1, <3>2, CtlMoves, CtlSameGoesOn DEF ControlGoes
  <2> QED BY <2>1, <2>2
<1>13. CASE CnpgRestoreCluster(c)
  BY <1>0, <1>13, CtlKinds, CtlOperatorResource DEF CnpgRestoreCluster, Then, Is, CtlRestores
<1> QED BY <1>1, <1>2, <1>3, <1>4, <1>5, <1>6, <1>7, <1>8, <1>9, <1>10, <1>11, <1>12, <1>13

LEMMA CtlKubernetesCalls ==
    ASSUME NEW c, NEW r, CtlAt(c, r),
           \/ RedisopCreateSecret(c) \/ RedisopCreateRedis(c) \/ RedisopDelete(c) \/ RedisopDeleteSecret(c)
           \/ RedisopModify(c) \/ RedisopModifySecret(c) \/ RedisopReboot(c) \/ RedisopRebootUpdate(c)
           \/ KnativeCreate(c) \/ KnativeDelete(c) \/ KnativeUpdate(c) \/ KnativeUpdateWrite(c)
    PROVE  CtlEffect(c)
<1>0. r = req[c] /\ r \in CtlReqs /\ ReadFits(r)
  BY DEF CtlAt, CtlInv
<1>1. CASE RedisopCreateSecret(c)
  BY <1>0, <1>1, CtlKinds, CtlOperatorSecret DEF RedisopCreateSecret, On, Is
<1>2. CASE RedisopCreateRedis(c)
  BY <1>0, <1>2, CtlKinds, CtlOperatorResource DEF RedisopCreateRedis, Then, Is, CtlCreates
<1>3. CASE RedisopDelete(c)
  BY <1>0, <1>3, CtlKinds, CtlOperatorRemoves DEF RedisopDelete, On, Is
<1>4. CASE RedisopDeleteSecret(c)
  BY <1>0, <1>4, CtlKinds, CtlOperatorRemovesSecret DEF RedisopDeleteSecret, Then, Is, CtlDeletes
<1>5. CASE RedisopModify(c)
  <2>1. r \in CtlModifies /\ r.at = "first"
    BY <1>0, <1>5, CtlKinds DEF RedisopModify, On, Is
  <2>2. CASE "key" \in r.sets
    BY <1>0, <1>5, <2>1, <2>2, CtlSecretGet DEF RedisopModify
  <2>3. CASE "key" \notin r.sets
    BY <1>0, <1>5, <2>3, CtlEnds, CtlSameGoesOn DEF RedisopModify
  <2> QED BY <2>2, <2>3
<1>6. CASE RedisopModifySecret(c)
  BY <1>0, <1>6, CtlKinds, CtlSecretUpdate DEF RedisopModifySecret, Then, Is, ReadFits
<1>7. CASE RedisopReboot(c) \/ KnativeUpdate(c)
  BY <1>0, <1>7, CtlKinds, CtlReads DEF RedisopReboot, KnativeUpdate, On, Is, Versioned
<1>8. CASE RedisopRebootUpdate(c)
  BY <1>0, <1>8, CtlKinds, CtlWriteBack DEF RedisopRebootUpdate, Then, Is
<1>9. CASE KnativeUpdateWrite(c)
  BY <1>0, <1>9, CtlKinds, CtlWriteBack DEF KnativeUpdateWrite, Then, Is, CtlStatuses
<1>10. CASE KnativeCreate(c)
  <2>1. CASE ControlFails(c)
    BY <2>1, CtlFails
  <2>2. CASE ~ControlFails(c)
    <3>1. r \in CtlCreates
      BY <1>0, <1>10, CtlKinds DEF KnativeCreate, On, Is
    <3>2. r.name \in Instances /\ r.key \in Nat
      BY <3>1 DEF CtlCreates
    <3>3. PICK i \in CtlInsts : i = NewInstance(r.key)
      BY <3>2, CtlNew
    <3>4. inst[r.name] = None /\ Puts(r.name, i) /\ Calm /\ Finishes(c)
      BY <1>0, <1>10, <2>2, <3>2, <3>3, CtlCurrent DEF KnativeCreate
    <3> QED BY <3>2, <3>4, CtlPuts, CtlCalm, CtlEnds
  <2> QED BY <2>1, <2>2
<1>11. CASE KnativeDelete(c)
  <2>1. CASE ControlFails(c)
    BY <2>1, CtlFails
  <2>2. CASE ~ControlFails(c)
    <3>1. r \in CtlDeletes
      BY <1>0, <1>11, CtlKinds DEF KnativeDelete, On, Is
    <3>2. r.name \in Instances
      BY <3>1 DEF CtlDeletes
    <3>3. PICK i : i = None
      OBVIOUS
    <3>4. Puts(r.name, i) /\ Calm /\ Finishes(c)
      BY <1>0, <1>11, <2>2, <3>3 DEF KnativeDelete
    <3> QED BY <3>2, <3>3, <3>4, CtlPuts, CtlCalm, CtlEnds
  <2> QED BY <2>1, <2>2
<1> QED BY <1>1, <1>2, <1>3, <1>4, <1>5, <1>6, <1>7, <1>8, <1>9, <1>10, <1>11

LEMMA CtlWithoutKey ==
    ASSUME NEW r \in CtlModifies
    PROVE  /\ WithoutKey(r) \in CtlModifies /\ WithoutKey(r).sets \subseteq r.sets
           /\ "key" \notin WithoutKey(r).sets
<1>1. PICK s : s = r.sets \ {"key"}
  OBVIOUS
<1>2. s \in SUBSET Fields /\ s \subseteq r.sets /\ "key" \notin s
  BY <1>1 DEF CtlModifies
<1>3. PICK q : q = [r EXCEPT !.sets = s]
  OBVIOUS
<1>4. q \in CtlModifies /\ q.sets = s
  BY <1>2, <1>3 DEF CtlModifies
<1>5. WithoutKey(r) = q
  BY <1>1, <1>3 DEF WithoutKey
<1> QED
  BY <1>2, <1>4, <1>5

\* A first call that changes all but the key, and goes on.
LEMMA CtlPatches ==
    ASSUME NEW c, NEW r, CtlAt(c, r), r \in CtlModifies, inst[r.name] # None,
           Puts(r.name, Modified(inst[r.name], WithoutKey(r), "modifying")), Calm, CtlGoesOn(c, r)
    PROVE  CtlEffect(c)
<1>1. r.name \in Instances /\ r.op = "modify"
  BY DEF CtlModifies
<1>2. PICK o : o = inst[r.name]
  OBVIOUS
<1>3. o \in CtlInsts
  BY <1>1, <1>2, CtlCurrent
<1>4. PICK q : q = WithoutKey(r)
  OBVIOUS
<1>5. q \in CtlModifies /\ q.sets \subseteq r.sets
  BY <1>4, CtlWithoutKey
<1>6. PICK i : i = Modified(o, q, "modifying")
  OBVIOUS
<1>7. i \in CtlInsts /\ (i.size # o.size => "size" \in q.sets) /\ (i.key # o.key => "key" \in q.sets)
  BY <1>3, <1>5, <1>6, CtlModified DEF CtlStatuses
<1>8. Puts(r.name, i)
  BY <1>2, <1>4, <1>6
<1> QED
  BY <1>1, <1>2, <1>5, <1>7, <1>8, CtlPuts, CtlCalm DEF MayChange

LEMMA CtlCloudCreateCalls ==
    ASSUME NEW c, NEW r, CtlAt(c, r),
           \/ RdsAwsCreate(c) \/ RdsGcpCreate(c) \/ RdsAzureCreate(c) \/ RdsAwsRestore(c)
           \/ CacheAwsCreate(c) \/ CacheGcpCreate(c) \/ CacheAzureCreate(c)
           \/ FunctionAwsCreate(c) \/ FunctionGcpCreate(c) \/ FunctionAzureCreate(c)
    PROVE  CtlEffect(c)
<1>0. r = req[c] /\ r \in CtlReqs /\ CloudsKey \in Nat
  BY RequestsAreCounted DEF CtlAt, CloudsKey
<1>1. CASE RdsAwsCreate(c) \/ RdsGcpCreate(c) \/ RdsAzureCreate(c) \/ CacheAwsCreate(c)
           \/ FunctionAwsCreate(c) \/ FunctionGcpCreate(c) \/ FunctionAzureCreate(c)
  <2>1. r.op = "create" /\ (CloudCreates(c, r.key) \/ (backend = "azure" /\ CloudReplaces(c, r.key)))
    BY <1>0, <1>1 DEF RdsAwsCreate, RdsGcpCreate, RdsAzureCreate, CacheAwsCreate, FunctionAwsCreate,
                      FunctionGcpCreate, FunctionAzureCreate, On, Is
  <2>2. r.name \in Instances /\ r.key \in Nat
    BY <1>0, <2>1, CtlKinds DEF CtlCreates
  <2> QED BY <2>1, <2>2, CtlCloudMakes
<1>2. CASE CacheGcpCreate(c) \/ CacheAzureCreate(c)
  <2>1. r.op = "create" /\ (CloudCreates(c, CloudsKey) \/ (backend = "azure" /\ CloudReplaces(c, CloudsKey)))
    BY <1>0, <1>2 DEF CacheGcpCreate, CacheAzureCreate, On, Is
  <2>2. r.name \in Instances
    BY <1>0, <2>1, CtlKinds DEF CtlCreates
  <2> QED BY <1>0, <2>1, <2>2, CtlCloudMakes
<1>3. CASE RdsAwsRestore(c)
  <2>1. r.op = "restore" /\ (ControlFails(c) \/ CloudCreates(c, CloudsKey))
    BY <1>0, <1>3 DEF RdsAwsRestore, On, Is
  <2>2. r.name \in Instances
    BY <1>0, <2>1, CtlKinds DEF CtlRestores
  <2> QED BY <1>0, <2>1, <2>2, CtlCloudMakes, CtlFails
<1> QED BY <1>1, <1>2, <1>3

LEMMA CtlCloudChangeCalls ==
    ASSUME NEW c, NEW r, CtlAt(c, r),
           \/ RdsAwsDelete(c) \/ RdsGcpDelete(c) \/ RdsAzureDelete(c)
           \/ CacheAwsDelete(c) \/ CacheGcpDelete(c) \/ CacheAzureDelete(c)
           \/ FunctionAwsDelete(c) \/ FunctionGcpDelete(c) \/ FunctionAzureDelete(c)
           \/ RdsAwsReboot(c) \/ RdsGcpReboot(c) \/ RdsAzureReboot(c)
           \/ CacheAwsReboot(c) \/ CacheGcpReboot(c) \/ CacheAzureReboot(c)
    PROVE  CtlEffect(c)
<1>0. r = req[c] /\ r \in CtlReqs
  BY DEF CtlAt
<1>1. (r.op = "delete" /\ CloudDeletes(c)) \/ (r.op = "reboot" /\ CloudReboots(c))
  BY <1>0 DEF RdsAwsDelete, RdsGcpDelete, RdsAzureDelete, CacheAwsDelete, CacheGcpDelete, CacheAzureDelete,
              FunctionAwsDelete, FunctionGcpDelete, FunctionAzureDelete, RdsAwsReboot, RdsGcpReboot,
              RdsAzureReboot, CacheAwsReboot, CacheGcpReboot, CacheAzureReboot, On, Is
<1>2. r.name \in Instances
  BY <1>0, <1>1, CtlKinds DEF CtlDeletes, CtlReboots
<1> QED BY <1>1, <1>2, CtlCloudChanges

LEMMA CtlCloudSnapshotCalls ==
    ASSUME NEW c, NEW r, CtlAt(c, r),
           \/ RdsAwsSnapshot(c) \/ RdsGcpSnapshot(c) \/ RdsAzureSnapshot(c)
           \/ RdsAwsDropSnapshot(c) \/ RdsGcpDropSnapshot(c) \/ RdsAzureDropSnapshot(c)
           \/ RdsGcpRestore(c) \/ RdsAzureRestore(c)
    PROVE  CtlEffect(c)
<1>1. CASE RdsAwsSnapshot(c) \/ RdsGcpSnapshot(c) \/ RdsAzureSnapshot(c)
  <2>1. CASE RdsGcpSnapshot(c)
    BY <2>1, CtlFails, CtlPutsSnapshot, CtlCalm, CtlEnds DEF RdsGcpSnapshot
  <2>2. CASE CloudSnapshots(c)
    BY <2>2, CtlFails, CtlPutsSnapshot, CtlCalm, CtlEnds DEF CloudSnapshots
  <2> QED BY <1>1, <2>1, <2>2 DEF RdsAwsSnapshot, RdsAzureSnapshot
<1>2. CASE RdsAwsDropSnapshot(c)
  BY <1>2, CtlFails, CtlPutsSnapshot, CtlCalm, CtlEnds DEF RdsAwsDropSnapshot
<1>3. CASE RdsGcpDropSnapshot(c) \/ RdsAzureDropSnapshot(c) \/ RdsGcpRestore(c) \/ RdsAzureRestore(c)
  BY <1>3, CtlFails DEF RdsGcpDropSnapshot, RdsAzureDropSnapshot, RdsGcpRestore, RdsAzureRestore
<1> QED BY <1>1, <1>2, <1>3

LEMMA CtlCloudModifyCalls ==
    ASSUME NEW c, NEW r, CtlAt(c, r),
           \/ RdsAwsModify(c) \/ RdsAzureModify(c) \/ CacheAwsModify(c) \/ CacheGcpModify(c)
           \/ CacheAzureModify(c) \/ FunctionAwsUpdateConfiguration(c) \/ FunctionAzureUpdate(c)
           \/ RdsGcpModify(c) \/ RdsGcpModifyUser(c) \/ FunctionAwsUpdateCode(c)
           \/ FunctionGcpUpdate(c) \/ FunctionGcpUpdatePatch(c)
    PROVE  CtlEffect(c)
<1>0. r = req[c] /\ r \in CtlReqs /\ r.op = "modify" /\ ReadFits(r)
  BY DEF CtlAt, CtlInv, RdsAwsModify, RdsAzureModify, CacheAwsModify, CacheGcpModify, CacheAzureModify,
         FunctionAwsUpdateConfiguration, FunctionAzureUpdate, RdsGcpModify, RdsGcpModifyUser,
         FunctionAwsUpdateCode, FunctionGcpUpdate, FunctionGcpUpdatePatch, On, Then, Is
<1>00. r \in CtlModifies
  BY <1>0, CtlKinds
<1>01. r.name \in Instances /\ r.size \in Nat /\ r.key \in Nat
  BY <1>00 DEF CtlModifies
<1>02. Current(c) = inst[r.name]
  BY <1>01, CtlCurrent
<1>1. CASE RdsAwsModify(c) \/ RdsAzureModify(c) \/ CacheAwsModify(c)
  BY <1>0, <1>00, <1>1, CtlCloudModifies DEF RdsAwsModify, RdsAzureModify, CacheAwsModify
<1>2. CASE CacheGcpModify(c) \/ CacheAzureModify(c)
  BY <1>0, <1>00, <1>2, CtlCloudModifies, CtlWithoutKey DEF CacheGcpModify, CacheAzureModify
<1>3. CASE FunctionAwsUpdateConfiguration(c)
  <2>1. CASE "key" \in r.sets
    <3>1. PICK q : q = [r EXCEPT !.sets = {"key"}]
      OBVIOUS
    <3>2. q \in CtlModifies /\ q.sets = {"key"}
      BY <1>00, <3>1 DEF CtlModifies, Fields
    <3> QED BY <1>0, <1>00, <1>3, <2>1, <3>1, <3>2, CtlCloudModifies DEF FunctionAwsUpdateConfiguration
  <2>2. CASE "key" \notin r.sets
    BY <1>0, <1>3, <2>2, CtlEnds, CtlSameGoesOn DEF FunctionAwsUpdateConfiguration
  <2> QED BY <2>1, <2>2
<1>4. CASE FunctionAzureUpdate(c)
  <2>1. PICK s : s = IF r.sets = {} THEN {} ELSE Fields
    OBVIOUS
  <2>2. PICK v : v = IF "size" \in r.sets THEN r.size ELSE 0
    OBVIOUS
  <2>3. s \in SUBSET Fields /\ v \in Nat
    BY <1>01, <2>1, <2>2
  <2>4. PICK p : p = [r EXCEPT !.sets = s]
    OBVIOUS
  <2>5. p \in CtlModifies /\ p.size = r.size
    BY <1>00, <2>3, <2>4 DEF CtlModifies
  <2>6. PICK q : q = [p EXCEPT !.size = v]
    OBVIOUS
  <2>7. q \in CtlModifies
    BY <2>3, <2>5, <2>6 DEF CtlModifies
  <2>8. [r EXCEPT !.sets = IF @ = {} THEN {} ELSE Fields, !.size = IF "size" \in r.sets THEN @ ELSE 0]
        = [[r EXCEPT !.sets = s] EXCEPT !.size = v]
    BY <1>00, <2>1, <2>2 DEF CtlModifies
  <2>9. backend = "azure" /\ CloudModifies(c, q)
    BY <1>0, <1>4, <2>4, <2>6, <2>8 DEF FunctionAzureUpdate, On, Is
  <2> QED BY <1>00, <2>7, <2>9, CtlCloudModifies
<1>5. CASE RdsGcpModify(c)
  <2>1. CASE ControlFails(c)
    BY <2>1, CtlFails
  <2>2. CASE ~ControlFails(c)
    <3>1. /\ r.at = "first" /\ inst[r.name] # None /\ Calm
          /\ Puts(r.name, Modified(inst[r.name], WithoutKey(r), "modifying"))
          /\ IF "key" \in r.sets THEN Goes(c, [r EXCEPT !.at = "user"]) ELSE Finishes(c)
      BY <1>0, <1>02, <1>5, <2>2 DEF RdsGcpModify, On, Is
    <3>2. CtlGoesOn(c, r)
      BY <1>00, <3>1, CtlEnds, CtlModifyMoves
    <3> QED BY <1>00, <3>1, <3>2, CtlPatches
  <2> QED BY <2>1, <2>2
<1>6. CASE RdsGcpModifyUser(c)
  <2>1. "key" \in r.sets /\ CtlGoesOn(c, r)
    BY <1>0, <1>6, CtlEnds DEF RdsGcpModifyUser, Then, Is, ReadFits
  <2>2. CASE ControlSame
    BY <2>1, <2>2, CtlSameGoesOn
  <2>3. CASE ~ControlSame
    <3>1. PICK o : o = inst[r.name]
      OBVIOUS
    <3>2. o # None /\ Puts(r.name, [o EXCEPT !.key = r.key]) /\ Calm
      BY <1>0, <1>02, <1>6, <2>3, <3>1 DEF RdsGcpModifyUser
    <3>3. o \in CtlInsts
      BY <1>01, <3>1, <3>2, CtlCurrent
    <3>4. PICK i : i = [o EXCEPT !.key = r.key]
      OBVIOUS
    <3>5. i \in CtlInsts /\ i.size = o.size
      BY <1>01, <3>3, <3>4 DEF CtlInsts
    <3> QED BY <1>0, <1>01, <2>1, <3>1, <3>2, <3>4, <3>5, CtlPuts, CtlCalm DEF MayChange
  <2> QED BY <2>2, <2>3
<1>7. CASE FunctionAwsUpdateCode(c)
  <2>0. r.at = "first"
    BY <1>0, <1>7 DEF FunctionAwsUpdateCode, On, Is
  <2>1. CASE ControlFails(c)
    BY <2>1, CtlFails
  <2>2. CASE ControlGoes(c, [r EXCEPT !.at = "configuration"])
    <3>1. CtlGoesOn(c, r)
      BY <1>00, <2>0, <2>2, CtlModifyMoves DEF ControlGoes
    <3> QED BY <2>2, <3>1, CtlSameGoesOn DEF ControlGoes
  <2>3. CASE ~ControlFails(c) /\ ~ControlGoes(c, [r EXCEPT !.at = "configuration"])
    <3>1. /\ inst[r.name] # None /\ Calm
          /\ Puts(r.name, Modified(inst[r.name], WithoutKey(r), "modifying"))
          /\ Goes(c, [r EXCEPT !.at = "configuration"])
      BY <1>0, <1>02, <1>7, <2>3 DEF FunctionAwsUpdateCode
    <3>2. CtlGoesOn(c, r)
      BY <1>00, <2>0, <3>1, CtlModifyMoves
    <3> QED BY <1>00, <3>1, <3>2, CtlPatches
  <2> QED BY <2>1, <2>2, <2>3
<1>8. CASE FunctionGcpUpdate(c)
  BY <1>0, <1>00, <1>8, CtlReads DEF FunctionGcpUpdate, On, Is, Versioned
<1>9. CASE FunctionGcpUpdatePatch(c)
  <2>1. /\ r.at = "write"
        /\ \/ ControlFails(c)
           \/ StillCurrent(c) /\ CloudSets(c, Modified(r.read, r, "modifying"))
    BY <1>0, <1>9 DEF FunctionGcpUpdatePatch, Then, Is
  <2> QED BY <1>0, <1>00, <2>1, CtlWriteBack DEF CloudSets, CtlStatuses
<1> QED BY <1>1, <1>2, <1>3, <1>4, <1>5, <1>6, <1>7, <1>8, <1>9

\* Every call of a request.
LEMMA CtlCalls ==
    ASSUME NEW c \in Clients, CtlInv, ControlCall(c)
    PROVE  CtlEffect(c)
<1>1. PICK r : r = req[c]
  OBVIOUS
<1>2. r.op # "idle" => CtlAt(c, r)
  BY <1>1 DEF CtlAt, CtlInv, CtlTypes, Idle
<1>3. CASE RdsInmemCreate(c) \/ RdsInmemDelete(c) \/ RdsInmemModify(c) \/ RdsInmemReboot(c) \/
             RdsInmemSnapshot(c) \/ RdsInmemDropSnapshot(c) \/ RdsInmemRestore(c) \/
             RdsInmemRestoreCreate(c) \/ CacheInmemCreate(c) \/ CacheInmemDelete(c) \/
             CacheInmemModify(c) \/ CacheInmemReboot(c) \/ FunctionInmemCreate(c) \/
             FunctionInmemDelete(c) \/ FunctionInmemUpdate(c)
  <2>1. r.op # "idle"
    BY <1>1, <1>3
    DEF RdsInmemCreate, RdsInmemDelete, RdsInmemModify, RdsInmemReboot, RdsInmemSnapshot,
        RdsInmemDropSnapshot, RdsInmemRestore, RdsInmemRestoreCreate, CacheInmemCreate,
        CacheInmemDelete, CacheInmemModify, CacheInmemReboot, FunctionInmemCreate,
        FunctionInmemDelete, FunctionInmemUpdate, On, Then, Is
  <2> QED BY <1>2, <1>3, <2>1, CtlInmemCalls
<1>4. CASE CnpgCreateSecret(c) \/ CnpgCreateCluster(c) \/ CnpgDelete(c) \/ CnpgDeleteSecret(c) \/
             CnpgModify(c) \/ CnpgModifyUpdate(c) \/ CnpgModifySecretGet(c) \/ CnpgModifySecret(c) \/
             CnpgReboot(c) \/ CnpgRebootUpdate(c) \/ CnpgSnapshot(c) \/ CnpgDropSnapshot(c) \/
             CnpgRestore(c) \/ CnpgRestoreCluster(c)
  <2>1. r.op # "idle"
    BY <1>1, <1>4
    DEF CnpgCreateSecret, CnpgCreateCluster, CnpgDelete, CnpgDeleteSecret, CnpgModify,
        CnpgModifyUpdate, CnpgModifySecretGet, CnpgModifySecret, CnpgReboot,
        CnpgRebootUpdate, CnpgSnapshot, CnpgDropSnapshot, CnpgRestore, CnpgRestoreCluster,
        On, Then, Is
  <2> QED BY <1>2, <1>4, <2>1, CtlCnpgCalls
<1>5. CASE RedisopCreateSecret(c) \/ RedisopCreateRedis(c) \/ RedisopDelete(c) \/
             RedisopDeleteSecret(c) \/ RedisopModify(c) \/ RedisopModifySecret(c) \/ RedisopReboot(c)
             \/ RedisopRebootUpdate(c) \/ KnativeCreate(c) \/ KnativeDelete(c) \/ KnativeUpdate(c) \/
             KnativeUpdateWrite(c)
  <2>1. r.op # "idle"
    BY <1>1, <1>5
    DEF RedisopCreateSecret, RedisopCreateRedis, RedisopDelete, RedisopDeleteSecret,
        RedisopModify, RedisopModifySecret, RedisopReboot, RedisopRebootUpdate,
        KnativeCreate, KnativeDelete, KnativeUpdate, KnativeUpdateWrite, On, Then, Is
  <2> QED BY <1>2, <1>5, <2>1, CtlKubernetesCalls
<1>6. CASE RdsAwsCreate(c) \/ RdsGcpCreate(c) \/ RdsAzureCreate(c) \/ RdsAwsRestore(c) \/
             CacheAwsCreate(c) \/ CacheGcpCreate(c) \/ CacheAzureCreate(c) \/ FunctionAwsCreate(c) \/
             FunctionGcpCreate(c) \/ FunctionAzureCreate(c)
  <2>1. r.op # "idle"
    BY <1>1, <1>6
    DEF RdsAwsCreate, RdsGcpCreate, RdsAzureCreate, RdsAwsRestore, CacheAwsCreate,
        CacheGcpCreate, CacheAzureCreate, FunctionAwsCreate, FunctionGcpCreate,
        FunctionAzureCreate, On, Then, Is
  <2> QED BY <1>2, <1>6, <2>1, CtlCloudCreateCalls
<1>7. CASE RdsAwsDelete(c) \/ RdsGcpDelete(c) \/ RdsAzureDelete(c) \/ CacheAwsDelete(c) \/
             CacheGcpDelete(c) \/ CacheAzureDelete(c) \/ FunctionAwsDelete(c) \/ FunctionGcpDelete(c)
             \/ FunctionAzureDelete(c) \/ RdsAwsReboot(c) \/ RdsGcpReboot(c) \/ RdsAzureReboot(c) \/
             CacheAwsReboot(c) \/ CacheGcpReboot(c) \/ CacheAzureReboot(c)
  <2>1. r.op # "idle"
    BY <1>1, <1>7
    DEF RdsAwsDelete, RdsGcpDelete, RdsAzureDelete, CacheAwsDelete, CacheGcpDelete,
        CacheAzureDelete, FunctionAwsDelete, FunctionGcpDelete, FunctionAzureDelete,
        RdsAwsReboot, RdsGcpReboot, RdsAzureReboot, CacheAwsReboot, CacheGcpReboot,
        CacheAzureReboot, On, Then, Is
  <2> QED BY <1>2, <1>7, <2>1, CtlCloudChangeCalls
<1>8. CASE RdsAwsSnapshot(c) \/ RdsGcpSnapshot(c) \/ RdsAzureSnapshot(c) \/ RdsAwsDropSnapshot(c)
             \/ RdsGcpDropSnapshot(c) \/ RdsAzureDropSnapshot(c) \/ RdsGcpRestore(c) \/
             RdsAzureRestore(c)
  <2>1. r.op # "idle"
    BY <1>1, <1>8
    DEF RdsAwsSnapshot, RdsGcpSnapshot, RdsAzureSnapshot, RdsAwsDropSnapshot,
        RdsGcpDropSnapshot, RdsAzureDropSnapshot, RdsGcpRestore, RdsAzureRestore, On, Then,
        Is
  <2> QED BY <1>2, <1>8, <2>1, CtlCloudSnapshotCalls
<1>9. CASE RdsAwsModify(c) \/ RdsAzureModify(c) \/ CacheAwsModify(c) \/ CacheGcpModify(c) \/
             CacheAzureModify(c) \/ FunctionAwsUpdateConfiguration(c) \/ FunctionAzureUpdate(c) \/
             RdsGcpModify(c) \/ RdsGcpModifyUser(c) \/ FunctionAwsUpdateCode(c) \/
             FunctionGcpUpdate(c) \/ FunctionGcpUpdatePatch(c)
  <2>1. r.op # "idle"
    BY <1>1, <1>9
    DEF RdsAwsModify, RdsAzureModify, CacheAwsModify, CacheGcpModify, CacheAzureModify,
        FunctionAwsUpdateConfiguration, FunctionAzureUpdate, RdsGcpModify, RdsGcpModifyUser,
        FunctionAwsUpdateCode, FunctionGcpUpdate, FunctionGcpUpdatePatch, On, Then, Is
  <2> QED BY <1>2, <1>9, <2>1, CtlCloudModifyCalls
<1> QED
  BY <1>3, <1>4, <1>5, <1>6, <1>7, <1>8, <1>9 DEF ControlCall

-----------------------------------------------------------------------------
(* A step keeps the invariant *)

\* A changed instance has a version that nobody can have read.
CtlMoved ==
    /\ inst' \in [Instances -> CtlInsts \cup {None}]
    /\ creds' \in [Instances -> CtlSecrets \cup {None}]
    /\ revision' \in Nat /\ revision <= revision'
    /\ backend \in Versioned =>
          \A n \in Instances : inst'[n] # inst[n] /\ inst'[n] # None =>
             inst'[n].rev = revision' /\ revision < revision'

LEMMA CtlPutMoves ==
    ASSUME CtlInv, NEW n \in Instances, NEW i \in CtlInsts \cup {None}, Puts(n, i)
    PROVE  /\ CtlMoved /\ sent' = sent
           /\ inst'[n] # None => i # None /\ inst'[n].size = i.size /\ inst'[n].key = i.key
<1>1. revision \in Nat /\ inst \in [Instances -> CtlInsts \cup {None}] /\ creds' = creds
      /\ creds \in [Instances -> CtlSecrets \cup {None}]
  BY DEF CtlInv, CtlTypes, Puts
<1>2. PICK v : v = NextRevision
  OBVIOUS
<1>3. v \in Nat /\ revision <= v /\ (backend \in Versioned => revision < v) /\ revision' = v
  BY <1>1, <1>2 DEF NextRevision, Puts
<1>4. PICK j : j = IF i = None THEN None ELSE [i EXCEPT !.rev = v]
  OBVIOUS
<1>5. CASE i = None
  BY <1>1, <1>2, <1>3, <1>4, <1>5 DEF Puts, CtlMoved
<1>6. CASE i # None
  <2>1. j \in CtlInsts /\ j.rev = v /\ j.size = i.size /\ j.key = i.key
    BY <1>3, <1>4, <1>6 DEF CtlInsts
  <2>2. inst' = [inst EXCEPT ![n] = j]
    BY <1>2, <1>4 DEF Puts
  <2>3. inst' \in [Instances -> CtlInsts \cup {None}] /\ inst'[n] = j
        /\ \A m \in Instances \ {n} : inst'[m] = inst[m]
    BY <1>1, <2>1, <2>2
  <2> QED BY <1>1, <1>3, <1>6, <2>1, <2>3 DEF Puts, CtlMoved
<1> QED BY <1>5, <1>6

LEMMA CtlPutSecretMoves ==
    ASSUME CtlInv, NEW n \in Instances, NEW k \in Nat \cup {None}, PutsSecret(n, k)
    PROVE  /\ CtlMoved /\ sent' = sent /\ inst' = inst
           /\ creds'[n] # None => k # None
           /\ \A m \in Instances \ {n} : creds'[m] = creds[m]
<1>1. revision \in Nat /\ inst \in [Instances -> CtlInsts \cup {None}] /\ inst' = inst /\ sent' = sent
      /\ creds \in [Instances -> CtlSecrets \cup {None}]
  BY DEF CtlInv, CtlTypes, PutsSecret
<1>2. PICK v : v = NextRevision
  OBVIOUS
<1>3. v \in Nat /\ revision <= v /\ revision' = v
  BY <1>1, <1>2 DEF NextRevision, PutsSecret
<1>4. PICK j : j = IF k = None THEN None ELSE [key |-> k, rev |-> v]
  OBVIOUS
<1>5. j \in CtlSecrets \cup {None} /\ (k = None => j = None)
  BY <1>3, <1>4 DEF CtlSecrets
<1>6. creds' = [creds EXCEPT ![n] = j]
  BY <1>2, <1>4 DEF PutsSecret
<1>7. creds' \in [Instances -> CtlSecrets \cup {None}] /\ creds'[n] = j
      /\ \A m \in Instances \ {n} : creds'[m] = creds[m]
  BY <1>1, <1>5, <1>6
<1> QED BY <1>1, <1>3, <1>5, <1>7 DEF CtlMoved

LEMMA CtlSameMoves ==
    ASSUME CtlInv, UNCHANGED <<inst, creds, revision>>
    PROVE  CtlMoved
BY DEF CtlInv, CtlTypes, CtlMoved

LEMMA CtlStoreMoves ==
    ASSUME CtlInv, NEW r, CtlStore(r)
    PROVE  CtlMoved /\ sent' = sent
<1>1. CASE UNCHANGED <<inst, creds, revision, sent>>
  BY <1>1, CtlSameMoves
<1>2. CASE r.name \in Instances /\ CtlWrites(r)
  BY <1>2, CtlPutMoves DEF CtlWrites
<1>3. CASE r.name \in Instances /\ CtlWritesSecret(r)
  BY <1>3, CtlPutSecretMoves DEF CtlWritesSecret
<1> QED BY <1>1, <1>2, <1>3 DEF CtlStore

\* What another request has read is still there, or its version is not.
LEMMA CtlReadStillFits ==
    ASSUME CtlInv, CtlMoved, backend' = backend, NEW r \in CtlReqs \cup {Idle}, ReadFits(r)
    PROVE  ReadFits(r)'
<1>1. CASE r.op \in {"modify", "reboot"} /\ r.at = "write"
  <2>1. /\ backend \in Versioned /\ r.read \in CtlInsts /\ r.read.rev <= revision
        /\ inst[r.name] # None /\ inst[r.name].rev = r.read.rev => inst[r.name] = r.read
    BY <1>1 DEF ReadFits
  <2>2. r.name \in Instances
    BY <1>1, CtlKinds DEF CtlModifies, CtlReboots
  <2>3. revision \in Nat /\ revision' \in Nat /\ r.read.rev \in Nat
    BY <2>1 DEF CtlInv, CtlTypes, CtlInsts, CtlMoved
  <2>4. inst'[r.name] # None /\ inst'[r.name].rev = r.read.rev => inst'[r.name] = r.read
    BY <2>1, <2>2, <2>3 DEF CtlMoved
  <2>5. r.read.rev <= revision'
    BY <2>1, <2>3 DEF CtlMoved
  <2> QED BY <1>1, <2>1, <2>4, <2>5 DEF ReadFits
<1>2. CASE ~(r.op \in {"modify", "reboot"} /\ r.at = "write")
  BY <1>2 DEF ReadFits
<1> QED BY <1>1, <1>2

LEMMA CtlVersionsMove ==
    ASSUME CtlInv, CtlMoved, backend' = backend,
           \A j \in Jobs : backend \in Versioned => sleepers'[j] = 0
    PROVE  CtlVersions'
<1>1. ASSUME backend \in Versioned, NEW n \in Instances, inst'[n] # None
      PROVE  inst'[n].rev <= revision'
  <2>1. CASE inst'[n] = inst[n]
    <3>1. inst[n].rev <= revision /\ inst[n] \in CtlInsts /\ revision \in Nat
      BY <1>1, <2>1 DEF CtlInv, CtlVersions, CtlTypes
    <3>2. inst[n].rev \in Nat
      BY <3>1 DEF CtlInsts
    <3> QED BY <2>1, <3>1, <3>2 DEF CtlMoved
  <2>2. CASE inst'[n] # inst[n]
    BY <1>1, <2>2 DEF CtlMoved
  <2> QED BY <2>1, <2>2
<1> QED BY <1>1 DEF CtlVersions

LEMMA CtlSleeps ==
    ASSUME CtlInv, CtlSleep
    PROVE  sleepers' \in [Jobs -> Nat] /\ \A j \in Jobs : backend \in Versioned => sleepers'[j] = 0
<1>1. sleepers \in [Jobs -> Nat] /\ \A j \in Jobs : backend \in Versioned => sleepers[j] = 0
  BY DEF CtlInv, CtlTypes, CtlVersions
<1>2. CASE UNCHANGED sleepers
  BY <1>1, <1>2
<1>3. CASE backend = "inmem" /\ \E j \in Jobs : sleepers' = [sleepers EXCEPT ![j] = @ + 1]
  BY <1>1, <1>3 DEF Versioned
<1> QED BY <1>2, <1>3 DEF CtlSleep

\* All parts of the invariant together, when one client's request changes.
LEMMA CtlKeeps ==
    ASSUME CtlInv, CtlMoved, backend' = backend, sent' \in Nat, sleepers' \in [Jobs -> Nat],
           \A j \in Jobs : backend \in Versioned => sleepers'[j] = 0,
           NEW c \in Clients, NEW q \in CtlReqs \cup {Idle}, req' = [req EXCEPT ![c] = q], ReadFits(q)'
    PROVE  CtlInv'
<1>1. req \in [Clients -> CtlReqs \cup {Idle}] /\ \A d \in Clients : ReadFits(req[d])
  BY DEF CtlInv, CtlTypes
<1>2. req' \in [Clients -> CtlReqs \cup {Idle}] /\ req'[c] = q
      /\ \A d \in Clients \ {c} : req'[d] = req[d]
  BY <1>1
<1>3. CtlTypes'
  BY <1>2 DEF CtlTypes, CtlMoved
<1>4. CtlVersions'
  BY CtlVersionsMove
<1>5. ASSUME NEW d \in Clients
      PROVE  ReadFits(req[d])' 
  <2>1. PICK p \in CtlReqs \cup {Idle} : p = req'[d]
    BY <1>2
  <2>2. ReadFits(p)'
    <3>1. CASE d = c
      BY <1>2, <2>1, <3>1
    <3>2. CASE d # c
      <4>1. ReadFits(p)
        BY <1>1, <1>2, <2>1, <3>2
      <4> QED BY <4>1, CtlReadStillFits
    <3> QED BY <3>1, <3>2
  <2> QED BY <2>1, <2>2 DEF ReadFits
<1> QED BY <1>3, <1>4, <1>5 DEF CtlInv

\* What UpdateKeepsOthers says of a step.
CtlKept ==
    backend # "azure" =>
        \A n \in Instances :
            /\ (inst[n] # None /\ inst'[n] # None) =>
                \A field \in Fields :
                    inst'[n][field] # inst[n][field] => \E c \in Clients : Mentions(c, n, field)
            /\ (creds[n] # None /\ creds'[n] # None) =>
                (creds'[n].key # creds[n].key => \E c \in Clients : Mentions(c, n, "key"))

LEMMA CtlSameKept ==
    ASSUME UNCHANGED <<inst, creds>>
    PROVE  CtlKept
BY DEF CtlKept

LEMMA CtlGoesOnKeeps ==
    ASSUME CtlInv, NEW c \in Clients, NEW r \in CtlReqs, r = req[c], CtlMoved, CtlGoesOn(c, r)
    PROVE  /\ backend' = backend /\ req'[c] # req[c]
           /\ \E q \in CtlReqs \cup {Idle} : req' = [req EXCEPT ![c] = q] /\ ReadFits(q)'
<1>0. req \in [Clients -> CtlReqs \cup {Idle}] /\ inst \in [Instances -> CtlInsts \cup {None}]
  BY DEF CtlInv, CtlTypes
<1>1. CASE \E says : Ends(c, says)
  <2>1. backend' = backend /\ req' = [req EXCEPT ![c] = Idle]
    BY <1>1 DEF Ends
  <2>2. r # Idle
    BY DEF CtlReqs, CtlCreates, CtlDeletes, CtlModifies, CtlReboots, CtlSnapshots, CtlDrops, CtlRestores, Idle
  <2>3. ReadFits(Idle)'
    BY DEF ReadFits, Idle
  <2> QED BY <1>0, <2>1, <2>2, <2>3
<1>2. CASE ~\E says : Ends(c, says)
  <2>1. PICK q \in CtlReqs :
          /\ Goes(c, q)
          /\ q # r
          /\ q.op = "modify" /\ q.at \in {"secret", "swap", "user"} => "key" \in q.sets
          /\ q.op \in {"modify", "reboot"} /\ q.at = "write" =>
                /\ backend \in Versioned
                /\ inst[q.name] # None /\ q.read = inst[q.name]
                /\ UNCHANGED <<inst, revision>>
    BY <1>2 DEF CtlGoesOn
  <2>2. backend' = backend /\ req' = [req EXCEPT ![c] = q]
    BY <2>1 DEF Goes
  <2>3. ReadFits(q)'
    <3>1. CASE q.op \in {"modify", "reboot"} /\ q.at = "write"
      <4>1. q.name \in Instances
        BY <3>1, CtlKinds DEF CtlModifies, CtlReboots
      <4>2. /\ backend \in Versioned /\ UNCHANGED <<inst, revision>> /\ q.read = inst[q.name]
            /\ q.read # None
        BY <2>1, <3>1
      <4>3. q.read \in CtlInsts /\ q.read.rev <= revision
        BY <1>0, <4>1, <4>2 DEF CtlInv, CtlVersions
      <4> QED BY <2>2, <3>1, <4>2, <4>3 DEF ReadFits
    <3>2. CASE ~(q.op \in {"modify", "reboot"} /\ q.at = "write")
      BY <2>1, <3>2 DEF ReadFits
    <3> QED BY <3>1, <3>2
  <2> QED BY <1>0, <2>1, <2>2, <2>3
<1> QED BY <1>1, <1>2

LEMMA CtlEffectKeeps ==
    ASSUME CtlInv, NEW c \in Clients, CtlEffect(c)
    PROVE  CtlInv' /\ CtlKept
<1>1. PICK r \in CtlReqs : r = req[c] /\ CtlStore(r) /\ CtlSleep /\ CtlGoesOn(c, r)
  BY DEF CtlEffect
<1>2. CtlMoved /\ sent' = sent
  BY <1>1, CtlStoreMoves
<1>3. /\ backend' = backend /\ req'[c] # req[c]
      /\ \E q \in CtlReqs \cup {Idle} : req' = [req EXCEPT ![c] = q] /\ ReadFits(q)'
  BY <1>1, <1>2, CtlGoesOnKeeps
<1>4. CtlInv'
  <2>1. PICK q \in CtlReqs \cup {Idle} : req' = [req EXCEPT ![c] = q] /\ ReadFits(q)'
    BY <1>3
  <2>2. sent' \in Nat
    BY <1>2 DEF CtlInv, CtlTypes
  <2> QED BY <1>1, <1>2, <1>3, <2>1, <2>2, CtlSleeps, CtlKeeps
<1>5. ASSUME NEW field, MayChange(r, field)
      PROVE  Mentions(c, r.name, field)
  BY <1>1, <1>3, <1>5 DEF MayChange, Mentions
<1>6. CtlKept
  <2>1. CASE UNCHANGED <<inst, creds, revision, sent>>
    BY <2>1, CtlSameKept
  <2>2. CASE r.name \in Instances /\ CtlWrites(r)
    <3>1. PICK i \in CtlInsts \cup {None} :
             /\ Puts(r.name, i)
             /\ backend # "azure" /\ inst[r.name] # None /\ i # None =>
                   /\ i.size # inst[r.name].size => MayChange(r, "size")
                   /\ i.key # inst[r.name].key => MayChange(r, "key")
      BY <2>2 DEF CtlWrites
    <3>2. inst'[r.name] # None => i # None /\ inst'[r.name].size = i.size /\ inst'[r.name].key = i.key
      BY <2>2, <3>1, CtlPutMoves
    <3>3. creds' = creds /\ \A m \in Instances \ {r.name} : inst'[m] = inst[m]
      BY <2>2, <3>1 DEF Puts, CtlInv, CtlTypes
    <3>4. ASSUME backend # "azure", inst[r.name] # None, inst'[r.name] # None, NEW field \in Fields,
                 inst'[r.name][field] # inst[r.name][field]
          PROVE  Mentions(c, r.name, field)
      <4>1. CASE field = "size"
        BY <1>5, <3>1, <3>2, <3>4, <4>1
      <4>2. CASE field = "key"
        BY <1>5, <3>1, <3>2, <3>4, <4>2
      <4> QED BY <4>1, <4>2 DEF Fields
    <3>5. ASSUME backend # "azure", NEW n \in Instances, inst[n] # None, inst'[n] # None,
                 NEW field \in Fields, inst'[n][field] # inst[n][field]
          PROVE  \E d \in Clients : Mentions(d, n, field)
      <4>1. n = r.name
        BY <3>3, <3>5
      <4>2. Mentions(c, r.name, field)
        BY <3>4, <3>5, <4>1
      <4> QED BY <4>1, <4>2
    <3> QED BY <3>3, <3>5 DEF CtlKept
  <2>3. CASE r.name \in Instances /\ CtlWritesSecret(r)
    <3>1. PICK k \in Nat \cup {None} :
            /\ PutsSecret(r.name, k)
            /\ creds[r.name] # None /\ k # None => MayChange(r, "key")
      BY <2>3 DEF CtlWritesSecret
    <3>2. /\ inst' = inst /\ (creds'[r.name] # None => k # None)
          /\ \A m \in Instances \ {r.name} : creds'[m] = creds[m]
      BY <2>3, <3>1, CtlPutSecretMoves
    <3>3. ASSUME NEW n \in Instances, creds[n] # None, creds'[n] # None, creds'[n].key # creds[n].key
          PROVE  \E d \in Clients : Mentions(d, n, "key")
      <4>1. n = r.name
        BY <3>2, <3>3
      <4>2. MayChange(r, "key")
        BY <3>1, <3>2, <3>3, <4>1
      <4> QED BY <1>5, <4>1, <4>2
    <3> QED BY <3>2, <3>3 DEF CtlKept
  <2> QED BY <1>1, <2>1, <2>2, <2>3 DEF CtlStore
<1> QED BY <1>4, <1>6

\* The steps that are not a call: a request arrives or dies, the work is done.
LEMMA CtlBegins ==
    ASSUME CtlInv, NEW c \in Clients, NEW q \in CtlReqs, q.at = "first", NEW s, Sends(c, s, q)
    PROVE  CtlInv' /\ CtlKept
<1>1. /\ req' = [req EXCEPT ![c] = q] /\ UNCHANGED <<inst, creds, sleepers, revision, backend>>
      /\ sent' = sent + 1
  BY DEF Sends, Begin
<1>2. CtlMoved /\ CtlKept
  BY <1>1, CtlSameMoves, CtlSameKept
<1>3. sent' \in Nat /\ sleepers' \in [Jobs -> Nat]
      /\ \A j \in Jobs : backend \in Versioned => sleepers'[j] = 0
  BY <1>1 DEF CtlInv, CtlTypes, CtlVersions
<1>4. ReadFits(q)'
  BY DEF ReadFits
<1> QED BY <1>1, <1>2, <1>3, <1>4, CtlKeeps

LEMMA CtlSends ==
    ASSUME CtlInv, NEW c \in Clients,
           \E s : \/ SendsCreate(c, s, Keys) \/ SendsCreate(c, s, {sent + 1}) \/ SendsCreate(c, s, {CallersKey})
                  \/ SendsDelete(c, s)
                  \/ SendsModify(c, s, SUBSET Fields) \/ SendsModify(c, s, SUBSET {"size"})
                  \/ SendsModify(c, s, SUBSET {"key"})
                  \/ SendsReboot(c, s) \/ SendsSnapshot(c) \/ SendsDrop(c) \/ SendsRestore(c)
    PROVE  CtlInv' /\ CtlKept
<1>0. sent \in Nat
  BY DEF CtlInv, CtlTypes
<1>1. PICK s : \/ SendsCreate(c, s, Keys) \/ SendsCreate(c, s, {sent + 1}) \/ SendsCreate(c, s, {CallersKey})
               \/ SendsDelete(c, s)
               \/ SendsModify(c, s, SUBSET Fields) \/ SendsModify(c, s, SUBSET {"size"})
               \/ SendsModify(c, s, SUBSET {"key"})
               \/ SendsReboot(c, s) \/ SendsSnapshot(c) \/ SendsDrop(c) \/ SendsRestore(c)
  OBVIOUS
<1>2. CASE SendsCreate(c, s, Keys) \/ SendsCreate(c, s, {sent + 1}) \/ SendsCreate(c, s, {CallersKey})
  <2>1. PICK n \in Instances, k \in Nat : Sends(c, s, CreateInstance(n, k))
    BY <1>0, <1>2 DEF SendsCreate, Keys, CallersKey
  <2>2. PICK q : q = CreateInstance(n, k)
    OBVIOUS
  <2>3. q \in CtlReqs /\ q.at = "first"
    BY <2>2 DEF CreateInstance, CtlReqs, CtlCreates
  <2> QED BY <2>1, <2>2, <2>3, CtlBegins
<1>3. CASE SendsDelete(c, s)
  <2>1. PICK n \in Instances : Sends(c, s, DeleteInstance(n))
    BY <1>3 DEF SendsDelete
  <2>2. PICK q : q = DeleteInstance(n)
    OBVIOUS
  <2>3. q \in CtlReqs /\ q.at = "first"
    BY <2>2 DEF DeleteInstance, CtlReqs, CtlDeletes
  <2> QED BY <2>1, <2>2, <2>3, CtlBegins
<1>4. CASE SendsModify(c, s, SUBSET Fields) \/ SendsModify(c, s, SUBSET {"size"})
           \/ SendsModify(c, s, SUBSET {"key"})
  <2>1. PICK n \in Instances, sets \in SUBSET Fields, v \in Nat : Sends(c, s, ModifyInstance(n, sets, v))
    <3>1. /\ SUBSET {"size"} \subseteq SUBSET Fields /\ SUBSET {"key"} \subseteq SUBSET Fields
          /\ Sizes \subseteq Nat
      BY DEF Fields, Sizes
    <3> QED BY <1>4, <3>1 DEF SendsModify
  <2>2. PICK q : q = ModifyInstance(n, sets, v)
    OBVIOUS
  <2>3. q \in CtlModifies /\ q.at = "first"
    BY <2>2 DEF ModifyInstance, CtlModifies, CtlRead, CallersKey
  <2>4. q \in CtlReqs
    BY <2>3 DEF CtlReqs
  <2> QED BY <2>1, <2>2, <2>3, <2>4, CtlBegins
<1>5. CASE SendsReboot(c, s)
  <2>1. PICK n \in Instances : Sends(c, s, RebootInstance(n))
    BY <1>5 DEF SendsReboot
  <2>2. PICK q : q = RebootInstance(n)
    OBVIOUS
  <2>3. q \in CtlReboots /\ q.at = "first"
    BY <2>2 DEF RebootInstance, CtlReboots, CtlRead
  <2>4. q \in CtlReqs
    BY <2>3 DEF CtlReqs
  <2> QED BY <2>1, <2>2, <2>3, <2>4, CtlBegins
<1>6. CASE SendsSnapshot(c)
  <2>1. PICK n \in Instances, p \in Snapshots : Sends(c, "rdbms", CreateSnapshot(n, p))
    BY <1>6 DEF SendsSnapshot
  <2>2. PICK q : q = CreateSnapshot(n, p)
    OBVIOUS
  <2>3. q \in CtlReqs /\ q.at = "first"
    BY <2>2 DEF CreateSnapshot, CtlReqs, CtlSnapshots
  <2> QED BY <2>1, <2>2, <2>3, CtlBegins
<1>7. CASE SendsDrop(c)
  <2>1. PICK p \in Snapshots : Sends(c, "rdbms", DeleteSnapshot(p))
    BY <1>7 DEF SendsDrop
  <2>2. PICK q : q = DeleteSnapshot(p)
    OBVIOUS
  <2>3. q \in CtlReqs /\ q.at = "first"
    BY <2>2 DEF DeleteSnapshot, CtlReqs, CtlDrops
  <2> QED BY <2>1, <2>2, <2>3, CtlBegins
<1>8. CASE SendsRestore(c)
  <2>1. PICK n \in Instances, p \in Snapshots : Sends(c, "rdbms", RestoreFromSnapshot(n, p))
    BY <1>8 DEF SendsRestore
  <2>2. PICK q : q = RestoreFromSnapshot(n, p)
    OBVIOUS
  <2>3. q \in CtlReqs /\ q.at = "first"
    BY <2>2 DEF RestoreFromSnapshot, CtlReqs, CtlRestores
  <2> QED BY <2>1, <2>2, <2>3, CtlBegins
<1> QED BY <1>1, <1>2, <1>3, <1>4, <1>5, <1>6, <1>7, <1>8

LEMMA CtlRequests ==
    ASSUME CtlInv, NEW c \in Clients, ControlRequests(c)
    PROVE  CtlInv' /\ CtlKept
<1>1. \E s : \/ SendsCreate(c, s, Keys) \/ SendsCreate(c, s, {sent + 1}) \/ SendsCreate(c, s, {CallersKey})
             \/ SendsDelete(c, s)
             \/ SendsModify(c, s, SUBSET Fields) \/ SendsModify(c, s, SUBSET {"size"})
             \/ SendsModify(c, s, SUBSET {"key"})
             \/ SendsReboot(c, s) \/ SendsSnapshot(c) \/ SendsDrop(c) \/ SendsRestore(c)
  BY DEF ControlRequests, CreateDBInstance, DeleteDBInstance, ModifyDBInstance, RebootDBInstance,
         CreateDBSnapshot, DeleteDBSnapshot, RestoreDBInstanceFromDBSnapshot,
         CloudSql, SqlCreateInstance, SqlDeleteInstance, SqlPatchInstance, SqlRestart, SqlCreateBackupRun,
         SqlDeleteBackupRun, SqlRestoreBackup,
         ServersCreateOrUpdate, ServersDelete, ServersUpdate, ServersRestart, BackupsCreate, BackupsDelete,
         CreateCacheCluster, DeleteCacheCluster, ModifyCacheCluster, RebootCacheCluster,
         Memorystore, MemorystoreCreate, MemorystoreDelete, MemorystorePatch, MemorystoreFailover,
         RedisCreate, RedisDelete, RedisUpdate, RedisForceReboot,
         CreateFunction, DeleteFunction, UpdateFunctionConfiguration, UpdateFunctionCode,
         CloudRun, CloudRunCreateService, CloudRunDeleteService, CloudRunPatchService,
         ContainerAppsCreateOrUpdate, ContainerAppsDelete, ContainerAppsUpdate
<1> QED BY <1>1, CtlSends

LEMMA CtlDies ==
    ASSUME CtlInv, NEW c \in Clients, Dies(c), ControlSame
    PROVE  CtlInv' /\ CtlKept
<1>1. /\ req' = [req EXCEPT ![c] = Idle] /\ UNCHANGED <<inst, creds, sleepers, revision, sent, backend>>
  BY DEF Dies, Fails, Ends, ControlSame, controlVars
<1>2. CtlMoved /\ CtlKept
  BY <1>1, CtlSameMoves, CtlSameKept
<1>3. sent' \in Nat /\ sleepers' \in [Jobs -> Nat]
      /\ \A j \in Jobs : backend \in Versioned => sleepers'[j] = 0
  BY <1>1 DEF CtlInv, CtlTypes, CtlVersions
<1>4. ReadFits(Idle)'
  BY DEF ReadFits, Idle
<1>5. PICK q \in CtlReqs \cup {Idle} : q = Idle
  OBVIOUS
<1>6. ReadFits(q)'
  BY <1>4, <1>5
<1> QED BY <1>1, <1>2, <1>3, <1>5, <1>6, CtlKeeps

\* No request changes; of an instance only the status does.
LEMMA CtlStays ==
    ASSUME CtlInv, CtlMoved, UNCHANGED <<backend, req, creds, sent>>, sleepers' \in [Jobs -> Nat],
           \A j \in Jobs : backend \in Versioned => sleepers'[j] = 0,
           \A n \in Instances : inst[n] # None /\ inst'[n] # None =>
               inst'[n].size = inst[n].size /\ inst'[n].key = inst[n].key
    PROVE  CtlInv' /\ CtlKept
<1>1. CtlTypes'
  BY DEF CtlInv, CtlTypes, CtlMoved
<1>2. CtlVersions'
  BY CtlVersionsMove
<1>3. ASSUME NEW d \in Clients
      PROVE  ReadFits(req[d])'
  <2>1. PICK p \in CtlReqs \cup {Idle} : p = req[d]
    BY DEF CtlInv, CtlTypes
  <2>2. ReadFits(p)
    BY <2>1 DEF CtlInv
  <2>3. ReadFits(p)'
    BY <2>2, CtlReadStillFits
  <2>4. p = req'[d]
    BY <2>1
  <2> QED BY <2>3, <2>4 DEF ReadFits
<1>4. CtlKept
  BY DEF CtlKept, Fields
<1> QED BY <1>1, <1>2, <1>3, <1>4 DEF CtlInv

\* What a goroutine leaves of the instance it finds.
LEMMA CtlAfter ==
    ASSUME NEW i \in CtlInsts, NEW kind \in {"create", "modify", "reboot", "delete"}
    PROVE  /\ After(kind, i) \in CtlInsts \cup {None}
           /\ After(kind, i) # None => After(kind, i).size = i.size /\ After(kind, i).key = i.key
<1>1. PICK a : a = [i EXCEPT !.status = "available"]
  OBVIOUS
<1>2. a \in CtlInsts /\ a.size = i.size /\ a.key = i.key
  BY <1>1, CtlRestatus DEF CtlStatuses
<1>3. After(kind, i) \in {a, i, None}
  BY <1>1 DEF After, WakesAvailable, WakesModified, WakesRebooted, WakesDeleting
<1> QED BY <1>2, <1>3

LEMMA CtlAwakes ==
    ASSUME CtlInv, NEW j \in Jobs, Awakes(j)
    PROVE  /\ backend \notin Versioned /\ sleepers' \in [Jobs -> Nat]
           /\ \A k \in Jobs : backend \in Versioned => sleepers'[k] = 0
BY DEF CtlInv, CtlTypes, CtlVersions, Awakes

LEMMA CtlWakes ==
    ASSUME CtlInv, NEW n \in Instances, NEW kind \in {"create", "modify", "reboot", "delete"}, Wakes(kind, n)
    PROVE  CtlInv' /\ CtlKept
<1>1. <<kind, n>> \in Jobs /\ Awakes(<<kind, n>>)
  BY CtlJobs DEF Wakes
<1>2. /\ backend \notin Versioned /\ sleepers' \in [Jobs -> Nat]
      /\ \A k \in Jobs : backend \in Versioned => sleepers'[k] = 0
  BY <1>1, CtlAwakes
<1>3. UNCHANGED <<backend, req, creds, revision, sent>>
  BY DEF Wakes
<1>4. inst \in [Instances -> CtlInsts \cup {None}] /\ revision \in Nat
      /\ creds \in [Instances -> CtlSecrets \cup {None}]
  BY DEF CtlInv, CtlTypes
<1>5. CASE inst[n] = None
  <2>1. inst' = inst
    BY <1>5 DEF Wakes
  <2> QED BY <1>2, <1>3, <2>1, CtlSameMoves, CtlStays
<1>6. CASE inst[n] # None
  <2>1. PICK i \in CtlInsts : i = inst[n]
    BY <1>4, <1>6
  <2>2. PICK a : a = After(kind, i)
    OBVIOUS
  <2>3. a \in CtlInsts \cup {None} /\ (a # None => a.size = i.size /\ a.key = i.key)
    BY <2>2, CtlAfter
  <2>4. inst' = [inst EXCEPT ![n] = a]
    BY <1>6, <2>1, <2>2 DEF Wakes
  <2>5. /\ inst' \in [Instances -> CtlInsts \cup {None}] /\ inst'[n] = a
        /\ \A m \in Instances \ {n} : inst'[m] = inst[m]
    BY <1>4, <2>3, <2>4
  <2>6. CtlMoved
    BY <1>2, <1>3, <1>4, <2>5 DEF CtlMoved
  <2>7. \A m \in Instances : inst[m] # None /\ inst'[m] # None =>
            inst'[m].size = inst[m].size /\ inst'[m].key = inst[m].key
    BY <2>1, <2>3, <2>5
  <2> QED BY <1>2, <1>3, <2>6, <2>7, CtlStays
<1> QED BY <1>5, <1>6

LEMMA CtlSettles ==
    ASSUME CtlInv, NEW n \in Instances, CloudSettles(n)
    PROVE  CtlInv' /\ CtlKept
<1>1. UNCHANGED <<backend, req, creds, sent, sleepers>> /\ inst[n] # None
  BY DEF CloudSettles, Puts, Calm
<1>2. /\ inst \in [Instances -> CtlInsts \cup {None}] /\ sleepers' \in [Jobs -> Nat]
      /\ \A j \in Jobs : backend \in Versioned => sleepers'[j] = 0
  BY <1>1 DEF CtlInv, CtlTypes, CtlVersions
<1>3. PICK o \in CtlInsts : o = inst[n]
  BY <1>1, <1>2
<1>4. PICK i : i = IF o.status = "deleting" THEN None ELSE [o EXCEPT !.status = "available"]
  OBVIOUS
<1>5. i \in CtlInsts \cup {None} /\ (i # None => i.size = o.size /\ i.key = o.key)
  BY <1>4, CtlRestatus DEF CtlStatuses
<1>6. Puts(n, i)
  BY <1>3, <1>4 DEF CloudSettles
<1>7. CtlMoved /\ (inst'[n] # None => i # None /\ inst'[n].size = i.size /\ inst'[n].key = i.key)
  BY <1>5, <1>6, CtlPutMoves
<1>8. \A m \in Instances \ {n} : inst'[m] = inst[m]
  BY <1>2, <1>6 DEF Puts
<1>9. \A m \in Instances : inst[m] # None /\ inst'[m] # None =>
            inst'[m].size = inst[m].size /\ inst'[m].key = inst[m].key
  BY <1>3, <1>5, <1>7, <1>8
<1> QED BY <1>1, <1>2, <1>7, <1>9, CtlStays

LEMMA CtlSnapshotSettles ==
    ASSUME CtlInv, NEW s \in Snapshots, WakesSnapshot(s) \/ CloudSettlesSnapshot(s)
    PROVE  CtlInv' /\ CtlKept
<1>1. UNCHANGED <<backend, req, inst, creds, revision, sent>>
  BY DEF WakesSnapshot, CloudSettlesSnapshot, PutsSnapshot
<1>2. /\ sleepers' \in [Jobs -> Nat]
      /\ \A j \in Jobs : backend \in Versioned => sleepers'[j] = 0
  <2>1. CASE WakesSnapshot(s)
    <3>1. <<"snapshot", s>> \in Jobs /\ Awakes(<<"snapshot", s>>)
      BY <2>1 DEF Jobs, WakesSnapshot
    <3> QED BY <3>1, CtlAwakes
  <2>2. CASE CloudSettlesSnapshot(s)
    BY <2>2 DEF CloudSettlesSnapshot, Calm, CtlInv, CtlTypes, CtlVersions
  <2> QED BY <2>1, <2>2
<1> QED BY <1>1, <1>2, CtlSameMoves, CtlStays

LEMMA CtlStep == CtlInv /\ [ControlNext]_<<shimVars, controlVars>> => CtlInv' /\ CtlKept
<1> SUFFICES ASSUME CtlInv, [ControlNext]_<<shimVars, controlVars>>
             PROVE  CtlInv' /\ CtlKept
  OBVIOUS
<1>1. ASSUME NEW c \in Clients, ControlRequests(c) \/ ControlCall(c) \/ (Dies(c) /\ ControlSame)
      PROVE  CtlInv' /\ CtlKept
  BY <1>1, CtlRequests, CtlCalls, CtlEffectKeeps, CtlDies
<1>2. CASE Settling
  BY <1>2, CtlWakes, CtlSettles, CtlSnapshotSettles DEF Settling
<1>3. CASE UNCHANGED <<shimVars, controlVars>>
  <2>1. /\ UNCHANGED <<inst, creds, sleepers, revision, sent, req, backend>>
    BY <1>3 DEF shimVars, controlVars
  <2>2. /\ sleepers' \in [Jobs -> Nat]
        /\ \A j \in Jobs : backend \in Versioned => sleepers'[j] = 0
    BY <2>1 DEF CtlInv, CtlTypes, CtlVersions
  <2> QED BY <2>1, <2>2, CtlSameMoves, CtlStays
<1> QED BY <1>1, <1>2, <1>3 DEF ControlNext

LEMMA CtlStarts == ControlInit => CtlInv
<1> SUFFICES ASSUME ControlInit PROVE CtlInv
  OBVIOUS
<1>1. CtlTypes
  BY DEF ControlInit, ShimInit, CtlTypes
<1>2. CtlVersions
  BY DEF ControlInit, CtlVersions
<1>3. \A c \in Clients : ReadFits(req[c])
  BY DEF ControlInit, ShimInit, ReadFits, Idle
<1> QED BY <1>1, <1>2, <1>3 DEF CtlInv

(***************************************************************************)
(* What a request has read is what is stored, as long as its version is;   *)
(* the state of the instances, the Secrets and the requests has its types. *)
(***************************************************************************)
THEOREM ControlInvariant == ControlSpec => []CtlInv
<1>1. ControlInit => CtlInv
  BY CtlStarts
<1>2. CtlInv /\ [ControlNext]_<<shimVars, controlVars>> => CtlInv'
  BY CtlStep
<1> QED BY <1>1, <1>2, PTL DEF ControlSpec

(***************************************************************************)
(* UpdateKeepsOthers, for any number of clients, instances and snapshots:  *)
(* no modify, reboot or create of rdbms, cache or functions over inmem,    *)
(* cnpg, redisop, knative, gcp or aws undoes a change that another client  *)
(* made between its read and its write.                                    *)
(***************************************************************************)
THEOREM UpdatesAlwaysKeepOthers == ControlSpec => UpdateKeepsOthers
<1>1. CtlInv /\ [ControlNext]_<<shimVars, controlVars>> => [CtlKept]_<<shimVars, controlVars>>
  BY CtlStep
<1>2. ControlSpec => [][CtlKept]_<<shimVars, controlVars>>
  BY <1>1, ControlInvariant, PTL DEF ControlSpec
<1> QED BY <1>2 DEF UpdateKeepsOthers, CtlKept
=============================================================================
