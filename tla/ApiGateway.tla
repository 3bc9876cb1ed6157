------------------------------ MODULE ApiGateway ------------------------------
(***************************************************************************)
(* API gateways (services/apigateway): aws_apigatewayv2, azure_apim and    *)
(* gcp_apigateway over the backends inmem, envoy, gcp, azure and aws.      *)
(*                                                                         *)
(* A gateway serves a table of routes, and DeployGateway replaces it: in   *)
(* one step (inmem), by pointing the gateway at a new configuration (gcp), *)
(* or by deleting the old routes and creating the new ones call by call    *)
(* (envoy, azure, aws).  The frontend for AWS collects the routes and      *)
(* integrations of an API in its own memory until CreateDeployment.        *)
(*                                                                         *)
(* A route is its method and path (key), the URL it sends to, and the name *)
(* azure_apim gave it; what a backend does not keep is None.               *)
(***************************************************************************)
EXTENDS Shim, Sequences, SequencesExt

CONSTANTS
    GatewayNames,
    RouteKeys,
    Targets,        \* URLs of integrations
    Operations,     \* names azure_apim gives routes
    MaxRoutes,      \* bound: routes of a table
    MaxApis,        \* bound: gateways ever created
    MaxTimers       \* bound: goroutines of inmem of a kind at a time

VARIABLES
    frontend,   \* fixed when the shim starts
    apis,       \* every gateway created, in order, None once it is deleted
    httpRoutes, \* envoy: the HTTPRoutes labelled with a gateway's name
    timers,     \* inmem: the goroutines that sleep, per kind and gateway name
    pending,    \* aws_apigatewayv2: the routes collected per API
    intIDs      \* aws_apigatewayv2: the targets known per API

gatewayVars == <<frontend, apis, httpRoutes, timers, pending, intIDs>>

Slots == 1..MaxRoutes
NoRoutes == [i \in Slots |-> None]
Route(k, u, id) == [key |-> k, to |-> u, id |-> id]
AllRoutes == [key : RouteKeys, to : Targets \cup {None}, id : Operations \cup {None}]
RouteLists == UNION {[1..n -> AllRoutes] : n \in 0..MaxRoutes}
TimerKinds == {"available", "updated", "delete"}

RouteTables == [Slots -> AllRoutes \cup {None}]
ApiStatuses == {"creating", "updating", "available", "deleting"}
ApiRecords ==
    [name : GatewayNames, status : ApiStatuses, table : RouteTables, configured : BOOLEAN, live : BOOLEAN]

ASSUME RoutesAreSome == MaxRoutes \in Nat \ {0} /\ None \notin AllRoutes
ASSUME ApisAreSome == None \notin ApiRecords

GatewayInit ==
    /\ frontend \in IF service = "apigateway" THEN {"aws", "azure", "gcp"} ELSE {None}
    /\ apis = <<>>
    /\ httpRoutes = [g \in GatewayNames |-> NoRoutes]
    /\ timers = [t \in TimerKinds \X GatewayNames |-> 0]
    /\ pending = [g \in GatewayNames |-> <<>>]
    /\ intIDs = [g \in GatewayNames |-> {}]

-----------------------------------------------------------------------------
(* Gateways and their tables *)

\* AWS finds an API by its name among all there are; the others by the name.
Named(g) ==
    {i \in DOMAIN apis : apis[i] # None => apis[i].name = g} \ {i \in DOMAIN apis : apis[i] = None}
NewGateway(g, status) ==
    [name |-> g, status |-> status, table |-> NoRoutes, configured |-> FALSE, live |-> FALSE]
AddsGateway(g, status) == Len(apis) < MaxApis /\ apis' = Append(apis, NewGateway(g, status))
TableOf(routes) == [i \in Slots |-> IF i \in DOMAIN routes THEN routes[i] ELSE None]
Occupied(table) == {i \in Slots : table[i] # None}
InForce(i) == IF backend = "envoy" THEN httpRoutes[apis[i].name] ELSE apis[i].table
RoutesOf(table) == SelectSeq([i \in Slots |-> table[i]], LAMBDA r : r # None)

\* What DescribeGateway tells of the routes: gcp none, aws and azure no
\* target, and only inmem keeps the names of azure_apim.
Told(r) ==
    CASE backend = "inmem" -> r
      [] backend = "envoy" -> [r EXCEPT !.id = None]
      [] OTHER -> [r EXCEPT !.to = None, !.id = None]
DescribedRoutes(i) ==
    IF backend = "gcp" THEN <<>>
    ELSE LET s == RoutesOf(InForce(i)) IN [n \in DOMAIN s |-> Told(s[n])]
\* What DescribeGateway tells: the error of listing the routes is ignored, and
\* those listed before it count (azure, in pages).
ToldRoutes(i) ==
    LET s == DescribedRoutes(i) IN
    CASE backend \in {"aws", "envoy"} -> {s, <<>>}
      [] backend = "azure" -> {SubSeq(s, 1, n) : n \in 0..Len(s)}
      [] OTHER -> {s}
\* On gcp there is a gateway only once a configuration was deployed.
Describable(g) == {i \in Named(g) : backend = "gcp" => apis[i].live}

DropRouteByID(routes, id) == SelectSeq(routes, LAMBDA r : r.id # id)

-----------------------------------------------------------------------------
(* Requests *)

SameGateways == UNCHANGED gatewayVars
OnlyApis == UNCHANGED <<frontend, httpRoutes, timers, pending, intIDs>>
GwRefused(c) == Fails(c) /\ SameGateways
GwBegins(c, r) == Begin(c, r) /\ SameGateways
GwGoes(c, r) == Goes(c, r) /\ SameGateways

\* lost: an error of a call was passed over.  id: the gateway found.
GwReq(op, at, g) ==
    [op |-> op, at |-> at, name |-> g, routes |-> <<>>, left |-> {},
     operation |-> None, id |-> 0, done |-> 0, lost |-> FALSE]
DeployReq(g, routes) == [GwReq("deploy", "first", g) EXCEPT !.routes = routes]

CreateApi(c) == \E g \in GatewayNames : GwBegins(c, GwReq("create", "first", g))
DeleteApi(c) == \E g \in GatewayNames : GwBegins(c, GwReq("delete", "first", g))
ApimCreate(c) == \E g \in GatewayNames : GwBegins(c, GwReq("create", "first", g))
ApimDelete(c) == \E g \in GatewayNames : GwBegins(c, GwReq("delete", "first", g))
GcpCreateGateway(c) == \E g \in GatewayNames : GwBegins(c, GwReq("create", "first", g))
GcpCreateApi(c) == \E g \in GatewayNames : GwBegins(c, GwReq("create", "first", g))
GcpDeleteGateway(c) == \E g \in GatewayNames : GwBegins(c, GwReq("delete", "first", g))
GcpDeleteApi(c) == \E g \in GatewayNames : GwBegins(c, GwReq("delete", "first", g))

\* The paths of the document, each with the address of its backend.
RoutesFromOpenAPI ==
    {<<>>} \cup {<<Route(k, u, None)>> : k \in RouteKeys, u \in Targets \cup {None}}
GcpCreateApiConfig(c) ==
    \E g \in GatewayNames, routes \in RoutesFromOpenAPI : GwBegins(c, DeployReq(g, routes))
GcpDeleteApiConfig(c) == \E g \in GatewayNames : GwBegins(c, DeployReq(g, <<>>))

\* Operations of azure_apim: the routes are read, one is put in or taken out,
\* and the whole table is deployed.
OperationReq(g, id, added) ==
    [GwReq("operation", "describe", g) EXCEPT !.operation = id, !.routes = added]
CreateOrUpdateOp(c) == \E g \in GatewayNames, id \in Operations, k \in RouteKeys :
    GwBegins(c, OperationReq(g, id, <<Route(k, None, id)>>))
DeleteOp(c) == \E g \in GatewayNames, id \in Operations : GwBegins(c, OperationReq(g, id, <<>>))
DescribesRoutes(c) ==
    /\ req[c].op = "operation"
    /\ IF Describable(req[c].name) = {} THEN GwRefused(c)
       ELSE \E i \in Describable(req[c].name) : \E told \in ToldRoutes(i) :
              LET routes == DropRouteByID(told, req[c].operation) \o req[c].routes IN
              /\ routes \in RouteLists
              /\ GwGoes(c, DeployReq(req[c].name, routes))

\* The memory of aws_apigatewayv2, under its mutex: no call to the backend.
InMemory(c) ==
    req[c] = Idle /\ answer' = None /\ UNCHANGED <<frontend, service, backend, req, alone, apis, httpRoutes, timers>>
CreateIntegration(c) == \E g \in GatewayNames, u \in Targets :
    InMemory(c) /\ intIDs' = [intIDs EXCEPT ![g] = @ \cup {u}] /\ UNCHANGED pending
DeleteIntegration(c) == \E g \in GatewayNames, u \in Targets :
    InMemory(c) /\ intIDs' = [intIDs EXCEPT ![g] = @ \ {u}] /\ UNCHANGED pending
\* A target that names no integration the adapter knows becomes no backend.
CreateRoute(c) == \E g \in GatewayNames, k \in RouteKeys, u \in Targets :
    /\ InMemory(c) /\ Len(pending[g]) < MaxRoutes
    /\ pending' = [pending EXCEPT ![g] =
                     Append(@, Route(k, IF u \in intIDs[g] THEN u ELSE None, None))]
    /\ UNCHANGED intIDs
\* Whatever route is named, all that are pending are dropped.
DeleteRoute(c) == \E g \in GatewayNames :
    InMemory(c) /\ pending' = [pending EXCEPT ![g] = <<>>] /\ UNCHANGED intIDs
\* The pending routes are taken before the backend is called.
CreateDeployment(c) == \E g \in GatewayNames :
    /\ Begin(c, DeployReq(g, pending[g]))
    /\ pending' = [pending EXCEPT ![g] = <<>>]
    /\ UNCHANGED <<frontend, apis, httpRoutes, timers, intIDs>>
\* After a deletion the adapter forgets the API.
ForgetsApi(c) ==
    /\ req[c].op = "delete" /\ req[c].at = "forget"
    /\ pending' = [pending EXCEPT ![req[c].name] = <<>>]
    /\ intIDs' = [intIDs EXCEPT ![req[c].name] = {}]
    /\ UNCHANGED <<frontend, apis, httpRoutes, timers>>
    /\ Ends(c, None)

GatewayRequests(c) ==
    /\ req[c] = Idle
    /\ \/ /\ frontend = "aws"
          /\ \/ CreateApi(c) \/ DeleteApi(c) \/ CreateIntegration(c) \/ DeleteIntegration(c)
             \/ CreateRoute(c) \/ DeleteRoute(c) \/ CreateDeployment(c)
       \/ /\ frontend = "azure"
          /\ ApimCreate(c) \/ ApimDelete(c) \/ CreateOrUpdateOp(c) \/ DeleteOp(c)
       \/ /\ frontend = "gcp"
          /\ \/ GcpCreateGateway(c) \/ GcpCreateApi(c) \/ GcpDeleteGateway(c) \/ GcpDeleteApi(c)
             \/ GcpCreateApiConfig(c) \/ GcpDeleteApiConfig(c)

GwDeleted(c) == IF frontend = "aws" THEN Goes(c, [req[c] EXCEPT !.at = "forget"]) ELSE Ends(c, None)
\* A deployment answered with success: what it was, unless an error was passed over.
Deployed(c, i) ==
    Ends(c, IF req[c].lost THEN None ELSE [gateway |-> i, routes |-> req[c].routes])
Puts(i, table) == apis' = [apis EXCEPT ![i].table = table] /\ OnlyApis
Drops(i) == apis' = [apis EXCEPT ![i] = None] /\ OnlyApis

-----------------------------------------------------------------------------
(* inmem: a status that goroutines change after a delay, by the name *)

Sleeps(k, g) ==
    /\ timers[<<k, g>>] < MaxTimers
    /\ timers' = [timers EXCEPT ![<<k, g>>] = @ + 1]
    /\ UNCHANGED <<frontend, httpRoutes, pending, intIDs>>
InmemCreateGateway(c) ==
    /\ Is(c, "create", "first", "inmem")
    /\ IF Named(req[c].name) # {} THEN GwRefused(c)
       ELSE /\ AddsGateway(req[c].name, "creating") /\ Sleeps("available", req[c].name)
            /\ Ends(c, None)
InmemDeleteGateway(c) ==
    /\ Is(c, "delete", "first", "inmem")
    /\ IF Named(req[c].name) = {} THEN GwRefused(c)
       ELSE \E i \in Named(req[c].name) :
              /\ apis' = [apis EXCEPT ![i].status = "deleting"]
              /\ Sleeps("delete", req[c].name)
              /\ GwDeleted(c)
InmemDeployGateway(c) ==
    /\ Is(c, "deploy", "first", "inmem")
    /\ IF Named(req[c].name) = {} THEN GwRefused(c)
       ELSE \E i \in Named(req[c].name) :
              /\ apis' = [apis EXCEPT ![i].table = TableOf(req[c].routes), ![i].status = "updating"]
              /\ Sleeps("updated", req[c].name)
              /\ Deployed(c, i)

Wakes(k, g) ==
    /\ backend = "inmem" /\ timers[<<k, g>>] > 0
    /\ timers' = [timers EXCEPT ![<<k, g>>] = @ - 1]
    /\ answer' = None
    /\ UNCHANGED <<service, backend, req, alone, frontend, httpRoutes, pending, intIDs>>
BecomesAvailable(g, status) ==
    apis' = [i \in DOMAIN apis |->
               IF i \in Named(g) THEN [apis[i] EXCEPT !.status = IF @ \in status THEN "available" ELSE @]
               ELSE apis[i]]
ScheduleAvailable(g) ==
    Wakes("available", g) /\ BecomesAvailable(g, {"creating", "updating", "available"})
UpdateApplied(g) == Wakes("updated", g) /\ BecomesAvailable(g, {"updating"})
DeleteApplied(g) ==
    Wakes("delete", g) /\ apis' = [i \in DOMAIN apis |-> IF i \in Named(g) THEN None ELSE apis[i]]

-----------------------------------------------------------------------------
(* The deployment route by route (envoy, azure, aws) *)

ByRoute == {"envoy", "azure", "aws"}
StepOf(c, op, at) == req[c].op = op /\ req[c].at = at

\* The old routes are listed, and deleted one after the other; an error of a
\* deletion is passed over.
\* Mutation: the routes with a new one in their place are left to it.
InTheWay(c, table) == Occupied(table) \ DOMAIN req[c].routes
Leftover(c, table) == Occupied(table)
StillThere(c) == IF req[c].id = 0 THEN FALSE ELSE apis[req[c].id] # None
Current(c) ==
    IF backend = "envoy" THEN httpRoutes[req[c].name]
    ELSE IF StillThere(c) THEN apis[req[c].id].table ELSE NoRoutes
ListsRoutes(c) ==
    GwGoes(c, [req[c] EXCEPT !.at = "wipe", !.left = Leftover(c, Current(c))])
\* aws and azure go on without a list they do not get.
NoList(c) == GwGoes(c, [req[c] EXCEPT !.at = "wipe", !.lost = TRUE])
FoundGateway(c) ==
    IF Named(req[c].name) = {} THEN GwRefused(c)
    ELSE \E i \in Named(req[c].name) : GwGoes(c, [req[c] EXCEPT !.at = "list", !.id = i])
PutsHttpRoutes(g, table) ==
    httpRoutes' = [httpRoutes EXCEPT ![g] = table] /\ UNCHANGED <<frontend, apis, timers, pending, intIDs>>

Wipes(c, s) == [Current(c) EXCEPT ![s] = None]
WipesRoute(c) ==
    /\ backend \in ByRoute /\ req[c].op \in {"deploy", "delete"} /\ req[c].at = "wipe"
    /\ \E s \in req[c].left :
         \/ /\ IF backend = "envoy" THEN PutsHttpRoutes(req[c].name, Wipes(c, s))
               ELSE IF StillThere(c) THEN Puts(req[c].id, Wipes(c, s)) ELSE SameGateways
            /\ Goes(c, [req[c] EXCEPT !.left = @ \ {s}])
         \/ GwGoes(c, [req[c] EXCEPT !.left = @ \ {s}, !.lost = TRUE])
Wiped(c) ==
    /\ backend \in ByRoute /\ StepOf(c, "deploy", "wipe") /\ req[c].left = {}
    /\ GwGoes(c, [req[c] EXCEPT !.at = "create"])

\* The routes left to create.
More(c) == req[c].done < Len(req[c].routes)
NextRoute(c) == req[c].routes[req[c].done + 1]
CreatedRoute(c) == Goes(c, [req[c] EXCEPT !.done = @ + 1])

\* envoy: routes go by the gateway's name, also when it is gone; one whose
\* name is taken is not created, and nobody is told.
EnvoyGet(c) == Is(c, "deploy", "first", "envoy") /\ FoundGateway(c)
EnvoyListRoutes(c) ==
    /\ backend = "envoy"
    /\ StepOf(c, "deploy", "list") \/ StepOf(c, "delete", "first")
    /\ ListsRoutes(c)
EnvoyDeployRoutes(c) ==
    /\ Is(c, "deploy", "create", "envoy")
    /\ LET s == req[c].done + 1  table == Current(c) IN
       IF ~More(c) THEN Deployed(c, req[c].id) /\ SameGateways
       ELSE /\ CreatedRoute(c)
            /\ PutsHttpRoutes(req[c].name, IF table[s] # None THEN table
                                           ELSE [table EXCEPT ![s] = NextRoute(c)])

\* azure: the slot is overwritten; an API that is gone takes no operation.
ApimListOps(c) ==
    /\ Is(c, "deploy", "first", "azure")
    /\ \/ NoList(c)
       \/ \E i \in Named(req[c].name) :
            GwGoes(c, [req[c] EXCEPT !.at = "wipe", !.id = i, !.left = Leftover(c, apis[i].table)])
ApimDeployOps(c) ==
    /\ Is(c, "deploy", "create", "azure")
    /\ LET i == req[c].id  s == req[c].done + 1 IN
       IF ~More(c) THEN SameGateways /\ (IF StillThere(c) THEN Deployed(c, i) ELSE Ends(c, None))
       ELSE IF Named(req[c].name) = {} THEN GwRefused(c)
       ELSE \E j \in Named(req[c].name) :
              /\ Puts(j, [apis[j].table EXCEPT ![s] = [NextRoute(c) EXCEPT !.to = None, !.id = None]])
              /\ Goes(c, [req[c] EXCEPT !.done = @ + 1, !.id = j])

\* aws: a key that is there is refused.
AwsApiIDByName(c) == Is(c, "deploy", "first", "aws") /\ FoundGateway(c)
AwsGetRoutes(c) == Is(c, "deploy", "list", "aws") /\ (ListsRoutes(c) \/ NoList(c))
AwsPublishRoutes(c) ==
    /\ Is(c, "deploy", "create", "aws") /\ More(c)
    /\ LET i == req[c].id IN
       IF ~StillThere(c) THEN GwRefused(c)
       ELSE LET table == apis[i].table  free == Slots \ Occupied(table) IN
            IF \E s \in Occupied(table) : table[s].key = NextRoute(c).key THEN GwRefused(c)
            ELSE \E s \in free :
                   /\ \A t \in free : s <= t
                   /\ Puts(i, [table EXCEPT ![s] = NextRoute(c)])
                   /\ CreatedRoute(c)
AwsCreateDeployment(c) ==
    /\ Is(c, "deploy", "create", "aws") /\ ~More(c)
    /\ IF StillThere(c) THEN Deployed(c, req[c].id) /\ SameGateways ELSE GwRefused(c)

-----------------------------------------------------------------------------
(* gcp: the gateway points at a configuration *)

GcpCreateConfig(c) ==
    /\ Is(c, "deploy", "first", "gcp")
    /\ IF Named(req[c].name) = {} THEN GwRefused(c)
       ELSE \E i \in Named(req[c].name) :
              /\ apis' = [apis EXCEPT ![i].configured = TRUE]
              /\ OnlyApis
              /\ Goes(c, [req[c] EXCEPT !.at = "gateway", !.id = i])
PointsAt(c, i) ==
    /\ apis' = [apis EXCEPT ![i].table = TableOf(req[c].routes), ![i].live = TRUE]
    /\ OnlyApis
    /\ Deployed(c, i)
\* The gateway is created, or patched where that fails.
GcpDeployGateway(c) ==
    /\ Is(c, "deploy", "gateway", "gcp")
    /\ LET i == req[c].id IN
       IF ~StillThere(c) THEN GwRefused(c)
       ELSE IF apis[i].live THEN GwGoes(c, [req[c] EXCEPT !.at = "patch"])
       ELSE PointsAt(c, i)
GcpPatchGateway(c) ==
    /\ Is(c, "deploy", "patch", "gcp")
    /\ LET i == req[c].id IN
       IF ~StillThere(c) THEN GwRefused(c)
       ELSE IF ~apis[i].live THEN GwRefused(c)
       ELSE PointsAt(c, i)

-----------------------------------------------------------------------------
(* Creation and deletion on the remote backends *)

CreatesGateway(c) ==
    IF Named(req[c].name) # {} THEN GwRefused(c)
    ELSE AddsGateway(req[c].name, "available") /\ OnlyApis /\ Ends(c, None)
EnvoyCreateGateway(c) == Is(c, "create", "first", "envoy") /\ CreatesGateway(c)
GcpCreateGatewayApi(c) == Is(c, "create", "first", "gcp") /\ CreatesGateway(c)
\* azure_apim's PUT is create-or-update.
ApimCreateGateway(c) ==
    /\ Is(c, "create", "first", "azure")
    /\ IF Named(req[c].name) # {} THEN Ends(c, None) /\ SameGateways ELSE CreatesGateway(c)
\* AWS takes any number of APIs of a name.
AwsCreateGateway(c) ==
    /\ Is(c, "create", "first", "aws")
    /\ AddsGateway(req[c].name, "available") /\ OnlyApis /\ Ends(c, None)

DeletesGateway(c) ==
    IF Named(req[c].name) = {} THEN GwRefused(c)
    ELSE \E i \in Named(req[c].name) : Drops(i) /\ GwDeleted(c)
\* The routes first, whether there is a gateway or not.
EnvoyDeleteGateway(c) ==
    Is(c, "delete", "wipe", "envoy") /\ req[c].left = {} /\ DeletesGateway(c)
ApimDeleteGateway(c) == Is(c, "delete", "first", "azure") /\ DeletesGateway(c)
AwsFindForDelete(c) ==
    /\ Is(c, "delete", "first", "aws")
    /\ IF Named(req[c].name) = {} THEN GwRefused(c)
       ELSE \E i \in Named(req[c].name) : GwGoes(c, [req[c] EXCEPT !.at = "api", !.id = i])
AwsDeleteGateway(c) ==
    /\ Is(c, "delete", "api", "aws")
    /\ IF StillThere(c) THEN Drops(req[c].id) /\ GwDeleted(c) ELSE GwRefused(c)
\* The gateway goes first; the configurations have names of their own, so
\* that none is deleted, and an API that has one is not deleted either.
GcpDeleteLive(c) ==
    /\ Is(c, "delete", "first", "gcp")
    /\ apis' = [i \in DOMAIN apis |->
                  IF i \in Named(req[c].name) THEN [apis[i] EXCEPT !.live = FALSE, !.table = NoRoutes]
                  ELSE apis[i]]
    /\ OnlyApis
    /\ Goes(c, [req[c] EXCEPT !.at = "api"])
GcpDeleteGatewayApi(c) ==
    /\ Is(c, "delete", "api", "gcp")
    /\ IF \E i \in Named(req[c].name) : apis[i].configured THEN GwRefused(c) ELSE DeletesGateway(c)

\* The process restarts: what aws_apigatewayv2 collected is gone.
GatewayRestart ==
    /\ backend # "inmem"
    /\ \E g \in GatewayNames : pending[g] # <<>> \/ intIDs[g] # {}
    /\ req' = [c \in Clients |-> Idle] /\ alone' = None /\ answer' = None
    /\ pending' = [g \in GatewayNames |-> <<>>] /\ intIDs' = [g \in GatewayNames |-> {}]
    /\ UNCHANGED <<service, backend, frontend, apis, httpRoutes, timers>>

-----------------------------------------------------------------------------
GatewaySteps(c) ==
    /\ req[c] # Idle
    /\ \/ DescribesRoutes(c) \/ ForgetsApi(c) \/ WipesRoute(c) \/ Wiped(c)
       \/ /\ backend = "inmem"
          /\ \/ InmemCreateGateway(c) \/ InmemDeleteGateway(c)
             \/ InmemDeployGateway(c)
       \/ /\ backend = "envoy"
          /\ \/ EnvoyGet(c) \/ EnvoyDeployRoutes(c) \/ EnvoyListRoutes(c)
             \/ EnvoyCreateGateway(c) \/ EnvoyDeleteGateway(c)
       \/ /\ backend = "azure"
          /\ \/ ApimListOps(c) \/ ApimDeployOps(c) \/ ApimCreateGateway(c)
             \/ ApimDeleteGateway(c)
       \/ /\ backend = "aws"
          /\ \/ AwsApiIDByName(c) \/ AwsGetRoutes(c) \/ AwsPublishRoutes(c)
             \/ AwsCreateDeployment(c) \/ AwsCreateGateway(c) \/ AwsFindForDelete(c)
             \/ AwsDeleteGateway(c)
       \/ /\ backend = "gcp"
          /\ \/ GcpCreateConfig(c) \/ GcpDeployGateway(c) \/ GcpPatchGateway(c)
             \/ GcpCreateGatewayApi(c) \/ GcpDeleteLive(c) \/ GcpDeleteGatewayApi(c)
GatewayNext ==
    /\ service = "apigateway"
    /\ \/ \E c \in Clients : GatewayRequests(c) \/ GatewaySteps(c) \/ (Dies(c) /\ SameGateways)
       \/ \E g \in GatewayNames : ScheduleAvailable(g) \/ UpdateApplied(g) \/ DeleteApplied(g)
       \/ GatewayRestart

GatewaySpec == ShimInit /\ GatewayInit /\ [][GatewayNext]_<<shimVars, gatewayVars>>

-----------------------------------------------------------------------------
(* Properties *)

Kept(r) == IF backend = "azure" THEN [r EXCEPT !.to = None, !.id = None] ELSE r

\* A deployment answered with success, that no other request overlapped and
\* none of whose deletions failed, leaves exactly its routes in force,
\* whatever table an earlier, possibly broken off, deployment left: as many
\* of each as were asked, and none of the old ones.  On gcp the operations it
\* started are taken as done, which the code does not wait for.
DeployedInForce ==
    (service = "apigateway" /\ answer # None)
      => LET table == InForce(answer.gateway) IN
         \A r \in Range(table) \cup {Kept(answer.routes[n]) : n \in DOMAIN answer.routes} :
           r # None => Cardinality({i \in Slots : table[i] = r})
                         = Cardinality({n \in DOMAIN answer.routes : Kept(answer.routes[n]) = r})
=============================================================================
