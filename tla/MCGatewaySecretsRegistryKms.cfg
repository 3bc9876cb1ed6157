SPECIFICATION MCSpec
CONSTANTS
    Deployments <- MCDeployments
    Clients = {c1, c2}
    None = None
    GatewayNames = {"g"}
    RouteKeys = {"k1"}
    Targets = {"u"}
    Operations = {"o1"}
    MaxRoutes = 2
    MaxApis = 2
    MaxTimers = 1
    Labels = {"t1"}
    Description = "d"
    GivenLabels = {{}, {"t1", "d"}}
    VersionPage = 1
    MaxValues = 2
    MaxSecrets = 2
    Repos = {"r1"}
    Digests = {"d1", "d2"}
    ImageTags = {"t1", "t2"}
    Chunks = {1}
    MaxUploads = 1
    MaxChunks = 2
    ChosenIds = {1}
    MaxMaterial = 2
    KeyRing = KeyRing
    Kids = {"rsa1", "rsa2"}
    Ttl = 2
    FetchTime = 1
SYMMETRY MCSymmetry
INVARIANTS DeployedInForce VersionsTold TagsResolve DeletedIsGone StillReadable
PROPERTIES ForcedDeleteFrees LookupsAreTimely
CHECK_DEADLOCK FALSE
