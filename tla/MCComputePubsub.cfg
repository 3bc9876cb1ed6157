SPECIFICATION MCSpec
CONSTANTS
    Deployments <- MCDeployments
    Clients = {c1, c2}
    None = None
    VmNames = {101}
    DefaultVm = 200
    DefaultDisk = 300
    DefaultSnapshot = 400
    MaxMade = 3
    MaxCount = 2
    NetNames = {101}
    Matches <- MCMatches
    Cidrs = {"any"}
    AllowLists <- MCAllowLists
    RangeLists <- MCRangeLists
    AnyRange = "any"
    NetHosts = {201}
    MaxIds = 2
    MaxRules = 2
    Topics = {t1, t2}
    Subs = {"s"}
    MaxMsgs = 2
    MaxDeliveries = 2
    MaxLinks = 2
SYMMETRY MCSymmetry
INVARIANTS PutIsIdempotent AttachmentKept FirewallAsAsked GrantsKept DueIsKept
CHECK_DEADLOCK FALSE
