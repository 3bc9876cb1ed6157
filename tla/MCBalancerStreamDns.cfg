SPECIFICATION MCSpec
CONSTANTS
    Deployments <- MCDeployments
    Clients = {c1, c2}
    None = None
    LbNames = {301}
    PoolNames = {401}
    LbPorts = {80}
    LbTargets = {"h1", "h2"}
    Paths = {501}
    Priorities = {1}
    MaxLbIds = 1
    StreamClusters = {k1}
    KafkaCluster = k1
    StreamTopics = {t1, t2}
    MaxRecords = 2
    MaxTopicCalls = 3
    Zones = {z1}
    UserSets = {"a", "d"}
    Delegation = "d"
    SetValues = {"v1"}
    MaxClock = 2
    MaxSerial = 3
SYMMETRY MCSymmetry
INVARIANTS AssuredKept ForwardingRuleDeletesParts FetchContinues CommittedWithinLog ServedFollows ChangeInForce
CHECK_DEADLOCK FALSE
