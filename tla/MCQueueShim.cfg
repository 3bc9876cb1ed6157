SPECIFICATION ShimSpec
CONSTANTS
    Queues = {q1}
    Clients = {c1, c2}
    Handles = {h1, h2, h3}
    NoHandle = NoHandle
    NoMsg = 0
    MaxMsgs = 2
    TagKeys = {"k1"}
    Attrs <- MCAttrs
    DefaultAttrs <- MCDefaultAttrs
    Sizes = {1}
    Delays = {0}
    Visibilities = {0, 1}
    Waits = {0, 1}
    Batches = {1}
    MaxBatch = 1
    Frontends = {"aws", "gcp", "azure"}
    TagSets <- MCTagSets
    Bodies <- MCBodies
    AckBatches = {2}
    HugeSize = 2
    GcpAckDefault = 1
    GcpPullWait = 1
PROPERTIES LapsedLockNotRenewed RequestsEnd
