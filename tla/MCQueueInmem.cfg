SPECIFICATION FairSpec
CONSTANTS
    Queues = {q1, q2}
    Clients = {c1, c2}
    Handles = {h1, h2, h3, h4}
    NoHandle = NoHandle
    NoMsg = 0
    MaxMsgs = 2
    TagKeys = {}
    Attrs <- MCAttrs
    DefaultAttrs <- MCDefaultAttrs
    Sizes = {1, 2}
    Delays = {0}
    Visibilities = {0, 2}
    Waits = {0, 1}
    Batches = {0}
    MaxBatch = 2
INVARIANTS Conservation HandleAgreement
PROPERTIES LeaseExclusive HandleNamesOneDelivery LongPollReturns ImplementsService
