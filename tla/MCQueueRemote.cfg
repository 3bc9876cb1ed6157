SPECIFICATION RemoteSpec
CONSTANTS
    Backends = {"aws", "gcp", "azure", "nats"}
    Clients = {c1, c2}
    Nobody = Nobody
    TagKeys = {"k1", "k2"}
    Timeouts = {0, 2, 3}
    Retentions = {0, 2}
    AckMax = 2
    DefaultVis = 1
    DefaultRet = 1
INVARIANTS QuietDeleteCleans QuietCreateAllOrNothing
