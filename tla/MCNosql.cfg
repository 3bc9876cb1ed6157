SPECIFICATION NosqlSpec
CONSTANTS
    c1 = c1
    c2 = c2
    None = None
    NoSchema = NoSchema
    Backends = {"inmem", "etcd", "gcp", "azure", "aws"}
    Clients = {c1, c2}
    Schemas = {"s1", "s2"}
    CosmosSchema = "s1"
    Keys = {"k1", "k2"}
    Tags = {"t1"}
    MaxTables = 2
SYMMETRY MCNosqlSymmetry
VIEW MCNosqlView
INVARIANTS ItemsBelong AckedKept
PROPERTIES AnsweredIsDone SchemaFixed
