SPECIFICATION StorageSpec
CONSTANTS
    u1 = u1
    u2 = u2
    c1 = c1
    c2 = c2
    plain = plain
    html = html
    None = None
    Failed = Failed
    NoUpload = NoUpload
    Backends = {"gcs"}
    Frontends = {"aws_s3"}
    Clients = {c1, c2}
    MaxKey = 1
    Uploads = {u2}
    MaxPart = 5
    PartLists <- McLists
    Types = {html}
    DefaultType = plain
    ComposeMax = 2
INVARIANT AssembledAsDeclared
