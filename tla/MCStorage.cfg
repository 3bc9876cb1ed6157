SPECIFICATION MCStorageSpec
CONSTANTS
    u1 = u1
    u2 = u2
    c1 = c1
    c2 = c2
    plain = plain
    html = html
    None = None
    Failed = Failed
    NoUpload = NoUpload
    Backends = {"inmem", "gcs", "azureblob", "aws", "minio"}
    Frontends = {"aws_s3", "gcs", "azure_blob"}
    Clients = {c1, c2}
    MaxKey = 2
    Uploads = {u1}
    MaxPart = 3
    PartLists <- McLists
    Types = {html}
    DefaultType = plain
    ComposeMax = 2
SYMMETRY MCStorageSymmetry
VIEW MCStorageView
INVARIANTS CompletedContent QuietAbortCleans
PROPERTY ObjectsStay
