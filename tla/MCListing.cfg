SPECIFICATION ListingSpec
CONSTANTS
    Listers = {"inmem buckets", "inmem objects", "aws objects", "azure objects", "gcs objects", "minio objects", "clusters"}
    MaxName = 4
    MaxResults = 2
INVARIANTS KeyTokenListingComplete
PROPERTIES ListingEnds
