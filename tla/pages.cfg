SPECIFICATION MCSpec
CONSTANTS
    W = 17
    Threshold = 2
    Sizes = {5, 14, 17, 27}
    Tags = {1, 2}
    MaxPages = 4
    ClearLinks = TRUE
    Types = {t1}
    Rids <- MCRids
    Capacity = 2
    MaxLabelPages = 4
    NoPage = NoPage
    PageIds <- MCPageIds
    Puts <- MCPuts
    Limit = 3
    DataKinds = {"node", "property"}
    PerPage = 2
    MaxFilePages = 8
    BucketOf <- MCBucketOf
    Records = {1, 2}
    PerBucketPage = 2
    MaxBucketPages = 4
INVARIANTS   PagesInOneChain PlacesKept PagesStayMapped BucketsExact
PROPERTIES CallsChangeOneNode ImplementsLru
