\* Four listings on two pages, one that may appear, and one change of the site.
SPECIFICATION FairSpec
CONSTANTS
    None = None
    Text = Text
    ParseError = ParseError
    l1 = l1
    l2 = l2
    l3 = l3
    l4 = l4
    l5 = l5
    Ids = {l1, l2, l3, l4, l5}
    Kind = "chata"
    Ads <- SampleAds
    SiteAtStart <- FourListed
    Limit = 2
    MaxChanges = 1
    MaxAttempts = 3
    MinDelay = 3
    BackoffBase = 2
    Latencies = {0, 2}
    LongAgo = 8
INVARIANTS
    RequestBudget
    NothingIsPushedOut
    DetailsFitSchema
PROPERTIES
    PoliteRequests
    ImplementsListingFeed
    TraversalEnds
\* The traversal ends.
CHECK_DEADLOCK FALSE
