\* Two scrapers whose runs overlap and a back-fill, two listings and two details of
\* them at two places, a limit of one request for the back-fill and of three for a client.
SPECIFICATION FairSpec
CONSTANTS
    None = None
    l1 = l1
    l2 = l2
    town = town
    lake = lake
    scraper = scraper
    other = other
    backfill = backfill
    Listings = {l1, l2}
    ListingId <- TwoListings
    Places = {town, lake}
    Seconds <- SampleSeconds
    Scrapers = {scraper, other}
    Backfills = {backfill}
    MaxAttempts = 2
    RequestLimit = 3
    Limit = 1
    MaxDetails = 2
INVARIANTS
    WithinBudget
    ShownIsCurrent
    CleanBackfillCovers
PROPERTIES
    EnrichmentsEnd
\* The bounded details and the back-fill are used up in the end.
CHECK_DEADLOCK FALSE
