\* Two processes that may run the same logical key at the same time.
SPECIFICATION Spec
CONSTANTS
    None = None
    e1 = e1
    e2 = e2
    k1 = k1
    k2 = k2
    k3 = k3
    l1 = l1
    l2 = l2
    Keys = {k1, k2, k3}
    Listings = {l1}
    Executors = {e1, e2}
    Hashes = {"a", "b"}
    Details <- PriceDetails
    KeysOf <- SharedKeys
    MaxExecutions = 3
INVARIANTS
    LifecycleLedger
    ObservationsArchived
    ListingReflectsObservation
    ChangesComeFromOtherRuns
PROPERTIES
    HistoryOnlyGrows
    ImplementsLifecycle
\* The bounded number of executions is used up in the end.
CHECK_DEADLOCK FALSE
