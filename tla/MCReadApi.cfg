\* Two processes with different logical keys; a run may crash and be resumed.
SPECIFICATION Spec
CONSTANTS
    None = None
    e1 = e1
    e2 = e2
    k1 = k1
    k2 = k2
    k3 = k3
    l1 = l1
    l2 = l2
    Keys = {k1, k2}
    Listings = {l1, l2}
    Executors = {e1, e2}
    Hashes = {"a", "b"}
    Details <- ThreeDetails
    Filters <- SampleFilters
    KeysOf <- OwnKeys
    MaxExecutions = 3
SYMMETRY OwnSymmetry
INVARIANTS
    DeactivationNeedsSuccess
    NeverDropsWhatItSaw
    ResultMatchesHistory
    HistoryTellsOneStory
    PagesCoverOnce
PROPERTIES
    FinishedRunsAreFinal
    MediansAreFinal
\* The bounded number of executions is used up in the end.
CHECK_DEADLOCK FALSE
