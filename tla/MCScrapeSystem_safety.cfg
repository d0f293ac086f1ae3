\* A manual key next to a scheduled one; everything may crash.
SPECIFICATION SystemSpec
CONSTANTS
    None = None
    c1 = c1
    c2 = c2
    e1 = e1
    e2 = e2
    k1 = k1
    k2 = k2
    l1 = l1
    Keys = {k1, k2}
    ManualKeys = {k1}
    Listings = {l1}
    Executors = {e1, e2}
    Handlers = {c1, c2}
    Hashes = {"a"}
    Details <- OneDetail
    KeysOf <- OwnKeys
    MaxExecutions = 3
    MaxRequests = 3
SYMMETRY Symmetry
INVARIANTS
    SystemTypeOK
    OneExecutionPerReservation
    SuccessTellsTheTruth
\* The bounded numbers of requests and executions are used up in the end.
CHECK_DEADLOCK FALSE
