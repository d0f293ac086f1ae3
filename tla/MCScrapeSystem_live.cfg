\* Manual runs only, and no process dies.
SPECIFICATION SteadySpec
CONSTANTS
    None = None
    c1 = c1
    c2 = c2
    e1 = e1
    e2 = e2
    k1 = k1
    k2 = k2
    l1 = l1
    Keys = {k1, k2}
    ManualKeys = {k1, k2}
    Listings = {l1}
    Executors = {e1, e2}
    Handlers = {c1}
    Hashes = {"a"}
    Details <- OneDetail
    KeysOf <- ManualOnly
    MaxExecutions = 2
    MaxRequests = 2
PROPERTIES
    ReservedRunSettles
    ExecutionsEnd
\* The bounded numbers of requests and executions are used up in the end.
CHECK_DEADLOCK FALSE
