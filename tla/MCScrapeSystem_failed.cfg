\* A trigger that times out next to the job it started, and what
\* docs/architecture/m1-01-database-schema.md:246 says of failed runs.
SPECIFICATION SystemSpec
CONSTANTS
    None = None
    c1 = c1
    c2 = c2
    e1 = e1
    e2 = e2
    k1 = k1
    k2 = k2
    l1 = l1
    Keys = {k1, k2}
    ManualKeys = {k1}
    Listings = {l1}
    Executors = {e1, e2}
    Handlers = {c1, c2}
    Hashes = {"a"}
    Details <- OneDetail
    KeysOf <- OwnKeys
    MaxExecutions = 2
    MaxRequests = 3
SYMMETRY Symmetry
INVARIANTS
    FailedRunNeverDeactivates
\* The bounded numbers of requests and executions are used up in the end.
CHECK_DEADLOCK FALSE
