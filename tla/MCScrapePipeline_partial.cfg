\* Two processes that may run the same logical key at the same time: what
\* docs/architecture/m1-01-database-schema.md:246 says of incomplete runs.
SPECIFICATION Spec
CONSTANTS
    None = None
    e1 = e1
    e2 = e2
    k1 = k1
    k2 = k2
    k3 = k3
    l1 = l1
    l2 = l2
    Keys = {k1, k2, k3}
    Listings = {l1}
    Executors = {e1, e2}
    Hashes = {"a", "b"}
    Details <- PriceDetails
    KeysOf <- SharedKeys
    MaxExecutions = 3
INVARIANTS
    IncompleteRunNeverDeactivates
CHECK_DEADLOCK FALSE
