\* Room for every id: nothing is evicted, nothing expires.
CONSTANTS
    Requests = {r1, r2}
    NoRequest = NoRequest
    NumKeys = 2
    Ttl = 1
    MaxEntries = 4
    MaxTime = 0
    MaxChecks = 3
SPECIFICATION Spec
INVARIANTS AtMostOnce
