\* One request at a time, each expired before the next.
CONSTANTS
    Requests = {r1}
    NoRequest = NoRequest
    NumKeys = 2
    Ttl = 1
    MaxEntries = 2
    MaxTime = 6
    MaxChecks = 3
SPECIFICATION Spec
INVARIANTS IndexBounded
