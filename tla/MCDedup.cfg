\* A cache of one entry under two request ids: every check is at capacity.
CONSTANTS
    Requests = {r1, r2}
    NoRequest = NoRequest
    NumKeys = 2
    Ttl = 1
    MaxEntries = 1
    MaxTime = 1
    MaxChecks = 3
SPECIFICATION FairSpec
INVARIANTS TypeOK NoOrphan MarkHeld
PROPERTIES CheckReturns
