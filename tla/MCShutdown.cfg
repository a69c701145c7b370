\* Two components and two connections that may never be closed; the tasks end.
CONSTANTS
    Components = {s1, s2}
    Conns = {c1, c2}
    Timeout = 2
SPECIFICATION FairSpec
INVARIANTS TypeOK NoMissedShutdown
PROPERTIES FullGrace ShutdownCompletes
CHECK_DEADLOCK FALSE
