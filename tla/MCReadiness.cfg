CONSTANTS
    FailureThreshold = 2
    SuccessThreshold = 2
    ResetTimeout = 1
    HalfOpenMaxCalls = 2
    CounterMod = 16
    Targets = {"database", "api"}
    Configured = {"api"}
    Callers = {"c1", "c2", "c3"}
    Serves <- MCServes
    Outcomes = {"ok", "failure"}
    MaxHalfOpenCalls = 3
SPECIFICATION Spec
INVARIANTS TypeOK TripsPerTarget Independent
PROPERTIES ReadyAgain Recovers
