\* Four callers, a call timeout, both kinds of error, cancellation.
CONSTANTS
    Callers = {c1, c2, c3, c4}
    FailureThreshold = 3
    SuccessThreshold = 2
    ResetTimeout = 3
    HalfOpenMaxCalls = 3
    HasCallTimeout = TRUE
    Errors <- PoolErrors
    Failures <- PoolFailures
    Cancellable = TRUE
    CounterMod = 16
    MaxHalfOpenCalls = 7
SPECIFICATION Spec
SYMMETRY Symmetry
INVARIANTS TypeOK TripsInTime ProbeBudget
PROPERTIES TripsOnlyOnStreak ClosesOnlyOnRecovery ImplementsGate
