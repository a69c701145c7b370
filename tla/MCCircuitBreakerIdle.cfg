\* Thresholds as in the parse test (success_threshold > half_open_max_calls), scaled.
CONSTANTS
    Callers = {c1, c2}
    FailureThreshold = 2
    SuccessThreshold = 3
    ResetTimeout = 3
    HalfOpenMaxCalls = 1
    HasCallTimeout = TRUE
    Errors <- PoolErrors
    Failures <- PoolFailures
    Cancellable = TRUE
    CounterMod = 16
    MaxHalfOpenCalls = 7
SPECIFICATION Spec
INVARIANTS IdleHalfOpenAdmits
