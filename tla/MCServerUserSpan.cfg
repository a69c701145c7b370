CONSTANTS
    Environments <- MCEnvironments
    Files <- MCFiles
    Path <- MCPath
    Binds = {"loopback", "empty"}
    Limits = {0}
    Urls = {"blank", "unparsable"}
    OidcChoices <- MCOidcChoices
    CorsChoices <- MCCorsChoices
    MiddlewareChoices <- MCMiddlewareChoices
    MaxChanges = 2
    Prefixes <- MCPrefixes
    RecorderInstalled = FALSE
    FirstMetricsRoute <- OnlyRouter
    Roles = {"admin", "auditor"}
    AppRoutes = {"/app", "/ready"}
    Faults = {"nothing", "issuer_down", "issuer_broken", "keys_down", "store_down"}
SPECIFICATION Spec
INVARIANT UserRecorded
CHECK_DEADLOCK FALSE
