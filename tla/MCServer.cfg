CONSTANTS
    Environments <- MCEnvironments
    Files <- MCFiles
    Path <- MCPath
    Binds = {"loopback", "empty"}
    Limits = {0}
    Urls = {"blank", "unparsable"}
    OidcChoices <- MCOidcChoices
    CorsChoices <- MCCorsChoices
    MiddlewareChoices <- MCMiddlewareChoices
    MaxChanges = 2
    Prefixes <- MCPrefixes
    RecorderInstalled = TRUE
    FirstMetricsRoute <- LaterRouter
    Roles = {"admin", "auditor"}
    AppRoutes = {"/app", "/ready"}
    Faults = {"nothing", "issuer_down", "issuer_broken", "keys_down", "store_down"}
SPECIFICATION Spec
INVARIANTS
    TypeOK ValidatedBuilds ProxyTrusted
    GuardedHandlers BearerWins DependenciesMet ProbesStayOpen Traceable
PROPERTY AnsweredInTime
CHECK_DEADLOCK FALSE
