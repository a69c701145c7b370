------------------------------- MODULE Stack --------------------------------
(***************************************************************************)
(* How the router of a service is built: FluentRouter                      *)
(* (src/src/fluent/router.rs, builder.rs) and the setup_* methods spread   *)
(* over src/src/fluent/.                                                   *)
(*                                                                         *)
(* A router maps each path to the layers a request for it passes,          *)
(* outermost first, and has a fallback for the other paths.  `layer` wraps *)
(* the routes there are and the fallback, `route_layer` only the routes    *)
(* there are; a route added later has neither.  `halt` tells how the       *)
(* building ended early: an error kind or a panic.  All features of the    *)
(* crate are on.                                                           *)
(***************************************************************************)
EXTENDS Settings

CONSTANTS
    AppRoutes, \* paths the application may register before setup_middleware
    Faults,    \* what may be wrong outside while the service starts
    RecorderInstalled, \* does the process have a global metrics recorder before?
    FirstMetricsRoute  \* the metrics route of the process's first router, if this
                       \* is a later one (METRICS_PATH)

ASSUME StackAssumption ==
    /\ AppRoutes \subseteq Path
    /\ RecorderInstalled \in BOOLEAN /\ FirstMetricsRoute \in Option(Path)
    /\ FirstMetricsRoute # None => RecorderInstalled

VARIABLES router, setUp
stackVars == <<router, setUp>>

\* `own` are the paths of the application itself.
NewRouter == [routes |-> << >>, fallback |-> << >>, own |-> {}, halt |-> "none"]

\* The first halt is the one that counts.
Halt(r, bad, why) == IF bad /\ r.halt = "none" THEN [r EXCEPT !.halt = why] ELSE r

\* The routes, and paths without any layer.
Add(routes, paths) ==
    [p \in DOMAIN routes \union paths |-> IF p \in paths THEN << >> ELSE routes[p]]

Wrap(l, routes) == [p \in DOMAIN routes |-> <<l>> \o routes[p]]

\* Router::layer
Layer(r, l) == [r EXCEPT !.routes = Wrap(l, @), !.fallback = <<l>> \o @]

\* Router::route_layer, which panics when there is no route to wrap
RouteLayer(r, l) ==
    [Halt(r, DOMAIN r.routes = {}, "panic") EXCEPT !.routes = Wrap(l, @)]

\* Router::route for some paths, which panics on one that is taken or does not
\* start with /
Route(r, paths) ==
    IF paths \intersect (DOMAIN r.routes \union {"relative"}) # {}
    THEN Halt(r, TRUE, "panic") ELSE [r EXCEPT !.routes = Add(@, paths)]

\* Router::nest_service, which cannot nest at the root
Nest(r, paths) == Route(Halt(r, "/" \in paths, "panic"), paths)

\* Router::fallback_service: a new fallback, without the layers of the old one
Fallback(r) == [r EXCEPT !.fallback = << >>]

-----------------------------------------------------------------------------
\* The steps of setup_middleware, innermost first.
Mapped(c, protected) ==
    {i \in DOMAIN c.directories :
        c.directories[i].route # None /\ c.directories[i].protected = protected}

MappedPaths(c, protected) == {c.directories[i].route[1] : i \in Mapped(c, protected)}

\* Two of these directories want the same path.
MappedTwice(c, protected) ==
    \E i, j \in Mapped(c, protected) :
        i # j /\ c.directories[i].route = c.directories[j].route

setup_directories(c, r, protected) ==
    Nest(Halt(r, MappedTwice(c, protected), "panic"), MappedPaths(c, protected))

setup_protected_files(c, r) == setup_directories(c, r, TRUE)

setup_browser_login_redirect(c, r) ==
    IF CodeFlow(c) /\ c.oidc[1].auto_redirect_to_login /\ is_enabled(c, "Oidc")
    THEN RouteLayer(r, "browser_redirect") ELSE r

\* discover_provider_metadata, after the retries
Discover(r, fault) ==
    Halt(Halt(r, fault = "issuer_down", "Io"), fault = "issuer_broken", "Configuration")

\* setup_oidc looks the keys up at the issuer unless their URL is configured.
setup_oidc(c, r, fault) ==
    IF c.oidc = None \/ ~is_enabled(c, "Oidc") THEN r
    ELSE LET found == IF c.oidc[1].jwks_url = None THEN Discover(r, fault) ELSE r
             fetched == Halt(found, fault = "keys_down", "Io")
             bearer == RouteLayer(fetched, "bearer")
         IN  IF CodeFlow(c) THEN Layer(bearer, "session_to_identity") ELSE bearer

setup_basic_auth(c, r) ==
    IF c.basic_auth # None /\ is_enabled(c, "BasicAuth")
    THEN RouteLayer(r, "basic_auth") ELSE r

setup_proxy_oidc(c, r) ==
    IF c.proxy_oidc # None /\ is_enabled(c, "ProxyOidc")
    THEN RouteLayer(r, "proxy_oidc") ELSE r

setup_public_files(c, r) == setup_directories(c, r, FALSE)

OidcRoutes(c) == {c.oidc[1].login_route, c.oidc[1].callback_route, c.oidc[1].logout_route}

\* Two of the login, callback and logout routes are the same.
OidcRoutesClash(c) ==
    \/ c.oidc[1].login_route \in {c.oidc[1].callback_route, c.oidc[1].logout_route}
    \/ c.oidc[1].callback_route = c.oidc[1].logout_route

\* setup_oidc_routes: the client always asks the issuer
setup_oidc_routes(c, r, fault) ==
    IF ~CodeFlow(c) \/ ~is_enabled(c, "Oidc") THEN r
    ELSE LET client == Halt(Discover(r, fault), fault = "keys_down", "Io")
             free == Halt(client, OidcRoutesClash(c), "panic")
         IN  Layer(Route(free, OidcRoutes(c)), "oidc_client")

\* Defective variant: only the routes get the layer.
SetupUserSpanOnRoutes(r) == RouteLayer(r, "user_span")

setup_user_span(r) == Layer(r, "user_span")

\* setup_session_handling does not ask whether Session is enabled.
setup_session_handling(c, r, fault) ==
    LET failure == IF c.session_store = "Postgres" THEN "Database" ELSE "Configuration"
        keyless == is_external(c.session_store) /\ c.session_signing_key = None
    IN  Layer(Halt(Halt(r, keyless, "Configuration"),
                   is_external(c.session_store) /\ fault = "store_down", failure),
              "session")

setup_deduplication(c, r) ==
    IF /\ is_enabled(c, "RequestDeduplication") /\ is_enabled(c, "RequestId")
       /\ c.deduplication # None
    THEN Layer(r, "dedup") ELSE r

LayerIf(c, r, m, l) == IF is_enabled(c, m) THEN Layer(r, l) ELSE r

setup_concurrency_limit(c, r) == LayerIf(c, r, "ConcurrencyLimit", "concurrency")
setup_max_payload_size(c, r) == LayerIf(c, r, "MaxPayloadSize", "payload")

setup_compression(c, r) ==
    IF c.support_compression
    THEN LayerIf(c, LayerIf(c, r, "Compression", "decompression"), "Compression",
                 "compression")
    ELSE r

setup_path_normalization(c, r) == LayerIf(c, r, "PathNormalization", "normalize")
setup_sensitive_headers(c, r) == LayerIf(c, r, "SensitiveHeaders", "sensitive")
setup_api_versioning(c, r) == LayerIf(c, r, "ApiVersioning", "version")

\* Credentials and a "*" in one policy: Router::layer panics on such a layer.
StarWithCredentials(c) ==
    c.cors # None /\ c.cors[1].allow_credentials /\ c.cors[1].stars # {}

\* setup_cors: the configured policy, or one that depends on the environment
setup_cors(c, r) ==
    LayerIf(c, Halt(r, is_enabled(c, "Cors") /\ StarWithCredentials(c), "panic"), "Cors",
            IF c.cors # None THEN "cors_configured"
            ELSE IF c.is_production THEN "cors_restrictive" ELSE "cors_permissive")

setup_helmet(c, r) ==
    IF ~is_enabled(c, "SecurityHeaders") THEN r
    ELSE LET hsts == IF c.hsts THEN Layer(Layer(r, "helmet"), "hsts") ELSE Layer(r, "helmet")
         IN  IF c.csp THEN Layer(hsts, "csp") ELSE hsts

setup_logging(c, r) == LayerIf(c, r, "Logging", "trace")

\* The path is that of the first router of the process.
MetricsRoute(c) ==
    IF FirstMetricsRoute = None THEN c.metrics_route ELSE FirstMetricsRoute[1]

\* setup_metrics: the default recorder panics when there is one already, the
\* customized one logs it.
setup_metrics(c, r) ==
    IF c.with_metrics /\ is_enabled(c, "Metrics")
    THEN Layer(Route(Halt(r, RecorderInstalled /\ ~c.custom_metrics, "panic"),
                     {MetricsRoute(c)}), "metrics")
    ELSE r

setup_readiness(c, r) ==
    IF is_enabled(c, "Readiness") THEN Route(r, {c.readiness_route}) ELSE r

setup_timeout(c, r) ==
    IF c.request_timeout # None THEN LayerIf(c, r, "Timeout", "timeout") ELSE r

NanosPerSec == 1000000000

\* setup_rate_limiting: the limiter panics on an interval of 0 nanoseconds
setup_rate_limiting(c, r) ==
    IF c.max_requests_per_sec > 0 /\ is_enabled(c, "RateLimiting")
    THEN Layer(Halt(r, NanosPerSec \div c.max_requests_per_sec = 0, "panic"), "rate")
    ELSE r

\* Defective variant: the id is set inside the layer that puts it on responses.
SetupRequestIdSwapped(c, r) ==
    IF is_enabled(c, "RequestId")
    THEN Layer(Layer(r, "set_id"), "propagate_id") ELSE r

\* The id is set by the outer of the two layers, and put on the response by
\* the inner one.
setup_request_id(c, r) ==
    IF is_enabled(c, "RequestId")
    THEN Layer(Layer(r, "propagate_id"), "set_id") ELSE r

setup_liveness(c, r) ==
    IF is_enabled(c, "Liveness") THEN Route(r, {c.liveness_route}) ELSE r

setup_catch_panic(c, r) == LayerIf(c, r, "CatchPanic", "catch_panic")

setup_fallback_files(c, r) ==
    IF HasFallback(c) THEN Fallback(r) ELSE r

-----------------------------------------------------------------------------
\* Defective variant: the session layer goes in before the login routes.
AuthenticationSessionFirst(c, r, fault) ==
    LET r1 == setup_browser_login_redirect(c, setup_protected_files(c, r))
        r2 == setup_proxy_oidc(c, setup_basic_auth(c, setup_oidc(c, r1, fault)))
        r3 == setup_session_handling(c, setup_public_files(c, r2), fault)
    IN  setup_user_span(setup_oidc_routes(c, r3, fault))

\* FluentRouter::setup_middleware, in the groups of its documentation
Authentication(c, r, fault) ==
    LET r1 == setup_browser_login_redirect(c, setup_protected_files(c, r))
        r2 == setup_proxy_oidc(c, setup_basic_auth(c, setup_oidc(c, r1, fault)))
        r3 == setup_oidc_routes(c, setup_public_files(c, r2), fault)
    IN  setup_session_handling(c, setup_user_span(r3), fault)

RequestShaping(c, r) ==
    LET r1 == setup_max_payload_size(c, setup_concurrency_limit(c, setup_deduplication(c, r)))
        r2 == setup_path_normalization(c, setup_compression(c, r1))
    IN  setup_api_versioning(c, setup_sensitive_headers(c, r2))

CrossCutting(c, r) ==
    setup_metrics(c, setup_logging(c, setup_helmet(c, setup_cors(c, r))))

\* Defective variant: the liveness route is added with the readiness route.
OperationalLivenessInside(c, r) ==
    LET r1 == setup_timeout(c, setup_liveness(c, setup_readiness(c, r)))
        r2 == setup_request_id(c, setup_rate_limiting(c, r1))
    IN  setup_fallback_files(c, setup_catch_panic(c, r2))

Operational(c, r) ==
    LET r1 == setup_rate_limiting(c, setup_timeout(c, setup_readiness(c, r)))
        r2 == setup_liveness(c, setup_request_id(c, r1))
    IN  setup_fallback_files(c, setup_catch_panic(c, r2))

\* Defective variant: the timeout goes in with the authentication.
AssembledTimeoutInside(c, r, fault) ==
    Operational([c EXCEPT !.request_timeout = None],
        CrossCutting(c, RequestShaping(c, setup_timeout(c, Authentication(c, r, fault)))))

Assembled(c, r, fault) ==
    Operational(c, CrossCutting(c, RequestShaping(c, Authentication(c, r, fault))))

-----------------------------------------------------------------------------
\* FluentRouter::with_state (and without_state) validates and creates the pool.
with_state ==
    LET c == cfg
        e == IF validate(c) # "none" THEN validate(c)
             ELSE IF c.url = "unparsable" THEN From.sqlx ELSE "none"
    IN  /\ stage = "configuring"
        /\ \/ e = "none" /\ stage' = "building" /\ UNCHANGED <<cfg, error>>
           \/ e # "none" /\ Refused(e)
        /\ UNCHANGED <<changes, secrets, declared, router, setUp>>

Stop(why) == stage' = "failed" /\ error' = why /\ UNCHANGED <<cfg, changes, secrets, declared>>

\* The application's own route, nest, route_service, merge and with_openapi
\* calls, each for a path of its own.  Routes added after setup_middleware are
\* not modelled.
Register ==
    /\ stage = "building" /\ ~setUp
    /\ \E p \in AppRoutes \ router.own :
          router' = [Route(router, {p}) EXCEPT !.own = @ \union {p}]
    /\ UNCHANGED <<settings, setUp>>

setup_middleware ==
    /\ stage = "building" /\ ~setUp
    /\ \E fault \in Faults :
          /\ router' = Assembled(cfg, router, fault)
          /\ \/ router'.halt = "none" /\ setUp' = TRUE /\ UNCHANGED settings
             \/ router'.halt # "none" /\ Stop(router'.halt) /\ UNCHANGED setUp

\* FluentRouter::start binds the address and serves.
start ==
    /\ stage = "building" /\ setUp
    /\ \/ stage' = "serving" /\ UNCHANGED <<cfg, error, changes, secrets, declared>>
       \/ Stop(From.std_io)
    /\ UNCHANGED <<router, setUp>>

StackInit == router = NewRouter /\ setUp = FALSE

Assemble == with_state \/ Register \/ setup_middleware \/ start
=============================================================================
