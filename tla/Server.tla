------------------------------- MODULE Server -------------------------------
(***************************************************************************)
(* A request on its way through the service that Settings configured and   *)
(* Stack assembled.  It passes the layers of its route from the outermost  *)
(* to the innermost and reaches the handler, unless a layer answers it; an *)
(* answer passes the layers outside the one that gave it.  The layers are  *)
(* the middleware functions of src/src/fluent/ and tower's own.            *)
(*                                                                         *)
(* What a request carries is chosen when a layer first looks at it.        *)
(***************************************************************************)
EXTENDS Stack

CONSTANTS
    Roles,   \* roles an identity may have
    Prefixes \* pairs of paths, the second a proper prefix of the first

VARIABLE req
vars == <<settings, stackVars, req>>

Authorizations ==
    {"none", "basic_ok", "basic_wrong", "basic_garbled", "bearer_ok",
     "bearer_anonymous", "bearer_bad"}

\* What a request may carry, header by header.
Carried ==
    [authorization |-> Authorizations, api_key |-> {"none", "ok", "wrong", "garbled"},
     session |-> {"none", "live"}, accept |-> {"html", "other"},
     user_header |-> {"none", "user"}, proxy_secret |-> {"none", "right"},
     peer |-> {"proxy", "other"}]

Unread ==
    [authorization |-> "unread", api_key |-> "unread", session |-> "unread",
     accept |-> "unread", user_header |-> "unread", proxy_secret |-> "unread",
     peer |-> "unread"]

NoRequest ==
    [path |-> "none", layers |-> << >>, at |-> 0, has |-> Unread,
     identity |-> "none", span |-> "none", status |-> "idle", from |-> 0]

Reads(h) == IF req.has[h] = "unread" THEN Carried[h] ELSE {req.has[h]}

InHandler == req.status = "open" /\ req.at = Len(req.layers) + 1

Here(l) == req.status = "open" /\ req.at <= Len(req.layers) /\ req.layers[req.at] = l

\* The request goes on to the next layer as r.
Goes(r) == req' = [r EXCEPT !.at = @ + 1] /\ UNCHANGED <<settings, stackVars>>

\* Layer i, or the handler, answers.
Answers(r, status, i) ==
    req' = [r EXCEPT !.status = status, !.from = i] /\ UNCHANGED <<settings, stackVars>>

\* Has the request passed layer l?
Passed(l) == \E i \in 1..Len(req.layers) : i < req.at /\ req.layers[i] = l

-----------------------------------------------------------------------------
Init == SettingsInit /\ StackInit /\ req = NoRequest

\* A connection delivers a request: for a route, or for some other path.
Arrive ==
    /\ stage = "serving" /\ req.status = "idle"
    /\ \E p \in DOMAIN router.routes \union {"elsewhere"} :
          req' = [NoRequest EXCEPT
                    !.path = p, !.status = "open", !.at = 1,
                    !.layers = IF p = "elsewhere" THEN router.fallback
                               ELSE router.routes[p]]
    /\ UNCHANGED <<settings, stackVars>>

\* Layers that let every request pass; what they do to it is not modelled.
Transparent ==
    /\ \E l \in {"catch_panic", "set_id", "propagate_id", "timeout", "metrics",
                 "trace", "csp", "hsts", "helmet", "version", "sensitive",
                 "normalize", "compression", "session", "oidc_client"} : Here(l)
    /\ Goes(req)

\* Layers that may answer instead: the limits, the decompression of a body in
\* an unknown encoding, a duplicate request id, a CORS preflight.
Refusals ==
    [rate |-> "429", payload |-> "413", decompression |-> "415", dedup |-> "409",
     cors_configured |-> "200", cors_restrictive |-> "200", cors_permissive |-> "200"]

MayRefuse ==
    \E l \in DOMAIN Refusals :
        Here(l) /\ (Goes(req) \/ Answers(req, Refusals[l], req.at))

\* The concurrency limit makes a request wait until there is a permit.
TakePermit == Here("concurrency") /\ Goes(req)

\* record_user_to_span
record_user_to_span == Here("user_span") /\ Goes([req EXCEPT !.span = req.identity])

-----------------------------------------------------------------------------
is_trusted_source(proxy, secret, peer) ==
    \/ effective_shared_secret(proxy) # None /\ secret = "right"
    \/ proxy.trusted_proxies /\ peer = "proxy"
    \/ ~has_trust_anchor(proxy) /\ ~cfg.is_production

\* extract_identity: the user header is the one that is required
extract_identity(u) == IF u = "user" THEN "proxy" ELSE req.identity

proxy_oidc_middleware ==
    /\ Here("proxy_oidc")
    /\ \E u \in Reads("user_header"), s \in Reads("proxy_secret"), p \in Reads("peer") :
          Goes([req EXCEPT
                  !.has.user_header = u, !.has.proxy_secret = s, !.has.peer = p,
                  !.identity = IF is_trusted_source(cfg.proxy_oidc[1], s, p)
                               THEN extract_identity(u) ELSE @])

\* try_basic_auth: the header is of another scheme or absent, in a bad format,
\* or names one of the users with the right password, or does not.
try_basic_auth(b, a) ==
    CASE a = "basic_garbled" -> "garbled"
      [] a = "basic_ok" /\ b.users # {} -> "basic"
      [] a \in {"basic_ok", "basic_wrong"} -> "invalid"
      [] OTHER -> "absent"

try_api_key_auth(b, k) ==
    CASE k = "none" -> "absent"
      [] k = "garbled" -> "garbled"
      [] k = "ok" /\ b.api_keys # {} -> "api_key"
      [] OTHER -> "invalid"

\* try_authenticate: Basic first, then the API key; a header in a bad format
\* ends it at once, one that does not match only if nothing else does.
try_authenticate(b, a, k) ==
    LET basic == IF b.mode = "ApiKey" THEN "absent" ELSE try_basic_auth(b, a)
        key == IF b.mode = "Basic" THEN "absent" ELSE try_api_key_auth(b, k)
    IN  CASE basic \in {"garbled", "basic"} -> basic
          [] key \in {"garbled", "api_key"} -> key
          [] OTHER -> IF "invalid" \in {basic, key} THEN "invalid" ELSE "absent"

\* Defective variant: a request without credentials passes in every mode.
BasicAuthOptional ==
    /\ Here("basic_auth")
    /\ \E a \in Reads("authorization"), k \in Reads("api_key") :
          LET outcome == try_authenticate(cfg.basic_auth[1], a, k)
              r == [req EXCEPT !.has.authorization = a, !.has.api_key = k]
          IN  \/ outcome \in {"basic", "api_key"} /\ Goes([r EXCEPT !.identity = outcome])
              \/ outcome = "garbled" /\ Answers(r, "400", req.at)
              \/ outcome = "invalid" /\ Answers(r, "401", req.at)
              \/ outcome = "absent" /\ Goes(r)

basic_auth_middleware ==
    /\ Here("basic_auth")
    /\ \E a \in Reads("authorization"), k \in Reads("api_key") :
          LET outcome == try_authenticate(cfg.basic_auth[1], a, k)
              r == [req EXCEPT !.has.authorization = a, !.has.api_key = k]
          IN  \/ outcome \in {"basic", "api_key"} /\ Goes([r EXCEPT !.identity = outcome])
              \/ outcome = "garbled" /\ Answers(r, "400", req.at)
              \/ outcome = "invalid" /\ Answers(r, "401", req.at)
              \/ outcome = "absent" /\ CodeFlow(cfg) /\ Goes(r)
              \/ outcome = "absent" /\ ~CodeFlow(cfg) /\ Answers(r, "401", req.at)

\* session_to_identity, from the session's stored tokens (OidcSession)
session_to_identity ==
    /\ Here("session_to_identity")
    /\ \/ req.identity # "none" /\ Goes(req)
       \/ /\ req.identity = "none"
          /\ \E s \in Reads("session") :
                Goes([req EXCEPT !.has.session = s,
                        !.identity = IF s = "live" THEN "session" ELSE @])

\* validate_token (Jwks); without audiences, production accepts no token
TokenAccepted(a) ==
    /\ a \in {"bearer_ok", "bearer_anonymous"}
    /\ cfg.oidc[1].audiences \/ ~cfg.is_production

\* Defective variant: an identity that is there already stays.
BearerKeepsIdentity ==
    /\ Here("bearer")
    /\ \E a \in Reads("authorization") :
          LET r == [req EXCEPT !.has.authorization = a]
          IN  \/ req.identity # "none" /\ Goes(r)
              \/ /\ req.identity = "none" /\ TokenAccepted(a)
                 /\ Goes([r EXCEPT !.identity = IF a = "bearer_ok" THEN "bearer" ELSE @])
              \/ /\ req.identity = "none" /\ ~TokenAccepted(a)
                 /\ IF CodeFlow(cfg) THEN Goes(r) ELSE Answers(r, "401", req.at)

\* bearer_auth_middleware: a valid token replaces the identity, if it has a
\* subject; what is wrong with any other is left to the handler in the code
\* flow.
bearer_auth_middleware ==
    /\ Here("bearer")
    /\ \E a \in Reads("authorization") :
          LET r == [req EXCEPT !.has.authorization = a]
          IN  \/ TokenAccepted(a) /\ a = "bearer_ok" /\ Goes([r EXCEPT !.identity = "bearer"])
              \/ TokenAccepted(a) /\ a = "bearer_anonymous" /\ Goes(r)
              \/ ~TokenAccepted(a) /\ CodeFlow(cfg) /\ Goes(r)
              \/ ~TokenAccepted(a) /\ ~CodeFlow(cfg) /\ Answers(r, "401", req.at)

starts_with(path, skip) == path = skip \/ <<path, skip>> \in Prefixes

\* Where the browser is not sent to the login: the login and probe routes and
\* all directories.
skip_paths ==
    OidcRoutes(cfg) \union {cfg.liveness_route, cfg.readiness_route, cfg.metrics_route}
        \union MappedPaths(cfg, TRUE) \union MappedPaths(cfg, FALSE)

\* browser_redirect_middleware; it awaits the session store with the address to
\* come back to, and ignores what becomes of that.
browser_redirect_middleware ==
    LET skipped == \E skip \in skip_paths : starts_with(req.path, skip)
    IN  /\ Here("browser_redirect")
        /\ \/ (req.identity # "none" \/ skipped) /\ Goes(req)
           \/ /\ req.identity = "none" /\ ~skipped
              /\ \E a \in Reads("authorization"), t \in Reads("accept") :
                    LET r == [req EXCEPT !.has.authorization = a, !.has.accept = t]
                    IN  \/ (a # "none" \/ t = "other") /\ Goes(r)
                        \/ a = "none" /\ t = "html" /\ Answers(r, "307", req.at)

-----------------------------------------------------------------------------
\* What the extractors of a handler want of the roles of an identity.
WithRole(role, roles) == role \in roles
AnyRole(required, roles) == required \intersect roles # {}
AllRoles(required, roles) == required \subseteq roles

\* AuthenticatedIdentity and SharedIdentity as extractors, and their optional
\* forms, which never reject
Extracts(optional) == optional \/ req.identity # "none"

\* The role extractors: 401 without an identity, 403 without the roles
RoleAnswer(allowed) ==
    IF req.identity = "none" THEN "401" ELSE IF allowed THEN "200" ELSE "403"

\* A handler of the application behind some extractor, for an identity that has
\* some of the roles.
Handle ==
    /\ InHandler /\ req.path \in router.own
    /\ \/ \E optional \in BOOLEAN :
             Answers(req, IF Extracts(optional) THEN "200" ELSE "401", req.at)
       \/ \E role \in Roles, required, roles \in SUBSET Roles :
             \E allowed \in {WithRole(role, roles), AnyRole(required, roles),
                             AllRoles(required, roles)} :
                 Answers(req, RoleAnswer(allowed), req.at)

\* The crate's own endpoints, the static files and the fallback.  Readiness
\* has a module of its own, and so have the login routes.
Serve ==
    /\ InHandler /\ req.path \notin router.own
    /\ \E status \in IF req.path = "elsewhere" THEN {"200", "404"} ELSE {"200"} :
          Answers(req, status, req.at)

\* A handler of the application panics: the panic unwinds to catch_panic, or
\* ends the connection.
Panic ==
    /\ InHandler /\ req.path \in router.own
    /\ \/ \E i \in 1..Len(req.layers) :
             req.layers[i] = "catch_panic" /\ Answers(req, "500", i)
       \/ ~Passed("catch_panic") /\ Answers(req, "aborted", 0)

\* The timeout layer answers for whatever is inside it.
TimedOut ==
    /\ req.status = "open"
    /\ \E i \in 1..Len(req.layers) :
          i < req.at /\ req.layers[i] = "timeout" /\ Answers(req, "408", i)

\* The answer has been sent.
Sent ==
    /\ req.status \notin {"idle", "open"}
    /\ req' = NoRequest /\ UNCHANGED <<settings, stackVars>>

\* The steps a layer takes by itself; the others wait for something outside.
Step ==
    \/ Transparent \/ MayRefuse \/ record_user_to_span
    \/ proxy_oidc_middleware \/ basic_auth_middleware

Next ==
    \/ Configure /\ UNCHANGED <<stackVars, req>>
    \/ Assemble /\ UNCHANGED req
    \/ Arrive \/ Step \/ TakePermit \/ session_to_identity \/ bearer_auth_middleware
    \/ browser_redirect_middleware \/ Handle \/ Serve \/ Panic \/ TimedOut \/ Sent

\* Layers run when they can and timers fire.  Handlers, permits, the session
\* store and the issuer may keep a request waiting for ever.
Fairness == WF_vars(Step) /\ WF_vars(TimedOut)

Spec == Init /\ [][Next]_vars /\ Fairness

-----------------------------------------------------------------------------
\* What the router is built from: the steps of setup_middleware, numbered in the
\* order of the code.  A step adds a layer or some paths, step 0 is what the
\* application registered and the last step sets the fallback.
Last == 34

Place ==
    [browser_redirect |-> 2, bearer |-> 3, session_to_identity |-> 4, basic_auth |-> 5,
     proxy_oidc |-> 6, oidc_client |-> 9, user_span |-> 10, session |-> 11,
     dedup |-> 12, concurrency |-> 13, payload |-> 14, decompression |-> 15,
     compression |-> 16, normalize |-> 17, sensitive |-> 18, version |-> 19,
     cors_configured |-> 20, cors_restrictive |-> 20, cors_permissive |-> 20,
     helmet |-> 21, hsts |-> 22, csp |-> 23, trace |-> 24, metrics |-> 26,
     timeout |-> 28, rate |-> 29, propagate_id |-> 30, set_id |-> 31, catch_panic |-> 33]

LayerName == DOMAIN Place

\* The layers that route_layer adds: the fallback does not get them.
RouteOnly == {"browser_redirect", "bearer", "basic_auth", "proxy_oidc"}

LoginFlow(c) == CodeFlow(c) /\ is_enabled(c, "Oidc")

\* The paths that step n adds.
Added(c, own, n) ==
    CASE n = 0 -> own
      [] n = 1 -> MappedPaths(c, TRUE)
      [] n = 7 -> MappedPaths(c, FALSE)
      [] n = 8 -> IF LoginFlow(c) THEN OidcRoutes(c) ELSE {}
      [] n = 25 -> IF c.with_metrics /\ is_enabled(c, "Metrics") THEN {MetricsRoute(c)} ELSE {}
      [] n = 27 -> IF is_enabled(c, "Readiness") THEN {c.readiness_route} ELSE {}
      [] n = 32 -> IF is_enabled(c, "Liveness") THEN {c.liveness_route} ELSE {}
      [] OTHER -> {}

IsRouter(r) ==
    /\ r = [routes |-> r.routes, fallback |-> r.fallback, own |-> r.own, halt |-> r.halt]
    /\ DOMAIN r.routes \subseteq Path /\ r.routes \in [DOMAIN r.routes -> Seq(LayerName)]
    /\ r.fallback \in Seq(LayerName) /\ r.own \subseteq Path
    /\ r.halt \in {"none", "panic", "Io", "Configuration", "Database"}

Identities == {"none", "basic", "api_key", "proxy", "session", "bearer"}

OrUnread(h) == Carried[h] \union {"unread"}

HeadersRead ==
    [authorization : OrUnread("authorization"), api_key : OrUnread("api_key"),
     session : OrUnread("session"), accept : OrUnread("accept"),
     user_header : OrUnread("user_header"), proxy_secret : OrUnread("proxy_secret"),
     peer : OrUnread("peer")]

Statuses ==
    {"idle", "open", "200", "307", "400", "401", "403", "404", "408", "409", "413", "415",
     "429", "500", "aborted"}

Request ==
    [path : Path \union {"none", "elsewhere"}, layers : Seq(LayerName), at : Nat,
     has : HeadersRead,
     identity : Identities, span : Identities, status : Statuses, from : Nat]

\* Every variable has the values the code can give it; an error is a kind of
\* the error type, or a panic of the router.
TypeOK ==
    /\ cfg \in Config(Secret)
    /\ stage \in {"loading", "configuring", "building", "serving", "failed"}
    /\ error \in ErrorKind \union {"none", "panic"} /\ (error # "none" <=> stage = "failed")
    /\ changes \in 0..MaxChanges /\ secrets \in BOOLEAN /\ declared \in BOOLEAN
    /\ IsRouter(router) /\ setUp \in BOOLEAN
    /\ stage = "serving" => setUp /\ router.halt = "none"
    /\ req \in Request /\ req.at \in 0..(Len(req.layers) + 1) /\ req.from \in 0..req.at

\* The paths authentication is there for: the application's routes and the
\* protected directories.
Guarded(p) == p \in router.own \union MappedPaths(cfg, TRUE)

\* Two routes have the same path, a path cannot be routed, authentication has no
\* route to guard, the rate is beyond one request per nanosecond, a "*" meets
\* credentials, or the default metrics recorder is not the first.
Unbuildable(c, own) ==
    \/ \E m, n \in 0..Last : m # n /\ Added(c, own, m) \intersect Added(c, own, n) # {}
    \/ MappedTwice(c, TRUE) \/ MappedTwice(c, FALSE)
    \/ LoginFlow(c) /\ OidcRoutesClash(c)
    \/ \E n \in 0..Last : "relative" \in Added(c, own, n)
    \/ "/" \in MappedPaths(c, TRUE) \union MappedPaths(c, FALSE)
    \/ /\ c.oidc # None \/ c.basic_auth # None \/ c.proxy_oidc # None
       /\ own \union MappedPaths(c, TRUE) = {}
    \/ c.max_requests_per_sec > NanosPerSec
    \/ is_enabled(c, "Cors") /\ StarWithCredentials(c)
    \/ RecorderInstalled /\ Added(c, own, 25) # {} /\ ~c.custom_metrics

\* setup_middleware panics on a configuration that passed validation for no other
\* reason than these.
ValidatedBuilds == error = "panic" => Unbuildable(cfg, router.own)

\* Identity headers count only with the shared secret or from a trusted peer (one
\* is enough when both are configured) or, when neither is, if the program named
\* an environment other than production: leniency is never the result of a
\* default, nor of a secret whose variable is not set.
ProxyTrusted ==
    req.identity = "proxy" =>
        LET proxy == cfg.proxy_oidc[1]
        IN  \/ req.has.proxy_secret = "right" /\ proxy.shared_secret # None
            \/ req.has.peer = "proxy" /\ proxy.trusted_proxies
            \/ declared /\ proxy.shared_secret = None /\ ~proxy.trusted_proxies

\* Without the code flow, bearer tokens and Basic Auth are mandatory: no
\* handler or protected file is reached but with an identity or with a valid
\* token that names no subject.
GuardedHandlers ==
    LET c == cfg
        mandatory == /\ ~CodeFlow(c)
                     /\ \/ c.oidc # None /\ is_enabled(c, "Oidc")
                        \/ c.basic_auth # None /\ is_enabled(c, "BasicAuth")
    IN  InHandler /\ Guarded(req.path) /\ mandatory =>
            req.identity # "none" \/ req.has.authorization = "bearer_anonymous"

\* A valid bearer token decides who the request is from, whatever session or
\* API key comes with it.
BearerWins ==
    /\ InHandler /\ Guarded(req.path) /\ Passed("bearer")
    /\ req.has.authorization = "bearer_ok" /\ TokenAccepted("bearer_ok")
    => req.identity = "bearer"

\* Every layer finds what it relies on: deduplication a request id, the session
\* layers and the login routes a session and the client.
DependenciesMet ==
    /\ Here("dedup") => Passed("set_id")
    /\ Here("session_to_identity") \/ Here("browser_redirect")
          => Passed("session") /\ Passed("oidc_client")
    /\ InHandler /\ LoginFlow(cfg) /\ req.path \in OidcRoutes(cfg) => Passed("session") /\ Passed("oidc_client")

\* The liveness probe is answered whatever the load and the credentials, the
\* readiness probe whatever the credentials.
ProbesStayOpen ==
    /\ req.path = cfg.liveness_route /\ is_enabled(cfg, "Liveness")
          => req.status \in {"open", "200"}
    /\ req.path = cfg.readiness_route /\ is_enabled(cfg, "Readiness")
          => req.status \in {"open", "200", "408", "429"}

\* Every answer carries the request id, the refusals of the outer layers too;
\* the exceptions are the liveness probe, the files of a fallback directory
\* and a panic.
Traceable ==
    /\ req.status \notin {"idle", "open", "aborted", "500"}
    /\ is_enabled(cfg, "RequestId") /\ req.path # cfg.liveness_route
    /\ req.path = "elsewhere" => ~HasFallback(cfg)
    => \E i, j \in 1..Len(req.layers) :
          /\ i < j /\ j < req.from
          /\ req.layers[i] = "set_id" /\ req.layers[j] = "propagate_id"

\* With a timeout every request is answered, though a handler hangs, the
\* permits are taken or the issuer does not respond.
AnsweredInTime ==
    (req.status = "open" /\ "timeout" \in {req.layers[i] : i \in DOMAIN req.layers})
        ~> (req.status # "open")

\* The user of a request that reaches the application is on the request's span
\* (src/src/fluent/user_span.rs:11).
UserRecorded ==
    InHandler /\ req.identity # "none" /\ Passed("trace") => req.span = req.identity

-----------------------------------------------------------------------------
\* The inductive invariant.  The layers of a path are those that are configured
\* and whose step came after the path was added, the last one outermost.
Names(s) == {s[i] : i \in DOMAIN s}

Asked(c) ==
    [browser_redirect |-> LoginFlow(c) /\ c.oidc[1].auto_redirect_to_login,
     bearer |-> c.oidc # None /\ is_enabled(c, "Oidc"),
     session_to_identity |-> LoginFlow(c),
     basic_auth |-> c.basic_auth # None /\ is_enabled(c, "BasicAuth"),
     proxy_oidc |-> c.proxy_oidc # None /\ is_enabled(c, "ProxyOidc"),
     oidc_client |-> LoginFlow(c), user_span |-> TRUE, session |-> TRUE,
     dedup |-> /\ is_enabled(c, "RequestDeduplication") /\ is_enabled(c, "RequestId")
               /\ c.deduplication # None,
     concurrency |-> is_enabled(c, "ConcurrencyLimit"),
     payload |-> is_enabled(c, "MaxPayloadSize"),
     decompression |-> c.support_compression /\ is_enabled(c, "Compression"),
     compression |-> c.support_compression /\ is_enabled(c, "Compression"),
     normalize |-> is_enabled(c, "PathNormalization"),
     sensitive |-> is_enabled(c, "SensitiveHeaders"),
     version |-> is_enabled(c, "ApiVersioning"),
     cors_configured |-> is_enabled(c, "Cors") /\ c.cors # None,
     cors_restrictive |-> is_enabled(c, "Cors") /\ c.cors = None /\ c.is_production,
     cors_permissive |-> is_enabled(c, "Cors") /\ c.cors = None /\ ~c.is_production,
     helmet |-> is_enabled(c, "SecurityHeaders"),
     hsts |-> is_enabled(c, "SecurityHeaders") /\ c.hsts,
     csp |-> is_enabled(c, "SecurityHeaders") /\ c.csp,
     trace |-> is_enabled(c, "Logging"),
     metrics |-> c.with_metrics /\ is_enabled(c, "Metrics"),
     timeout |-> c.request_timeout # None /\ is_enabled(c, "Timeout"),
     rate |-> c.max_requests_per_sec > 0 /\ is_enabled(c, "RateLimiting"),
     propagate_id |-> is_enabled(c, "RequestId"), set_id |-> is_enabled(c, "RequestId"),
     catch_panic |-> is_enabled(c, "CatchPanic")]

Ordered(s) == \A i, j \in DOMAIN s : i < j => Place[s[i]] > Place[s[j]]

\* After step k, s has those of the layers whose steps came after step n.
Carries(c, s, layers, n, k) ==
    /\ Ordered(s)
    /\ \A l \in LayerName :
          l \in Names(s) <=> l \in layers /\ Asked(c)[l] /\ n < Place[l] /\ Place[l] <= k

\* The paths there are after step k, and what they have then.
PathsBy(c, own, k) == UNION {Added(c, own, n) : n \in 0..k}

RoutesCarry(c, routes, own, k) ==
    \A n \in 0..k : \A p \in Added(c, own, n) : Carries(c, routes[p], LayerName, n, k)

\* The router r after step k.
BuiltUpTo(c, r, k) ==
    /\ IsRouter(r)
    /\ r.halt = "panic" => Unbuildable(c, r.own)
    /\ r.halt = "none" =>
          /\ DOMAIN r.routes = PathsBy(c, r.own, k) /\ RoutesCarry(c, r.routes, r.own, k)
          /\ IF k = Last /\ HasFallback(c) THEN r.fallback = << >>
             ELSE Carries(c, r.fallback, LayerName \ RouteOnly, 0, k)

StagesInOrder ==
    /\ stage \in {"loading", "configuring"} => router = NewRouter /\ ~setUp
    /\ stage \in {"building", "serving"} => validate(cfg) = "none"
    /\ setUp => router.halt = "none"
    /\ stage # "failed" => BuiltUpTo(cfg, router, IF setUp THEN Last ELSE 0)
    /\ stage # "failed" /\ router.halt = "panic" => "relative" \in router.own
    /\ declared \/ cfg.is_production

\* A request passes the layers of its path.
RequestOnItsWay ==
    /\ req.status = "idle" => req = NoRequest
    /\ req.status # "idle" =>
          /\ stage = "serving" /\ req.at > 0
          /\ \/ req.path = "elsewhere" /\ req.layers = router.fallback
             \/ req.path \in DOMAIN router.routes /\ req.layers = router.routes[req.path]

\* What a request has when it has passed the layers that authenticate.
Authenticated ==
    /\ Passed("basic_auth") /\ ~CodeFlow(cfg) => req.identity # "none"
    /\ Passed("bearer") =>
          /\ req.has.authorization # "unread"
          /\ req.has.authorization = "bearer_ok" /\ TokenAccepted("bearer_ok")
                => req.identity = "bearer"
          /\ ~CodeFlow(cfg) => req.identity # "none" \/ req.has.authorization = "bearer_anonymous"

\* What answers is the handler or a layer inside the one that puts the id on it,
\* except for a panic.
AnsweredInside ==
    req.status \notin {"idle", "open", "aborted", "500"} =>
        \/ req.from = Len(req.layers) + 1
        \/ /\ req.from \in DOMAIN req.layers
           /\ Place[req.layers[req.from]] < Place["propagate_id"]

IInv ==
    /\ TypeOK /\ ValidatedBuilds /\ StagesInOrder /\ RequestOnItsWay
    /\ ProxyTrusted /\ Authenticated /\ AnsweredInside /\ ProbesStayOpen
=============================================================================
