------------------------------ MODULE MCServer ------------------------------
(* Configurations, applications and outside faults for TLC. *)
EXTENDS Server, TLC

Env(word, spelling) == [word |-> word, spelling |-> spelling]

MCPath ==
    {"/app", "/live", "/ready", "/metrics", "/login", "/callback", "/logout", "/docs",
     "/assets", "/a", "/stats", "/", "relative"}

MCPrefixes ==
    {<<"/app", "/a">>, <<"/assets", "/a">>}
        \union ((MCPath \ {"/", "relative"}) \X {"/"})

Dir(route, protected) ==
    [directory |-> "public", route |-> route, protected |-> protected,
     cache_max_age |-> Some(86400)]

Oidc(redirect, secret) ==
    [issuer_url |-> "http", client_id |-> "app", client_secret |-> secret,
     redirect_uri |-> redirect, jwks_url |-> None, login_route |-> "/login",
     callback_route |-> "/callback", logout_route |-> "/logout",
     audiences |-> redirect = None,
     auto_redirect_to_login |-> TRUE]

Basic(mode, users, keys) ==
    [mode |-> mode, users |-> users, api_keys |-> keys, api_key_header |-> "x-api-key"]

Proxy(secret, peers) == [shared_secret |-> secret, trusted_proxies |-> peers]

File(c) == [state |-> "ok", cfg |-> c]
\* Customized metrics: the only ones a later router of the process can have.
Base == [DefaultConfig EXCEPT !.custom_metrics = TRUE]

NoFile(state) == [state |-> state, cfg |-> DefaultConfig]

MCFiles ==
    Env("prod", "exact") :>
        File([Base EXCEPT !.oidc = Some(Oidc(None, "placeholder")),
                !.directories = <<Dir(Some("/docs"), TRUE), Dir(Some("/assets"), FALSE)>>])
    @@ Env("production", "upper") :>
        File([Base EXCEPT !.proxy_oidc = Some(Proxy(Some("placeholder"), FALSE))])
    @@ Env("test", "exact") :>
        File([Base EXCEPT !.proxy_oidc = Some(Proxy(None, FALSE)),
                !.deduplication = Some("x-request-id"), !.request_timeout = None,
                !.directories = <<Dir(None, FALSE)>>, !.max_requests_per_sec = 0])
    @@ Env("dev", "padded") :>
        File([Base EXCEPT !.oidc = Some(Oidc(Some("http"), "long")),
                !.basic_auth = Some(Basic("Either", {"long"}, {"long"})),
                !.session_store = "Redis", !.session_signing_key = Some("placeholder"),
                !.directories = <<Dir(Some("/docs"), TRUE), Dir(Some("/a"), FALSE)>>])
    @@ Env("release", "exact") :>
        File([DefaultConfig EXCEPT !.basic_auth = Some(Basic("ApiKey", {}, {"placeholder"})),
                !.session_store = "Postgres", !.session_signing_key = Some("long"),
                !.hsts = TRUE, !.csp = TRUE])
    @@ Env("staging", "exact") :>
        File([Base EXCEPT !.max_requests_per_sec = 2000000000])
    @@ Env("qa", "exact") :>
        File([Base EXCEPT !.proxy_oidc = Some(Proxy(Some("long"), TRUE))])
    @@ Env("uat", "exact") :>
        File([Base EXCEPT !.directories = <<Dir(Some("/"), FALSE)>>])
    @@ Env("lab", "exact") :>
        File([Base EXCEPT !.directories = <<Dir(Some("/stats"), FALSE)>>])
    @@ Env("", "exact") :> NoFile("missing")
    @@ Env("demo", "exact") :> NoFile("malformed")

MCEnvironments == DOMAIN MCFiles

MCOidcChoices ==
    {Oidc(None, "empty"), [Oidc(Some("http"), "spaces") EXCEPT !.jwks_url = Some("http")],
     [Oidc(Some("http"), "long") EXCEPT !.logout_route = "/login"]}

Cors(credentials, stars) == [allow_credentials |-> credentials, stars |-> stars]

MCCorsChoices == {Cors(FALSE, {"origins"}), Cors(TRUE, {"headers"})}

\* The process has had no router before, or one with its metrics at /stats.
OnlyRouter == None
LaterRouter == Some("/stats")

Middlewares(mode, list) == [mode |-> mode, list |-> list]

MCMiddlewareChoices ==
    {Middlewares("Exclude", {"Session"}), Middlewares("Exclude", {"RequestId"}),
     Middlewares("Exclude", {"CatchPanic", "Logging", "ConcurrencyLimit"}),
     Middlewares("Exclude", {"Logging", "Readiness", "Metrics"}),
     Middlewares("Include", {"BasicAuth", "Liveness", "RequestId", "RateLimiting"})}
=============================================================================
