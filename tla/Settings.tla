------------------------------ MODULE Settings ------------------------------
(***************************************************************************)
(* How a service gets its configuration: Config (src/src/config/mod.rs)    *)
(* and the sections under src/src/config/.  A program loads a Config in    *)
(* one of four ways, changes it with the with_* methods, and hands it to   *)
(* the router, which validates it (Stack).                                 *)
(*                                                                         *)
(* An Option is a sequence of at most one element.  A secret is empty, 32  *)
(* or more spaces, short (below 32 bytes), long, or still a {{ VAR }}      *)
(* placeholder.                                                            *)
(***************************************************************************)
EXTENDS Naturals, Sequences, ErrorKinds

CONSTANTS
    Environments, \* names of deployment environments: [word, spelling]
    Files,        \* function on Environments: [state, cfg], config/<env>.toml
    Path,         \* paths of routes; "relative" is one that axum does not accept
    Binds, Limits, Urls, OidcChoices, CorsChoices, MiddlewareChoices,
                  \* the values the with_* calls of the program may pass
    MaxChanges    \* bound on the number of with_* calls

VARIABLES
    cfg,     \* the Config value the program holds, once it has one
    stage,   \* "loading", "configuring", "building", "serving" or "failed"
    error,   \* the kind of the error that ended the start, "panic", or "none"
    changes, \* with_* calls made so far
    secrets, \* is the environment variable behind the placeholders set?
    declared \* history: has the program named a non-production environment?

settings == <<cfg, stage, error, changes, secrets, declared>>

None == << >>
Some(v) == <<v>>
Option(S) == {None} \union [{1} -> S]
Map(option, F(_)) == IF option = None THEN None ELSE Some(F(option[1]))

HttpMiddleware ==
    {"Oidc", "BasicAuth", "ProxyOidc", "RequestDeduplication", "RateLimiting",
     "ConcurrencyLimit", "MaxPayloadSize", "Compression", "PathNormalization",
     "SensitiveHeaders", "RequestId", "ApiVersioning", "Cors", "SecurityHeaders",
     "Logging", "Metrics", "Liveness", "Readiness", "Timeout", "CatchPanic",
     "Session"}

\* The sections of a Config, as far as any check or layer looks at them, with
\* their secrets from the set S.
Secret == {"empty", "spaces", "short", "long"}
Url == {"blank", "http", "other"}
BindAddr == {"any", "loopback", "empty", "hostname"}
DatabaseUrl == {"blank", "postgres", "unparsable", "other"}

BasicAuthMode == {"Basic", "ApiKey", "Either"}

\* Users and API keys are the sets of their secrets (a blank username counts
\* as an empty secret).
HttpBasicAuthConfig(S) ==
    [mode : BasicAuthMode, users : SUBSET S, api_keys : SUBSET S,
     api_key_header : {"blank", "x-api-key"}]

HttpOidcConfig(S) ==
    [issuer_url : Url, client_id : {"blank", "app"}, client_secret : S,
     redirect_uri : Option(Url), jwks_url : Option(Url), login_route : Path,
     callback_route : Path, logout_route : Path, audiences : BOOLEAN,
     auto_redirect_to_login : BOOLEAN]

HttpProxyOidcConfig(S) == [shared_secret : Option(S), trusted_proxies : BOOLEAN]

HttpMiddlewareConfig == [mode : {"Include", "Exclude"}, list : SUBSET HttpMiddleware]

\* `stars` are the lists that come down to a lone "*".
HttpCorsConfig ==
    [allow_credentials : BOOLEAN,
     stars : SUBSET {"origins", "methods", "headers", "exposed"}]

SessionStoreConfig == {"Memory", "Postgres", "Redis"}

StaticDirConfig ==
    [directory : {"blank", "public"}, route : Option(Path), protected : BOOLEAN,
     cache_max_age : Option(Nat)]

Config(S) ==
    [bind_addr : BindAddr, request_timeout : Option(Nat),
     max_concurrent_requests : Nat, max_requests_per_sec : Nat,
     with_metrics : BOOLEAN, custom_metrics : BOOLEAN, liveness_route : Path, readiness_route : Path,
     metrics_route : Path, support_compression : BOOLEAN, hsts : BOOLEAN,
     csp : BOOLEAN, directories : Seq(StaticDirConfig),
     session_store : SessionStoreConfig, session_signing_key : Option(S),
     oidc : Option(HttpOidcConfig(S)), basic_auth : Option(HttpBasicAuthConfig(S)),
     proxy_oidc : Option(HttpProxyOidcConfig(S)), cors : Option(HttpCorsConfig),
     deduplication : Option({"x-request-id"}), middleware : Option(HttpMiddlewareConfig),
     url : DatabaseUrl, max_pool_size : Nat, is_production : BOOLEAN]

\* Two words that are no paths stand for no request and for any other path.  A
\* file that parses has the sections of a Config, with placeholders for secrets.
ASSUME SettingsAssumption ==
    /\ {"/live", "/ready", "/metrics"} \subseteq Path
    /\ {"none", "elsewhere"} \intersect Path = {}
    /\ Files \in [Environments -> [state : {"ok", "missing", "malformed"},
                                  cfg : Config(Secret \union {"placeholder"})]]
    /\ Binds \subseteq BindAddr /\ Limits \subseteq Nat /\ Urls \subseteq DatabaseUrl
    /\ OidcChoices \subseteq HttpOidcConfig(Secret) /\ CorsChoices \subseteq HttpCorsConfig
    /\ MiddlewareChoices \subseteq HttpMiddlewareConfig
    /\ MaxChanges \in Nat

\* HttpConfig::default and its default_* functions, with DatabaseConfig::default
DefaultConfig ==
    [bind_addr |-> "any", request_timeout |-> Some(60),
     max_concurrent_requests |-> 4096, max_requests_per_sec |-> 100,
     with_metrics |-> TRUE, custom_metrics |-> FALSE, liveness_route |-> "/live",
     readiness_route |-> "/ready", metrics_route |-> "/metrics",
     support_compression |-> FALSE, hsts |-> FALSE, csp |-> FALSE,
     directories |-> << >>, session_store |-> "Memory",
     session_signing_key |-> None, oidc |-> None, basic_auth |-> None,
     proxy_oidc |-> None, cors |-> None, deduplication |-> None,
     middleware |-> None, url |-> "postgres", max_pool_size |-> 2,
     is_production |-> TRUE]

-----------------------------------------------------------------------------
\* HttpMiddlewareConfig::is_enabled; without the section everything is on
is_enabled(c, m) ==
    \/ c.middleware = None
    \/ c.middleware[1].mode = "Include" /\ m \in c.middleware[1].list
    \/ c.middleware[1].mode = "Exclude" /\ m \notin c.middleware[1].list

auth_code_flow_enabled(oidc) == oidc.redirect_uri # None

\* Is the authorization code flow configured (whether or not Oidc is enabled)?
CodeFlow(c) == c.oidc # None /\ auth_code_flow_enabled(c.oidc[1])

is_fallback(dir) == dir.route = None

HasFallback(c) == \E i \in DOMAIN c.directories : is_fallback(c.directories[i])

\* SessionStoreConfig::is_external
is_external(store) == store \in {"Postgres", "Redis"}

\* HttpProxyOidcConfig::effective_shared_secret: a blank secret is none at all
effective_shared_secret(proxy) ==
    IF proxy.shared_secret \in {Some("empty"), Some("spaces")} THEN None ELSE proxy.shared_secret

has_trust_anchor(proxy) ==
    proxy.trusted_proxies \/ effective_shared_secret(proxy) # None

-----------------------------------------------------------------------------
\* The checks of each validate, which returns at the first that fails.  All those
\* of a section fail with the same kind of error.
IsHttp(url) == url = "http"

validate_database(c) ==
    c.url \in {"postgres", "unparsable"} /\ c.max_pool_size # 0

validate_oidc(o) ==
    /\ IsHttp(o.issuer_url) /\ o.client_id # "blank" /\ o.client_secret # "empty"
    /\ o.redirect_uri # None => IsHttp(o.redirect_uri[1])
    /\ o.jwks_url # None => IsHttp(o.jwks_url[1])

validate_basic(b) ==
    /\ b.mode = "Basic" => b.users # {}
    /\ b.mode = "ApiKey" => b.api_keys # {}
    /\ b.users \union b.api_keys # {} /\ "empty" \notin b.users \union b.api_keys
    /\ b.api_key_header # "blank"

validate_dir(d) ==
    /\ d.directory # "blank" /\ d.route # Some("blank")
    /\ ~(is_fallback(d) /\ d.protected)
    /\ d.cache_max_age # None => d.cache_max_age[1] <= 31536000

validate_middleware(c) ==
    /\ is_enabled(c, "RequestDeduplication") => is_enabled(c, "RequestId")
    /\ is_enabled(c, "Oidc") => is_enabled(c, "Session")

\* At most one way to authenticate, except that Basic Auth may accompany the
\* authorization code flow.
MutualExclusion(c) ==
    /\ c.basic_auth # None /\ c.oidc # None => CodeFlow(c)
    /\ c.basic_auth # None => c.proxy_oidc = None
    /\ c.oidc # None => c.proxy_oidc = None

\* A proxy secret that is there must not be blank; an external session store
\* needs a signing key, of which only the length counts.
SecretChecks(c) ==
    /\ c.proxy_oidc # None =>
          c.proxy_oidc[1].shared_secret \notin {Some("empty"), Some("spaces")}
    /\ is_external(c.session_store) =>
          c.session_signing_key \notin {None, Some("empty"), Some("short")}

\* HttpConfig::validate, up to its last two checks
SectionChecks(c) ==
    /\ c.bind_addr \in {"any", "loopback"} /\ c.max_concurrent_requests # 0
    /\ c.oidc # None => validate_oidc(c.oidc[1])
    /\ c.basic_auth # None => validate_basic(c.basic_auth[1])
    /\ MutualExclusion(c)
    /\ \A i \in DOMAIN c.directories : validate_dir(c.directories[i])
    /\ \A i, j \in DOMAIN c.directories :
          is_fallback(c.directories[i]) /\ is_fallback(c.directories[j]) => i = j
    /\ validate_middleware(c)

\* HttpConfig::validate
validate_http(c) ==
    IF ~SectionChecks(c) THEN "InvalidInput"
    ELSE IF ~SecretChecks(c) THEN "Configuration" ELSE "none"

\* Config::validate
validate(c) == IF ~validate_database(c) THEN "Database" ELSE validate_http(c)

-----------------------------------------------------------------------------
\* is_production_env trims and lower-cases, so the spelling does not matter
\* here; it does in the name of the file.
is_production_env(env) == env.word \in {"", "prod", "production", "release"}

\* Defective variant: the text of the placeholder stays when the variable is unset.
ReplaceHandlebarsKeeps(secret) ==
    IF secret = "placeholder" /\ secrets THEN "long" ELSE secret

\* replace_handlebars_with_env: an unset variable leaves nothing behind.
replace_handlebars(secret) ==
    IF secret # "placeholder" THEN secret ELSE IF secrets THEN "long" ELSE "empty"

\* Defective variant: the default of the type.
DefaultIsLenient == FALSE

\* default_is_production: what is_production is when no file name tells
default_is_production == TRUE

\* FromStr for Config: substitution, then parsing.  is_production is not read
\* from the text.
from_str(c) ==
    LET All(set) == {replace_handlebars(s) : s \in set}
    IN  [c EXCEPT
          !.oidc = Map(@, LAMBDA o : [o EXCEPT !.client_secret = replace_handlebars(@)]),
          !.basic_auth = Map(@, LAMBDA b : [b EXCEPT !.users = All(@), !.api_keys = All(@)]),
          !.proxy_oidc = Map(@, LAMBDA p :
                               [p EXCEPT !.shared_secret = Map(@, replace_handlebars)]),
          !.session_signing_key = Map(@, replace_handlebars),
          !.is_production = default_is_production]

Loaded(c) == cfg' = c /\ stage' = "configuring" /\ UNCHANGED error
Refused(kind) == error' = kind /\ stage' = "failed" /\ UNCHANGED cfg

\* Config::from_toml_file
from_toml_file(env) ==
    LET file == Files[env]
    IN  \/ file.state = "ok"
           /\ Loaded([from_str(file.cfg) EXCEPT !.is_production = is_production_env(env)])
           /\ declared' = ~is_production_env(env)
        \/ file.state = "missing" /\ Refused(From.std_io) /\ UNCHANGED declared
        \/ file.state = "malformed" /\ Refused(From.toml) /\ UNCHANGED declared

LoadFile ==
    /\ stage = "loading" /\ \E env \in Environments : from_toml_file(env)
    /\ UNCHANGED <<changes, secrets>>

\* Config::from_toml, of a text in the program or read by it
from_toml ==
    /\ stage = "loading"
    /\ \E env \in Environments :
          \/ Files[env].state = "ok" /\ Loaded(from_str(Files[env].cfg))
          \/ Files[env].state = "malformed" /\ Refused(From.toml)
    /\ UNCHANGED <<changes, secrets, declared>>

\* Config::from_rust_env when RUST_ENV is not set; when it is, LoadFile.
NoRustEnv ==
    /\ stage = "loading" /\ Refused(From.env_var)
    /\ UNCHANGED <<changes, secrets, declared>>

\* Config::default: any error of from_rust_env gives the built-in defaults,
\* as in production.
Default ==
    /\ stage = "loading"
    /\ \/ Loaded(DefaultConfig) /\ UNCHANGED declared
       \/ \E env \in Environments : Files[env].state = "ok" /\ from_toml_file(env)
    /\ UNCHANGED <<changes, secrets>>

-----------------------------------------------------------------------------
\* The with_* methods.  The ones that set what no property looks at (the port,
\* payload size, header values, log format) are left out.
Change(c) ==
    /\ stage = "configuring" /\ changes < MaxChanges
    /\ cfg' = c /\ changes' = changes + 1
    /\ UNCHANGED <<stage, error, secrets>>

ChangeHttp ==
    LET c == cfg IN
    \/ \E b \in Binds : Change([c EXCEPT !.bind_addr = b])
    \/ \E n \in Limits : Change([c EXCEPT !.max_concurrent_requests = n])
    \/ Change([c EXCEPT !.request_timeout = Some(1)])
    \/ Change([c EXCEPT !.support_compression = TRUE])
    \/ Change([c EXCEPT !.custom_metrics = TRUE])
    \/ Change([c EXCEPT !.readiness_route = c.liveness_route])

ChangeSections ==
    LET c == cfg IN
    \/ \E u \in Urls : Change([c EXCEPT !.url = u])
    \/ \E o \in OidcChoices : Change([c EXCEPT !.oidc = Some(o)])
    \/ \E p \in CorsChoices : Change([c EXCEPT !.cors = Some(p)])
    \/ Change([c EXCEPT !.deduplication = Some("x-request-id")])

ChangeMiddlewares ==
    \E m \in MiddlewareChoices : Change([cfg EXCEPT !.middleware = Some(m)])

with_production ==
    \E p \in BOOLEAN :
        Change([cfg EXCEPT !.is_production = p]) /\ declared' = (declared \/ ~p)

Configure ==
    \/ LoadFile \/ from_toml \/ NoRustEnv \/ Default
    \/ (ChangeHttp \/ ChangeSections \/ ChangeMiddlewares) /\ UNCHANGED declared
    \/ with_production

SettingsInit ==
    /\ cfg = DefaultConfig /\ stage = "loading" /\ error = "none" /\ changes = 0
    /\ secrets \in BOOLEAN /\ declared = FALSE
=============================================================================
