---------------------------- MODULE ServerProofs ----------------------------
(***************************************************************************)
(* Proofs about Server, and so about Settings and Stack: validation keeps  *)
(* its promises, the router has its layers in the order of the code, and a *)
(* request passes them all.                                                *)
(***************************************************************************)
EXTENDS Server, SequenceTheorems, TLAPS

-----------------------------------------------------------------------------
(* Options and configurations                                              *)

LEMMA NoneOrSome ==
    ASSUME NEW S
    PROVE  /\ None \in Option(S)
           /\ \A v \in S : Some(v) \in Option(S)
           /\ \A v : Some(v) # None /\ Some(v)[1] = v
           /\ \A o \in Option(S) : o = None \/ (o = Some(o[1]) /\ o[1] \in S)
<1>1. None \in Option(S)
  BY DEF Option
<1>2. \A v \in S : Some(v) \in Option(S)
  <2>1. SUFFICES ASSUME NEW v \in S PROVE <<v>> \in [{1} -> S]
    BY DEF Option, Some
  <2>2. <<v>> = [i \in {1} |-> v]
    <3>1. DOMAIN <<v>> = {1} /\ <<v>>[1] = v
      OBVIOUS
    <3> QED BY <3>1
  <2> QED BY <2>2
<1>3. \A v : Some(v) # None /\ Some(v)[1] = v
  BY DEF Some, None
<1>4. ASSUME NEW o \in [{1} -> S] PROVE o = Some(o[1]) /\ o[1] \in S
  <2>1. DOMAIN <<o[1]>> = {1} /\ <<o[1]>>[1] = o[1]
    OBVIOUS
  <2> QED BY <2>1 DEF Some
<1> QED BY <1>1, <1>2, <1>3, <1>4 DEF Option

LEMMA DefaultIsConfig == DefaultConfig \in Config(Secret) /\ DefaultConfig.is_production
<1>1. \A S : None \in Option(S)
  BY NoneOrSome
<1>2. Some(60) \in Option(Nat)
  BY NoneOrSome
<1>3. << >> \in Seq(StaticDirConfig)
  OBVIOUS
<1> HIDE DEF None
<1>4. /\ "/live" \in Path /\ "/ready" \in Path /\ "/metrics" \in Path
      /\ "Memory" \in SessionStoreConfig
  BY SettingsAssumption DEF SessionStoreConfig
<1>5. "any" \in BindAddr /\ "postgres" \in DatabaseUrl
  BY DEF BindAddr, DatabaseUrl
<1> QED BY <1>1, <1>2, <1>3, <1>4, <1>5 DEF DefaultConfig, Config

\* Substitution leaves no placeholder behind.
LEMMA SecretReplaced ==
    ASSUME NEW s \in Secret \union {"placeholder"}
    PROVE  replace_handlebars(s) \in Secret
BY DEF replace_handlebars, Secret

LEMMA FromStrGivesConfig ==
    ASSUME NEW c \in Config(Secret \union {"placeholder"})
    PROVE  from_str(c) \in Config(Secret) /\ from_str(c).is_production = TRUE
<1> DEFINE T == Secret \union {"placeholder"}
           All(set) == {replace_handlebars(s) : s \in set}
           oidc == Map(c.oidc, LAMBDA o : [o EXCEPT !.client_secret = replace_handlebars(@)])
           basic == Map(c.basic_auth,
                        LAMBDA b : [b EXCEPT !.users = All(@), !.api_keys = All(@)])
           proxy == Map(c.proxy_oidc, LAMBDA p :
                          [p EXCEPT !.shared_secret = Map(@, replace_handlebars)])
           key == Map(c.session_signing_key, replace_handlebars)
<1>1. oidc \in Option(HttpOidcConfig(Secret))
  <2>1. c.oidc \in Option(HttpOidcConfig(T))
    BY DEF Config
  <2>2. ASSUME NEW o \in HttpOidcConfig(T)
        PROVE  [o EXCEPT !.client_secret = replace_handlebars(@)] \in HttpOidcConfig(Secret)
    BY SecretReplaced DEF HttpOidcConfig
  <2>3. CASE c.oidc = None
    BY <2>3, NoneOrSome DEF Map
  <2>4. CASE c.oidc # None
    <3>1. c.oidc[1] \in HttpOidcConfig(T)
      BY <2>1, <2>4, NoneOrSome
    <3> QED BY <3>1, <2>2, <2>4, NoneOrSome DEF Map
  <2> QED BY <2>3, <2>4
<1>2. basic \in Option(HttpBasicAuthConfig(Secret))
  <2>1. c.basic_auth \in Option(HttpBasicAuthConfig(T))
    BY DEF Config
  <2>2. ASSUME NEW set \in SUBSET T PROVE All(set) \in SUBSET Secret
    BY SecretReplaced
  <2>3. ASSUME NEW b \in HttpBasicAuthConfig(T)
        PROVE  [b EXCEPT !.users = All(@), !.api_keys = All(@)] \in HttpBasicAuthConfig(Secret)
    <3> HIDE DEF All
    <3> QED BY <2>2 DEF HttpBasicAuthConfig
  <2>4. CASE c.basic_auth = None
    BY <2>4, NoneOrSome DEF Map
  <2>5. CASE c.basic_auth # None
    <3>1. c.basic_auth[1] \in HttpBasicAuthConfig(T)
      BY <2>1, <2>5, NoneOrSome
    <3> QED BY <3>1, <2>3, <2>5, NoneOrSome DEF Map
  <2> QED BY <2>4, <2>5
<1>3. ASSUME NEW o \in Option(T) PROVE Map(o, replace_handlebars) \in Option(Secret)
  BY NoneOrSome, SecretReplaced DEF Map
<1>4. proxy \in Option(HttpProxyOidcConfig(Secret))
  <2>1. c.proxy_oidc \in Option(HttpProxyOidcConfig(T))
    BY DEF Config
  <2>2. ASSUME NEW p \in HttpProxyOidcConfig(T)
        PROVE  [p EXCEPT !.shared_secret = Map(@, replace_handlebars)]
                  \in HttpProxyOidcConfig(Secret)
    BY <1>3 DEF HttpProxyOidcConfig
  <2>3. CASE c.proxy_oidc = None
    BY <2>3, NoneOrSome DEF Map
  <2>4. CASE c.proxy_oidc # None
    <3>1. c.proxy_oidc[1] \in HttpProxyOidcConfig(T)
      BY <2>1, <2>4, NoneOrSome
    <3> QED BY <3>1, <2>2, <2>4, NoneOrSome DEF Map
  <2> QED BY <2>3, <2>4
<1>5. key \in Option(Secret)
  BY <1>3 DEF Config
<1>6. from_str(c) = [c EXCEPT !.oidc = oidc, !.basic_auth = basic, !.proxy_oidc = proxy,
                              !.session_signing_key = key, !.is_production = TRUE]
  BY DEF from_str, default_is_production
<1>7. from_str(c).is_production = TRUE
  BY <1>6 DEF Config
<1> HIDE DEF T, oidc, basic, proxy, key
<1> QED BY <1>1, <1>2, <1>4, <1>5, <1>6, <1>7, ZenonT(60) DEF Config

-----------------------------------------------------------------------------
(* Settings by itself                                                      *)

\* The part of the invariant that is about the variables of Settings.
SettingsOK ==
    /\ cfg \in Config(Secret)
    /\ stage \in {"loading", "configuring", "building", "serving", "failed"}
    /\ error \in ErrorKind \union {"none", "panic"} /\ (error # "none" <=> stage = "failed")
    /\ changes \in 0..MaxChanges /\ secrets \in BOOLEAN /\ declared \in BOOLEAN
    /\ declared \/ cfg.is_production

LEMMA FromKinds ==
    /\ From.std_io \in ErrorKind /\ From.toml \in ErrorKind /\ From.env_var \in ErrorKind
    /\ From.sqlx \in ErrorKind
    /\ "none" \notin ErrorKind /\ "panic" \notin ErrorKind
BY DEF From, ErrorKind

LEMMA FileLoaded ==
    ASSUME NEW env \in Environments, SettingsOK, stage = "loading", from_toml_file(env),
           UNCHANGED <<changes, secrets>>
    PROVE  SettingsOK' /\ stage' \in {"configuring", "failed"} /\ error' # "panic"
<1> DEFINE file == Files[env]
           prod == is_production_env(env)
<1>1. file.cfg \in Config(Secret \union {"placeholder"})
  BY SettingsAssumption
<1>2. CASE file.state = "ok"
  <2>1. PICK c : c = [from_str(file.cfg) EXCEPT !.is_production = prod]
    OBVIOUS
  <2>2. prod \in BOOLEAN
    BY DEF is_production_env
  <2>3. /\ cfg' = c /\ stage' = "configuring" /\ UNCHANGED error /\ declared' = ~prod
    BY <1>2, <2>1 DEF from_toml_file, Loaded
  <2>4. c \in Config(Secret) /\ c.is_production = prod
    <3>1. PICK d : d = from_str(file.cfg)
      OBVIOUS
    <3>2. d \in Config(Secret)
      BY <3>1, <1>1, FromStrGivesConfig
    <3>3. c = [d EXCEPT !.is_production = prod]
      BY <2>1, <3>1
    <3> HIDE DEF prod
    <3> QED BY <3>2, <3>3, <2>2 DEF Config
  <2>5. error' = "none"
    BY <2>3 DEF SettingsOK
  <2> QED BY <2>2, <2>3, <2>4, <2>5 DEF SettingsOK
<1>3. CASE file.state \in {"missing", "malformed"}
  <2>1. error' \in ErrorKind /\ stage' = "failed" /\ UNCHANGED <<cfg, declared>>
    BY <1>3, FromKinds DEF from_toml_file, Refused
  <2> QED BY <2>1, FromKinds DEF SettingsOK
<1>4. file.state \in {"ok", "missing", "malformed"}
  BY DEF from_toml_file
<1> QED BY <1>2, <1>3, <1>4

\* A with_* call keeps the configuration one.
LEMMA ChangeKeeps ==
    ASSUME SettingsOK, NEW c \in Config(Secret), Change(c), declared' \in BOOLEAN,
           declared' \/ c.is_production
    PROVE  SettingsOK' /\ stage' = "configuring" /\ error' # "panic"
<1>1. changes' \in 0..MaxChanges
  BY SettingsAssumption DEF Change, SettingsOK
<1> QED BY <1>1 DEF Change, SettingsOK

\* d is a configuration for the same environment as c.
Similar(c, d) == d \in Config(Secret) /\ d.is_production = c.is_production

LEMMA FieldChanges ==
    ASSUME NEW c \in Config(Secret)
    PROVE  /\ \A b \in Binds : Similar(c, [c EXCEPT !.bind_addr = b])
           /\ \A n \in Limits : Similar(c, [c EXCEPT !.max_concurrent_requests = n])
           /\ Similar(c, [c EXCEPT !.request_timeout = Some(1)])
           /\ Similar(c, [c EXCEPT !.support_compression = TRUE])
           /\ Similar(c, [c EXCEPT !.readiness_route = c.liveness_route])
           /\ \A u \in Urls : Similar(c, [c EXCEPT !.url = u])
           /\ \A o \in OidcChoices : Similar(c, [c EXCEPT !.oidc = Some(o)])
           /\ Similar(c, [c EXCEPT !.custom_metrics = TRUE])
           /\ \A p \in CorsChoices : Similar(c, [c EXCEPT !.cors = Some(p)])
           /\ Similar(c, [c EXCEPT !.deduplication = Some("x-request-id")])
           /\ \A m \in MiddlewareChoices : Similar(c, [c EXCEPT !.middleware = Some(m)])
<1>1. ASSUME NEW b \in Binds PROVE Similar(c, [c EXCEPT !.bind_addr = b])
  BY SettingsAssumption DEF Config, Similar
<1>2. ASSUME NEW n \in Limits PROVE Similar(c, [c EXCEPT !.max_concurrent_requests = n])
  BY SettingsAssumption DEF Config, Similar
<1>3. Similar(c, [c EXCEPT !.request_timeout = Some(1)])
  <2>1. Some(1) \in Option(Nat)
    BY NoneOrSome
  <2> QED BY <2>1 DEF Config, Similar
<1>4. Similar(c, [c EXCEPT !.support_compression = TRUE])
  BY DEF Config, Similar
<1>5. Similar(c, [c EXCEPT !.readiness_route = c.liveness_route])
  BY DEF Config, Similar
<1>6. ASSUME NEW u \in Urls PROVE Similar(c, [c EXCEPT !.url = u])
  BY SettingsAssumption DEF Config, Similar
<1>7. ASSUME NEW o \in OidcChoices PROVE Similar(c, [c EXCEPT !.oidc = Some(o)])
  <2>1. Some(o) \in Option(HttpOidcConfig(Secret))
    BY NoneOrSome, SettingsAssumption
  <2> QED BY <2>1 DEF Config, Similar
<1>8. ASSUME NEW p \in CorsChoices PROVE Similar(c, [c EXCEPT !.cors = Some(p)])
  <2>1. Some(p) \in Option(HttpCorsConfig)
    BY NoneOrSome, SettingsAssumption
  <2> QED BY <2>1 DEF Config, Similar
<1>11. Similar(c, [c EXCEPT !.custom_metrics = TRUE])
  BY DEF Config, Similar
<1>9. Similar(c, [c EXCEPT !.deduplication = Some("x-request-id")])
  <2>1. Some("x-request-id") \in Option({"x-request-id"})
    BY NoneOrSome
  <2> QED BY <2>1 DEF Config, Similar
<1>10. ASSUME NEW m \in MiddlewareChoices
       PROVE  Similar(c, [c EXCEPT !.middleware = Some(m)])
  <2>1. Some(m) \in Option(HttpMiddlewareConfig)
    BY NoneOrSome, SettingsAssumption
  <2> QED BY <2>1 DEF Config, Similar
<1> QED BY <1>1, <1>2, <1>3, <1>4, <1>5, <1>6, <1>7, <1>8, <1>9, <1>10, <1>11

LEMMA ConfigureKeeps ==
    ASSUME SettingsOK, Configure
    PROVE  /\ SettingsOK' /\ stage \in {"loading", "configuring"}
           /\ stage' \in {"configuring", "failed"} /\ error' # "panic"
<1>1. CASE LoadFile
  BY <1>1, FileLoaded DEF LoadFile
<1>2. CASE from_toml
  <2>1. PICK env \in Environments :
          \/ Files[env].state = "ok" /\ Loaded(from_str(Files[env].cfg))
          \/ Files[env].state = "malformed" /\ Refused(From.toml)
    BY <1>2 DEF from_toml
  <2>2. stage = "loading" /\ UNCHANGED <<changes, secrets, declared>> /\ error = "none"
    BY <1>2 DEF from_toml, SettingsOK
  <2>3. CASE Loaded(from_str(Files[env].cfg))
    <3>1. cfg' \in Config(Secret) /\ cfg'.is_production = TRUE
      BY <2>3, SettingsAssumption, FromStrGivesConfig DEF Loaded
    <3> QED BY <2>2, <2>3, <3>1 DEF Loaded, SettingsOK
  <2>4. CASE Refused(From.toml)
    BY <2>2, <2>4, FromKinds DEF Refused, SettingsOK
  <2> QED BY <2>1, <2>3, <2>4
<1>3. CASE NoRustEnv
  BY <1>3, FromKinds DEF NoRustEnv, Refused, SettingsOK
<1>4. CASE Default
  <2>1. CASE Loaded(DefaultConfig) /\ UNCHANGED declared
    <3>1. stage = "loading" /\ UNCHANGED <<changes, secrets>> /\ error = "none"
      BY <1>4 DEF Default, SettingsOK
    <3> QED BY <2>1, <3>1, DefaultIsConfig DEF Loaded, SettingsOK
  <2>2. CASE \E env \in Environments : from_toml_file(env)
    BY <1>4, <2>2, FileLoaded DEF Default
  <2> QED BY <1>4, <2>1, <2>2 DEF Default
<1>5. ASSUME ChangeHttp \/ ChangeSections \/ ChangeMiddlewares, UNCHANGED declared
      PROVE  \E c : Change(c) /\ Similar(cfg, c)
  <2>1. cfg \in Config(Secret)
    BY DEF SettingsOK
  <2>2. CASE ChangeHttp
    BY <2>1, <2>2, FieldChanges, Zenon DEF ChangeHttp
  <2>3. CASE ChangeSections
    BY <2>1, <2>3, FieldChanges, Zenon DEF ChangeSections
  <2>4. CASE ChangeMiddlewares
    BY <2>1, <2>4, FieldChanges, Zenon DEF ChangeMiddlewares
  <2> QED BY <1>5, <2>2, <2>3, <2>4
<1>6. CASE (ChangeHttp \/ ChangeSections \/ ChangeMiddlewares) /\ UNCHANGED declared
  <2>1. PICK c : Change(c) /\ c \in Config(Secret) /\ c.is_production = cfg.is_production
    BY <1>5, <1>6 DEF Similar
  <2>2. declared' \in BOOLEAN /\ (declared' \/ c.is_production)
    BY <1>6, <2>1 DEF SettingsOK
  <2>3. stage = "configuring"
    BY <2>1 DEF Change
  <2> QED BY <2>1, <2>2, <2>3, ChangeKeeps
<1>7. CASE with_production
  <2>1. PICK p \in BOOLEAN : /\ Change([cfg EXCEPT !.is_production = p])
                             /\ declared' = (declared \/ ~p)
    BY <1>7 DEF with_production
  <2>2. PICK c : c = [cfg EXCEPT !.is_production = p]
    OBVIOUS
  <2>3. c \in Config(Secret)
    BY <2>2 DEF SettingsOK, Config
  <2>4. c.is_production = p
    BY <2>2 DEF SettingsOK, Config
  <2>5. Change(c) /\ declared' \in BOOLEAN /\ (declared' \/ c.is_production)
    BY <2>1, <2>2, <2>4 DEF SettingsOK
  <2>6. stage = "configuring"
    BY <2>1 DEF Change
  <2> QED BY <2>3, <2>5, <2>6, ChangeKeeps
<1> QED BY <1>1, <1>2, <1>3, <1>4, <1>6, <1>7 DEF Configure

LEMMA ValidationResult ==
    ASSUME NEW c
    PROVE  validate(c) \in ErrorKind \union {"none"}
BY DEF validate, validate_http, ErrorKind

\* What validation promises about the secret of the proxy.
LEMMA ValidatedProxy ==
    ASSUME NEW c, validate(c) = "none", c.proxy_oidc # None
    PROVE  c.proxy_oidc[1].shared_secret \notin {Some("empty"), Some("spaces")}
<1>1. SecretChecks(c)
  BY DEF validate, validate_http
<1> QED BY <1>1 DEF SecretChecks

-----------------------------------------------------------------------------
(* The layers of a path                                                    *)

LEMMA PlacesInRange ==
    \A l \in LayerName : Place[l] \in Nat /\ 2 <= Place[l] /\ Place[l] <= 33
BY DEF LayerName, Place

LEMMA Prepended ==
    ASSUME NEW s \in Seq(LayerName), NEW l \in LayerName
    PROVE  /\ <<l>> \o s \in Seq(LayerName)
           /\ DOMAIN (<<l>> \o s) = 1..(Len(s) + 1) /\ DOMAIN s = 1..Len(s)
           /\ (<<l>> \o s)[1] = l
           /\ \A i \in 2..(Len(s) + 1) : (<<l>> \o s)[i] = s[i - 1]
           /\ Names(<<l>> \o s) = Names(s) \union {l}
<1> DEFINE t == <<l>> \o s
<1>1. <<l>> \in Seq(LayerName) /\ Len(<<l>>) = 1 /\ <<l>>[1] = l
  OBVIOUS
<1>2. Len(s) \in Nat /\ DOMAIN s = 1..Len(s)
  OBVIOUS
<1>3. t \in Seq(LayerName) /\ Len(t) = Len(s) + 1
  BY <1>1, ConcatProperties
<1>4. DOMAIN t = 1..(Len(s) + 1)
  BY <1>3
<1>5. t[1] = l /\ \A i \in 2..(Len(s) + 1) : t[i] = s[i - 1]
  BY <1>1, <1>2, ConcatProperties
<1> HIDE DEF t
<1>6. Names(t) \subseteq Names(s) \union {l}
  BY <1>2, <1>4, <1>5 DEF Names
<1>7. Names(s) \union {l} \subseteq Names(t)
  <2>1. l \in Names(t)
    BY <1>2, <1>4, <1>5 DEF Names
  <2>2. ASSUME NEW i \in 1..Len(s) PROVE s[i] \in Names(t)
    <3>1. i + 1 \in DOMAIN t /\ t[i + 1] = s[i]
      BY <1>2, <1>4, <1>5
    <3> QED BY <3>1 DEF Names
  <2> QED BY <1>2, <2>1, <2>2 DEF Names
<1> QED BY <1>2, <1>3, <1>4, <1>5, <1>6, <1>7 DEF t

\* Step k + 1 puts layer l around what there is.
LEMMA PrependCarries ==
    ASSUME NEW c, NEW s \in Seq(LayerName), NEW L, NEW k \in Nat, NEW n \in 0..k,
           NEW l \in LayerName, Carries(c, s, L, n, k), l \in L, Asked(c)[l],
           Place[l] = k + 1, \A m \in LayerName : Place[m] = k + 1 /\ Asked(c)[m] => m = l
    PROVE  Carries(c, <<l>> \o s, L, n, k + 1)
<1> DEFINE t == <<l>> \o s
<1>0. \A m \in LayerName : Place[m] \in Nat
  BY PlacesInRange
<1>1. Len(s) \in Nat /\ \A i \in 1..Len(s) : s[i] \in LayerName /\ s[i] \in Names(s)
  BY ElementOfSeq DEF Names
<1>2. \A i \in 1..Len(s) : Place[s[i]] <= k
  BY <1>1 DEF Carries
<1>3. /\ DOMAIN t = 1..(Len(s) + 1) /\ t[1] = l
      /\ \A i \in 2..(Len(s) + 1) : t[i] = s[i - 1]
      /\ Names(t) = Names(s) \union {l} /\ DOMAIN s = 1..Len(s)
  BY Prepended
<1> HIDE DEF t
<1>4. ASSUME NEW i \in DOMAIN t, NEW j \in DOMAIN t, i < j PROVE Place[t[i]] > Place[t[j]]
  <2>1. j \in 2..(Len(s) + 1) /\ j - 1 \in 1..Len(s) /\ t[j] = s[j - 1]
    BY <1>1, <1>3, <1>4
  <2>2. CASE i = 1
    BY <1>0, <1>1, <1>2, <1>3, <2>1, <2>2
  <2>3. CASE i # 1
    <3>1. i - 1 \in 1..Len(s) /\ t[i] = s[i - 1] /\ i - 1 < j - 1
      BY <1>1, <1>3, <1>4, <2>3
    <3> QED BY <1>3, <2>1, <3>1 DEF Carries, Ordered
  <2> QED BY <2>2, <2>3
<1>5. ASSUME NEW m \in LayerName
      PROVE  m \in Names(t) <=> m \in L /\ Asked(c)[m] /\ n < Place[m] /\ Place[m] <= k + 1
  <2>1. m \in Names(s) <=> m \in L /\ Asked(c)[m] /\ n < Place[m] /\ Place[m] <= k
    BY DEF Carries
  <2>2. Place[m] \in Nat /\ (Place[m] <= k + 1 <=> Place[m] <= k \/ Place[m] = k + 1)
    BY <1>0
  <2> QED BY <1>3, <2>1, <2>2
<1>6. Carries(c, t, L, n, k + 1)
  BY <1>4, <1>5 DEF Carries, Ordered
<1> QED BY <1>6 DEF t

\* Step k + 1 adds no layer.
LEMMA SkipCarries ==
    ASSUME NEW c, NEW s \in Seq(LayerName), NEW L, NEW k \in Nat, NEW n \in 0..k,
           Carries(c, s, L, n, k),
           \A m \in LayerName : m \in L /\ Asked(c)[m] => Place[m] # k + 1
    PROVE  Carries(c, s, L, n, k + 1)
<1>1. ASSUME NEW m \in LayerName
      PROVE  m \in Names(s) <=> m \in L /\ Asked(c)[m] /\ n < Place[m] /\ Place[m] <= k + 1
  <2>1. m \in Names(s) <=> m \in L /\ Asked(c)[m] /\ n < Place[m] /\ Place[m] <= k
    BY DEF Carries
  <2>2. Place[m] \in Nat /\ (Place[m] <= k + 1 <=> Place[m] <= k \/ Place[m] = k + 1)
    BY PlacesInRange
  <2> QED BY <2>1, <2>2
<1> QED BY <1>1 DEF Carries

LEMMA EmptyCarries ==
    ASSUME NEW c, NEW L, NEW n \in Nat
    PROVE  << >> \in Seq(LayerName) /\ Carries(c, << >>, L, n, n)
<1>1. DOMAIN << >> = {} /\ Names(<< >>) = {}
  BY DEF Names
<1> QED BY <1>1, PlacesInRange DEF Carries, Ordered

-----------------------------------------------------------------------------
(* One step of the assembly of a router                                    *)

\* A router is a record; an update changes what it names.
LEMMA RouterUpdates ==
    ASSUME NEW r, IsRouter(r), NEW x
    PROVE  /\ Layer(r, x) = [routes |-> Wrap(x, r.routes), fallback |-> <<x>> \o r.fallback,
                             own |-> r.own, halt |-> r.halt]
           /\ [r EXCEPT !.routes = x] =
                [routes |-> x, fallback |-> r.fallback, own |-> r.own, halt |-> r.halt]
           /\ [r EXCEPT !.fallback = x] =
                [routes |-> r.routes, fallback |-> x, own |-> r.own, halt |-> r.halt]
           /\ [r EXCEPT !.own = x] =
                [routes |-> r.routes, fallback |-> r.fallback, own |-> x, halt |-> r.halt]
           /\ [r EXCEPT !.halt = x] =
                [routes |-> r.routes, fallback |-> r.fallback, own |-> r.own, halt |-> x]
<1>1. PICK a, f, o, h : r = [routes |-> a, fallback |-> f, own |-> o, halt |-> h]
  BY DEF IsRouter
<1>2. r.routes = a /\ r.fallback = f /\ r.own = o /\ r.halt = h
  BY <1>1
<1>3. Layer(r, x) = [routes |-> Wrap(x, a), fallback |-> <<x>> \o f, own |-> o, halt |-> h]
  <2>1. PICK d : d = Layer(r, x)
    OBVIOUS
  <2>2. d = [routes |-> Wrap(x, a), fallback |-> <<x>> \o f, own |-> o, halt |-> h]
    BY <1>1, <2>1 DEF Layer
  <2> QED BY <2>1, <2>2
<1>4. [r EXCEPT !.routes = x] = [routes |-> x, fallback |-> f, own |-> o, halt |-> h]
  BY <1>1
<1>5. [r EXCEPT !.fallback = x] = [routes |-> a, fallback |-> x, own |-> o, halt |-> h]
  BY <1>1
<1>6. [r EXCEPT !.own = x] = [routes |-> a, fallback |-> f, own |-> x, halt |-> h]
  BY <1>1
<1>7. [r EXCEPT !.halt = x] = [routes |-> a, fallback |-> f, own |-> o, halt |-> x]
  BY <1>1
<1> QED BY <1>2, <1>3, <1>4, <1>5, <1>6, <1>7

\* Something is wrong outside, or panics for one of the known reasons.
LEMMA HaltBuilt ==
    ASSUME NEW c, NEW r, NEW k, BuiltUpTo(c, r, k), NEW bad \in BOOLEAN, NEW why,
           \/ why \in {"Io", "Configuration", "Database"}
           \/ why = "panic" /\ (bad /\ r.halt = "none" => Unbuildable(c, r.own))
    PROVE  /\ BuiltUpTo(c, Halt(r, bad, why), k) /\ Halt(r, bad, why).own = r.own
           /\ Halt(r, bad, why).routes = r.routes
<1>1. CASE bad /\ r.halt = "none"
  <2>1. PICK s : s = [routes |-> r.routes, fallback |-> r.fallback, own |-> r.own, halt |-> why]
    OBVIOUS
  <2>2. Halt(r, bad, why) = s
    <3>1. IsRouter(r)
      BY DEF BuiltUpTo
    <3> QED BY <1>1, <2>1, <3>1, RouterUpdates DEF Halt
  <2>3. IsRouter(s) /\ s.halt = why /\ s.own = r.own /\ s.routes = r.routes
    BY <2>1 DEF IsRouter, BuiltUpTo
  <2>4. why # "none" /\ (why = "panic" => Unbuildable(c, s.own))
    BY <1>1, <2>3
  <2> QED BY <2>2, <2>3, <2>4 DEF BuiltUpTo
<1>2. CASE ~(bad /\ r.halt = "none")
  BY <1>2 DEF Halt
<1> QED BY <1>1, <1>2

\* What step k + 1 may add, when it adds layer l or no layer at all.
OnlyLayer(c, own, k, l) ==
    /\ l \in LayerName /\ Asked(c)[l] /\ Place[l] = k + 1
    /\ \A m \in LayerName : Place[m] = k + 1 /\ Asked(c)[m] => m = l
    /\ Added(c, own, k + 1) = {}

NoLayer(c, k) == \A m \in LayerName : Asked(c)[m] => Place[m] # k + 1

LEMMA Wrapped ==
    ASSUME NEW c, NEW r, NEW k \in Nat, IsRouter(r), NEW l, OnlyLayer(c, r.own, k, l),
           DOMAIN r.routes = PathsBy(c, r.own, k), RoutesCarry(c, r.routes, r.own, k)
    PROVE  /\ DOMAIN Wrap(l, r.routes) = PathsBy(c, r.own, k + 1)
           /\ RoutesCarry(c, Wrap(l, r.routes), r.own, k + 1)
<1> DEFINE W == Wrap(l, r.routes)
<1>1. /\ l \in LayerName /\ Asked(c)[l] /\ Place[l] = k + 1
      /\ \A m \in LayerName : Place[m] = k + 1 /\ Asked(c)[m] => m = l
      /\ Added(c, r.own, k + 1) = {}
  BY DEF OnlyLayer
<1>2. DOMAIN W = DOMAIN r.routes /\ \A p \in DOMAIN r.routes : W[p] = <<l>> \o r.routes[p]
  BY DEF Wrap
<1>3. \A p \in DOMAIN r.routes : r.routes[p] \in Seq(LayerName)
  BY DEF IsRouter
<1>4. 0..(k + 1) = (0..k) \union {k + 1}
  OBVIOUS
<1>5. PathsBy(c, r.own, k + 1) = PathsBy(c, r.own, k)
  BY <1>1, <1>4 DEF PathsBy
<1> HIDE DEF W
<1>6. ASSUME NEW n \in 0..k, NEW p \in Added(c, r.own, n)
      PROVE  Carries(c, W[p], LayerName, n, k + 1)
  <2>1. p \in DOMAIN r.routes /\ Carries(c, r.routes[p], LayerName, n, k)
    BY DEF PathsBy, RoutesCarry
  <2>2. PICK s \in Seq(LayerName) : s = r.routes[p]
    BY <1>3, <2>1
  <2>3. Carries(c, <<l>> \o s, LayerName, n, k + 1)
    BY <1>1, <2>1, <2>2, PrependCarries
  <2> QED BY <1>2, <2>1, <2>2, <2>3
<1>7. RoutesCarry(c, W, r.own, k + 1)
  BY <1>1, <1>4, <1>6 DEF RoutesCarry
<1> QED BY <1>2, <1>5, <1>7 DEF W

\* Router::layer, as step k + 1.
LEMMA LayerBuilt ==
    ASSUME NEW c, NEW r, NEW k \in Nat, k + 1 < Last, BuiltUpTo(c, r, k),
           NEW l, OnlyLayer(c, r.own, k, l), l \notin RouteOnly
    PROVE  BuiltUpTo(c, Layer(r, l), k + 1) /\ Layer(r, l).own = r.own
<1>1. IsRouter(r) /\ l \in LayerName
  BY DEF BuiltUpTo, OnlyLayer
<1>2. PICK W : W = Wrap(l, r.routes)
  OBVIOUS
<1>3. PICK F : F = <<l>> \o r.fallback
  OBVIOUS
<1>4. PICK s : s = [routes |-> W, fallback |-> F, own |-> r.own, halt |-> r.halt]
  OBVIOUS
<1>5. Layer(r, l) = s
  BY <1>1, <1>2, <1>3, <1>4, RouterUpdates
<1>6. DOMAIN W = DOMAIN r.routes /\ W \in [DOMAIN W -> Seq(LayerName)]
  <2>1. \A p \in DOMAIN r.routes : <<l>> \o r.routes[p] \in Seq(LayerName)
    BY <1>1, Prepended DEF IsRouter
  <2> QED BY <1>2, <2>1 DEF Wrap
<1>7. F \in Seq(LayerName)
  BY <1>1, <1>3, Prepended DEF IsRouter
<1>8. IsRouter(s)
  BY <1>1, <1>4, <1>6, <1>7 DEF IsRouter
<1>9. CASE r.halt = "none"
  <2>1. /\ DOMAIN r.routes = PathsBy(c, r.own, k) /\ RoutesCarry(c, r.routes, r.own, k)
        /\ Carries(c, r.fallback, LayerName \ RouteOnly, 0, k)
    BY <1>9 DEF BuiltUpTo
  <2>2. DOMAIN W = PathsBy(c, r.own, k + 1) /\ RoutesCarry(c, W, r.own, k + 1)
    BY <1>1, <1>2, <2>1, Wrapped
  <2>3. Carries(c, F, LayerName \ RouteOnly, 0, k + 1)
    <3>1. r.fallback \in Seq(LayerName) /\ l \in LayerName \ RouteOnly /\ 0 \in 0..k
      BY <1>1 DEF IsRouter
    <3>2. /\ Asked(c)[l] /\ Place[l] = k + 1
          /\ \A m \in LayerName : Place[m] = k + 1 /\ Asked(c)[m] => m = l
      BY DEF OnlyLayer
    <3> QED BY <1>1, <1>3, <2>1, <3>1, <3>2, PrependCarries
  <2> QED BY <1>4, <1>5, <1>8, <1>9, <2>2, <2>3 DEF BuiltUpTo
<1>10. CASE r.halt # "none"
  BY <1>4, <1>5, <1>8, <1>10 DEF BuiltUpTo
<1> QED BY <1>9, <1>10

\* A router that has halted stays one that has, for the reason it has.
LEMMA HaltedBuilt ==
    ASSUME NEW c, NEW r, NEW k, BuiltUpTo(c, r, k), r.halt # "none", NEW m
    PROVE  BuiltUpTo(c, r, m)
BY DEF BuiltUpTo

LEMMA AddedFirst ==
    ASSUME NEW c, NEW own, NEW k \in Nat
    PROVE  /\ own \subseteq PathsBy(c, own, k)
           /\ k > 0 => MappedPaths(c, TRUE) \subseteq PathsBy(c, own, k)
<1>1. Added(c, own, 0) = own /\ Added(c, own, 1) = MappedPaths(c, TRUE)
  BY DEF Added
<1>2. 0 \in 0..k /\ (k > 0 => 1 \in 0..k)
  OBVIOUS
<1> QED BY <1>1, <1>2 DEF PathsBy

\* Router::route_layer, as step k + 1; it panics when there is nothing to guard.
LEMMA RouteLayerBuilt ==
    ASSUME NEW c, NEW r, NEW k \in Nat, k + 1 < Last, k > 0, BuiltUpTo(c, r, k),
           NEW l, OnlyLayer(c, r.own, k, l), l \in RouteOnly,
           c.oidc # None \/ c.basic_auth # None \/ c.proxy_oidc # None
    PROVE  BuiltUpTo(c, RouteLayer(r, l), k + 1) /\ RouteLayer(r, l).own = r.own
<1>1. ASSUME DOMAIN r.routes = {}, r.halt = "none" PROVE Unbuildable(c, r.own)
  <2>1. PathsBy(c, r.own, k) = {}
    BY <1>1 DEF BuiltUpTo
  <2>2. r.own \union MappedPaths(c, TRUE) = {}
    BY <2>1, AddedFirst
  <2> QED BY <2>2 DEF Unbuildable
<1>2. PICK h : h = Halt(r, DOMAIN r.routes = {}, "panic")
  OBVIOUS
<1>3. BuiltUpTo(c, h, k) /\ h.own = r.own /\ h.routes = r.routes
  <2>1. PICK b \in BOOLEAN : b <=> DOMAIN r.routes = {}
    OBVIOUS
  <2>2. h = Halt(r, b, "panic")
    BY <1>2, <2>1 DEF Halt
  <2> QED BY <1>1, <2>1, <2>2, HaltBuilt
<1>4. IsRouter(h) /\ l \in LayerName
  BY <1>3 DEF BuiltUpTo, OnlyLayer
<1>5. PICK W : W = Wrap(l, h.routes)
  OBVIOUS
<1>6. PICK s : s = [routes |-> W, fallback |-> h.fallback, own |-> h.own, halt |-> h.halt]
  OBVIOUS
<1>7. RouteLayer(r, l) = s
  <2>1. RouteLayer(r, l) = [h EXCEPT !.routes = W]
    BY <1>2, <1>5 DEF RouteLayer
  <2> QED BY <1>4, <1>6, <2>1, RouterUpdates
<1>8. DOMAIN W = DOMAIN h.routes /\ W \in [DOMAIN W -> Seq(LayerName)]
  <2>1. \A p \in DOMAIN h.routes : <<l>> \o h.routes[p] \in Seq(LayerName)
    BY <1>4, Prepended DEF IsRouter
  <2> QED BY <1>5, <2>1 DEF Wrap
<1>9. IsRouter(s)
  BY <1>4, <1>6, <1>8 DEF IsRouter
<1>10. CASE h.halt = "none"
  <2>1. /\ DOMAIN h.routes = PathsBy(c, h.own, k) /\ RoutesCarry(c, h.routes, h.own, k)
        /\ Carries(c, h.fallback, LayerName \ RouteOnly, 0, k)
    BY <1>3, <1>10 DEF BuiltUpTo
  <2>2. DOMAIN W = PathsBy(c, h.own, k + 1) /\ RoutesCarry(c, W, h.own, k + 1)
    BY <1>3, <1>4, <1>5, <2>1, Wrapped
  <2>3. Carries(c, h.fallback, LayerName \ RouteOnly, 0, k + 1)
    <3>1. h.fallback \in Seq(LayerName) /\ 0 \in 0..k
      BY <1>4 DEF IsRouter
    <3>2. \A m \in LayerName : m \in LayerName \ RouteOnly /\ Asked(c)[m] => Place[m] # k + 1
      BY DEF OnlyLayer
    <3> QED BY <2>1, <3>1, <3>2, SkipCarries
  <2> QED BY <1>3, <1>6, <1>7, <1>9, <1>10, <2>2, <2>3 DEF BuiltUpTo
<1>11. CASE h.halt # "none"
  BY <1>3, <1>6, <1>7, <1>9, <1>11 DEF BuiltUpTo
<1> QED BY <1>10, <1>11

\* Router::route, as step k + 1; it panics when a path is taken or is not one.  A
\* step that is left out adds no path.
LEMMA RouteBuilt ==
    ASSUME NEW c, NEW r, NEW k \in Nat, k + 1 < Last, BuiltUpTo(c, r, k),
           NoLayer(c, k), NEW paths, Added(c, r.own, k + 1) = paths, paths \subseteq Path
    PROVE  /\ BuiltUpTo(c, Route(r, paths), k + 1) /\ Route(r, paths).own = r.own
<1> DEFINE bad == paths \intersect (DOMAIN r.routes \union {"relative"}) # {}
<1>1. IsRouter(r) /\ k + 1 \in 0..Last /\ 0..k \subseteq 0..Last
  BY DEF BuiltUpTo, Last
<1>2. CASE bad
  <2>1. ASSUME r.halt = "none" PROVE Unbuildable(c, r.own)
    <3>1. CASE "relative" \in paths
      BY <1>1, <3>1 DEF Unbuildable
    <3>2. CASE "relative" \notin paths
      <4>1. PICK p \in paths : p \in PathsBy(c, r.own, k)
        BY <1>2, <2>1, <3>2 DEF BuiltUpTo
      <4>2. PICK n \in 0..k : p \in Added(c, r.own, n)
        BY <4>1 DEF PathsBy
      <4>3. n # k + 1 /\ Added(c, r.own, n) \intersect Added(c, r.own, k + 1) # {}
        BY <4>1, <4>2
      <4> QED BY <1>1, <4>3 DEF Unbuildable
    <3> QED BY <3>1, <3>2
  <2>2. PICK h : h = Halt(r, TRUE, "panic")
    OBVIOUS
  <2>3. BuiltUpTo(c, h, k) /\ h.own = r.own
    <3>1. PICK b \in BOOLEAN : b
      OBVIOUS
    <3>2. h = Halt(r, b, "panic")
      BY <2>2, <3>1 DEF Halt
    <3>3. b /\ r.halt = "none" => Unbuildable(c, r.own)
      BY <2>1
    <3> HIDE DEF bad
    <3> QED BY <3>2, <3>3, HaltBuilt
  <2>4. h.halt # "none"
    BY <1>1, <2>2, RouterUpdates DEF Halt
  <2>5. Route(r, paths) = h
    BY <1>2, <2>2 DEF Route
  <2> QED BY <2>3, <2>4, <2>5, HaltedBuilt
<1>3. CASE ~bad
  <2>1. PICK W : W = Add(r.routes, paths)
    OBVIOUS
  <2>2. PICK s : s = [routes |-> W, fallback |-> r.fallback, own |-> r.own, halt |-> r.halt]
    OBVIOUS
  <2>3. Route(r, paths) = s
    <3>1. Route(r, paths) = [r EXCEPT !.routes = W]
      BY <1>3, <2>1 DEF Route
    <3> QED BY <1>1, <2>2, <3>1, RouterUpdates
  <2>4. /\ DOMAIN W = DOMAIN r.routes \union paths
        /\ \A p \in paths : W[p] = << >>
        /\ \A p \in DOMAIN r.routes \ paths : W[p] = r.routes[p]
    BY <2>1 DEF Add
  <2>5. W \in [DOMAIN W -> Seq(LayerName)]
    <3>1. \A p \in DOMAIN r.routes \union paths :
            (IF p \in paths THEN << >> ELSE r.routes[p]) \in Seq(LayerName)
      BY <1>1, EmptyCarries DEF IsRouter
    <3> QED BY <2>1, <2>4, <3>1 DEF Add
  <2>6. IsRouter(s)
    BY <1>1, <2>2, <2>4, <2>5 DEF IsRouter
  <2>7. CASE r.halt = "none"
    <3>1. /\ DOMAIN r.routes = PathsBy(c, r.own, k) /\ RoutesCarry(c, r.routes, r.own, k)
          /\ Carries(c, r.fallback, LayerName \ RouteOnly, 0, k)
      BY <2>7 DEF BuiltUpTo
    <3>2. 0..(k + 1) = (0..k) \union {k + 1}
      OBVIOUS
    <3>3. DOMAIN W = PathsBy(c, r.own, k + 1)
      BY <2>4, <3>1, <3>2 DEF PathsBy
    <3>4. ASSUME NEW n \in 0..k, NEW p \in Added(c, r.own, n)
          PROVE  Carries(c, W[p], LayerName, n, k + 1)
      <4>1. p \in DOMAIN r.routes /\ Carries(c, r.routes[p], LayerName, n, k)
        BY <3>1 DEF PathsBy, RoutesCarry
      <4>2. W[p] = r.routes[p]
        BY <1>3, <2>4, <4>1
      <4>3. r.routes[p] \in Seq(LayerName)
        BY <1>1, <4>1 DEF IsRouter
      <4> QED BY <4>1, <4>2, <4>3, SkipCarries DEF NoLayer
    <3>5. ASSUME NEW p \in paths PROVE Carries(c, W[p], LayerName, k + 1, k + 1)
      BY <2>4, EmptyCarries
    <3>6. RoutesCarry(c, W, r.own, k + 1)
      BY <3>2, <3>4, <3>5 DEF RoutesCarry
    <3>7. Carries(c, r.fallback, LayerName \ RouteOnly, 0, k + 1)
      <4>1. r.fallback \in Seq(LayerName) /\ 0 \in 0..k
        BY <1>1 DEF IsRouter
      <4> QED BY <3>1, <4>1, SkipCarries DEF NoLayer
    <3> QED BY <2>2, <2>3, <2>6, <2>7, <3>3, <3>6, <3>7 DEF BuiltUpTo
  <2>8. CASE r.halt # "none"
    BY <2>2, <2>3, <2>6, <2>8 DEF BuiltUpTo
  <2> QED BY <2>7, <2>8
<1> QED BY <1>2, <1>3

\* A step that is left out.
LEMMA SkipBuilt ==
    ASSUME NEW c, NEW r, NEW k \in Nat, k + 1 < Last, BuiltUpTo(c, r, k),
           NoLayer(c, k), Added(c, r.own, k + 1) = {}
    PROVE  BuiltUpTo(c, r, k + 1)
<1>1. IsRouter(r)
  BY DEF BuiltUpTo
<1>2. PICK s : s = Route(r, {})
  OBVIOUS
<1>3. BuiltUpTo(c, s, k + 1)
  BY <1>2, RouteBuilt
<1>4. s = r
  <2>1. Add(r.routes, {}) = r.routes
    BY <1>1 DEF Add, IsRouter
  <2>2. s = [r EXCEPT !.routes = r.routes]
    BY <1>2, <2>1 DEF Route
  <2> QED BY <1>1, <2>2, RouterUpdates DEF IsRouter
<1> QED BY <1>3, <1>4

-----------------------------------------------------------------------------
(* The steps of setup_middleware                                           *)

\* Each number belongs to one layer, or to the three CORS policies.
LEMMA Places ==
    ASSUME NEW m \in LayerName
    PROVE  /\ Place[m] = 2 <=> m = "browser_redirect"
           /\ Place[m] = 3 <=> m = "bearer"
           /\ Place[m] = 4 <=> m = "session_to_identity"
           /\ Place[m] = 5 <=> m = "basic_auth"
           /\ Place[m] = 6 <=> m = "proxy_oidc"
           /\ Place[m] = 9 <=> m = "oidc_client"
           /\ Place[m] = 10 <=> m = "user_span"
           /\ Place[m] = 11 <=> m = "session"
           /\ Place[m] = 12 <=> m = "dedup"
           /\ Place[m] = 13 <=> m = "concurrency"
           /\ Place[m] = 14 <=> m = "payload"
           /\ Place[m] = 15 <=> m = "decompression"
           /\ Place[m] = 16 <=> m = "compression"
           /\ Place[m] = 17 <=> m = "normalize"
           /\ Place[m] = 18 <=> m = "sensitive"
           /\ Place[m] = 19 <=> m = "version"
           /\ Place[m] = 20 <=> m \in {"cors_configured", "cors_restrictive", "cors_permissive"}
           /\ Place[m] = 21 <=> m = "helmet"
           /\ Place[m] = 22 <=> m = "hsts"
           /\ Place[m] = 23 <=> m = "csp"
           /\ Place[m] = 24 <=> m = "trace"
           /\ Place[m] = 26 <=> m = "metrics"
           /\ Place[m] = 28 <=> m = "timeout"
           /\ Place[m] = 29 <=> m = "rate"
           /\ Place[m] = 30 <=> m = "propagate_id"
           /\ Place[m] = 31 <=> m = "set_id"
           /\ Place[m] = 33 <=> m = "catch_panic"
           /\ Place[m] \notin {1, 7, 8, 25, 27, 32, 34}
BY DEF LayerName, Place

\* The router r after step k, with the application's paths own.
Built(c, own, r, k) == BuiltUpTo(c, r, k) /\ r.own = own

\* No step that adds a layer adds paths.
LEMMA LayersAddNoPath ==
    ASSUME NEW c, NEW own, NEW l \in LayerName
    PROVE  Added(c, own, Place[l]) = {}
<1>1. Place[l] \notin {0, 1, 7, 8, 25, 27, 32}
  BY Places, PlacesInRange
<1> QED BY <1>1 DEF Added

Cors == {"cors_configured", "cors_restrictive", "cors_permissive"}

LEMMA PlacesDiffer ==
    ASSUME NEW l \in LayerName \ Cors, NEW m \in LayerName, Place[m] = Place[l]
    PROVE  m = l
BY DEF LayerName, Place, Cors

\* The step of a layer that is added with `layer`, if it is asked for.
LEMMA LayerStep ==
    ASSUME NEW c, NEW own, NEW r, NEW l \in LayerName \ (RouteOnly \union Cors),
           NEW k \in Nat, Place[l] = k + 1, Built(c, own, r, k)
    PROVE  /\ Asked(c)[l] => Built(c, own, Layer(r, l), k + 1)
           /\ ~Asked(c)[l] => Built(c, own, r, k + 1)
<1>1. BuiltUpTo(c, r, k) /\ r.own = own /\ k + 1 < Last
  BY PlacesInRange DEF Built, Last
<1>2. Added(c, own, k + 1) = {}
  BY LayersAddNoPath
<1>3. \A m \in LayerName : Place[m] = k + 1 => m = l
  BY PlacesDiffer
<1>4. CASE Asked(c)[l]
  <2>1. OnlyLayer(c, r.own, k, l)
    BY <1>1, <1>2, <1>3, <1>4 DEF OnlyLayer
  <2> QED BY <1>1, <1>4, <2>1, LayerBuilt DEF Built
<1>5. CASE ~Asked(c)[l]
  <2>1. NoLayer(c, k)
    BY <1>3, <1>5 DEF NoLayer
  <2> QED BY <1>1, <1>2, <1>5, <2>1, SkipBuilt DEF Built
<1> QED BY <1>4, <1>5

\* The step of a layer that is added with `route_layer`.
LEMMA RouteLayerStep ==
    ASSUME NEW c, NEW own, NEW r, NEW l \in RouteOnly,
           NEW k \in Nat, Place[l] = k + 1, Built(c, own, r, k),
           Asked(c)[l] => c.oidc # None \/ c.basic_auth # None \/ c.proxy_oidc # None
    PROVE  /\ Asked(c)[l] => Built(c, own, RouteLayer(r, l), k + 1)
           /\ ~Asked(c)[l] => Built(c, own, r, k + 1)
<1>0. l \in LayerName \ Cors
  BY DEF RouteOnly, LayerName, Place, Cors
<1>1. BuiltUpTo(c, r, k) /\ r.own = own /\ k + 1 < Last /\ k > 0
  BY <1>0, PlacesInRange DEF Built, Last
<1>2. Added(c, own, k + 1) = {}
  BY <1>0, LayersAddNoPath
<1>3. \A m \in LayerName : Place[m] = k + 1 => m = l
  BY <1>0, PlacesDiffer
<1>4. CASE Asked(c)[l]
  <2>1. OnlyLayer(c, r.own, k, l)
    BY <1>0, <1>1, <1>2, <1>3, <1>4 DEF OnlyLayer
  <2> QED BY <1>1, <1>4, <2>1, RouteLayerBuilt DEF Built
<1>5. CASE ~Asked(c)[l]
  <2>1. NoLayer(c, k)
    BY <1>3, <1>5 DEF NoLayer
  <2> QED BY <1>1, <1>2, <1>5, <2>1, SkipBuilt DEF Built
<1> QED BY <1>4, <1>5

\* The building ends between two steps.
LEMMA HaltStep ==
    ASSUME NEW c, NEW own, NEW r, NEW k, Built(c, own, r, k), r.halt = "none", NEW why,
           why \in {"Io", "Configuration", "Database"} \/ (why = "panic" /\ Unbuildable(c, own))
    PROVE  Built(c, own, [r EXCEPT !.halt = why], k)
<1>1. PICK b \in BOOLEAN : b
  OBVIOUS
<1>2. BuiltUpTo(c, Halt(r, b, why), k) /\ Halt(r, b, why).own = r.own
  <2>1. BuiltUpTo(c, r, k) /\ r.own = own
    BY DEF Built
  <2>2. CASE why \in {"Io", "Configuration", "Database"}
    BY <2>1, <2>2, HaltBuilt
  <2>3. CASE why = "panic" /\ Unbuildable(c, r.own)
    BY <2>1, <2>3, HaltBuilt
  <2> QED BY <2>1, <2>2, <2>3
<1> QED BY <1>1, <1>2 DEF Halt, Built

\* The step of some paths.
LEMMA RouteStep ==
    ASSUME NEW c, NEW own, NEW r, NEW k \in Nat, k + 1 \in {1, 7, 8, 25, 27, 32},
           Built(c, own, r, k), NEW paths, Added(c, own, k + 1) = paths, paths \subseteq Path
    PROVE  Built(c, own, Route(r, paths), k + 1) /\ (paths = {} => Built(c, own, r, k + 1))
<1>1. BuiltUpTo(c, r, k) /\ r.own = own /\ k + 1 < Last
  BY DEF Built, Last
<1>2. NoLayer(c, k)
  BY Places DEF NoLayer
<1> QED BY <1>1, <1>2, RouteBuilt, SkipBuilt DEF Built

\* A panic for one of the known reasons, or the router goes on.
LEMMA PanicStep ==
    ASSUME NEW c, NEW own, NEW r, NEW k, Built(c, own, r, k), NEW bad \in BOOLEAN,
           bad => Unbuildable(c, own)
    PROVE  Built(c, own, Halt(r, bad, "panic"), k)
<1>1. CASE bad /\ r.halt = "none"
  BY <1>1, HaltStep DEF Halt
<1>2. CASE ~(bad /\ r.halt = "none")
  BY <1>2 DEF Halt
<1> QED BY <1>1, <1>2

LEMMA DirectoriesStep ==
    ASSUME NEW c \in Config(Secret), NEW own, NEW r, NEW k \in Nat, k + 1 \in {1, 7},
           NEW protected, Added(c, own, k + 1) = MappedPaths(c, protected),
           MappedTwice(c, protected) => Unbuildable(c, own),
           "/" \in MappedPaths(c, protected) => Unbuildable(c, own), Built(c, own, r, k)
    PROVE  Built(c, own, setup_directories(c, r, protected), k + 1)
<1>1. PICK paths : paths = MappedPaths(c, protected)
  OBVIOUS
<1>2. Added(c, own, k + 1) = paths
  BY <1>1
<1>3. paths \subseteq Path
  <2>1. c.directories \in Seq(StaticDirConfig)
    BY DEF Config
  <2>2. ASSUME NEW i \in DOMAIN c.directories, c.directories[i].route # None
        PROVE  c.directories[i].route[1] \in Path
    <3>1. c.directories[i] \in StaticDirConfig
      BY <2>1, ElementOfSeq
    <3>2. c.directories[i].route \in Option(Path)
      BY <3>1 DEF StaticDirConfig
    <3> QED BY <2>2, <3>2, NoneOrSome
  <2> QED BY <1>1, <2>2 DEF MappedPaths, Mapped
<1>4. PICK twice \in BOOLEAN : twice <=> MappedTwice(c, protected)
  OBVIOUS
<1>5. PICK r1 : r1 = Halt(r, twice, "panic")
  OBVIOUS
<1>6. Built(c, own, r1, k)
  <2>1. twice => Unbuildable(c, own)
    BY <1>4
  <2> QED BY <1>5, <2>1, PanicStep
<1>7. PICK root \in BOOLEAN : root <=> "/" \in paths
  OBVIOUS
<1>8. PICK r2 : r2 = Halt(r1, root, "panic")
  OBVIOUS
<1>9. Built(c, own, r2, k)
  <2>1. root => Unbuildable(c, own)
    BY <1>1, <1>7
  <2> QED BY <1>6, <1>8, <2>1, PanicStep
<1>10. setup_directories(c, r, protected) = Route(r2, paths)
  BY <1>1, <1>4, <1>5, <1>7, <1>8 DEF setup_directories, Nest, Halt
<1> QED BY <1>2, <1>3, <1>9, <1>10, RouteStep

LEMMA FilesStep ==
    ASSUME NEW c \in Config(Secret), NEW own, NEW r
    PROVE  /\ Built(c, own, r, 0) => Built(c, own, setup_protected_files(c, r), 1)
           /\ Built(c, own, r, 6) => Built(c, own, setup_public_files(c, r), 7)
<1>1. Added(c, own, 1) = MappedPaths(c, TRUE) /\ Added(c, own, 7) = MappedPaths(c, FALSE)
  BY DEF Added
<1>2. ASSUME Built(c, own, r, 0) PROVE Built(c, own, setup_protected_files(c, r), 1)
  <2>1. PICK b : b = TRUE
    OBVIOUS
  <2>2. /\ Added(c, own, 1) = MappedPaths(c, b)
        /\ MappedTwice(c, b) => Unbuildable(c, own)
        /\ "/" \in MappedPaths(c, b) => Unbuildable(c, own)
    BY <1>1, <2>1 DEF Unbuildable
  <2>3. Built(c, own, setup_directories(c, r, b), 1)
    BY <1>2, <2>2, DirectoriesStep
  <2> QED BY <2>1, <2>3, Zenon DEF setup_protected_files
<1>3. ASSUME Built(c, own, r, 6) PROVE Built(c, own, setup_public_files(c, r), 7)
  <2>1. PICK b : b = FALSE
    OBVIOUS
  <2>2. /\ Added(c, own, 7) = MappedPaths(c, b)
        /\ MappedTwice(c, b) => Unbuildable(c, own)
        /\ "/" \in MappedPaths(c, b) => Unbuildable(c, own)
    BY <1>1, <2>1 DEF Unbuildable
  <2>3. Built(c, own, setup_directories(c, r, b), 7)
    BY <1>3, <2>2, DirectoriesStep
  <2> QED BY <2>1, <2>3, Zenon DEF setup_public_files
<1> QED BY <1>2, <1>3

\* The issuer, its keys or a store cannot be reached.
LEMMA DiscoverStep ==
    ASSUME NEW c, NEW own, NEW r, NEW k, Built(c, own, r, k), NEW fault
    PROVE  /\ Built(c, own, Discover(r, fault), k)
           /\ Built(c, own, Halt(r, fault = "keys_down", "Io"), k)
<1>1. PICK d : d = Halt(r, fault = "issuer_down", "Io")
  OBVIOUS
<1>2. Built(c, own, d, k)
  BY <1>1, HaltStep DEF Halt
<1>3. Built(c, own, Halt(d, fault = "issuer_broken", "Configuration"), k)
  BY <1>2, HaltStep DEF Halt
<1>4. Built(c, own, Halt(r, fault = "keys_down", "Io"), k)
  BY HaltStep DEF Halt
<1> QED BY <1>1, <1>3, <1>4 DEF Discover

LEMMA OidcStep ==
    ASSUME NEW c, NEW own, NEW r, Built(c, own, r, 2), NEW fault
    PROVE  Built(c, own, setup_oidc(c, r, fault), 4)
<1>1. /\ "bearer" \in RouteOnly /\ Place["bearer"] = 3 /\ Place["session_to_identity"] = 4
      /\ "session_to_identity" \in LayerName \ (RouteOnly \union Cors)
  BY DEF RouteOnly, Place, LayerName, Cors
<1>2. /\ Asked(c)["bearer"] <=> c.oidc # None /\ is_enabled(c, "Oidc")
      /\ Asked(c)["session_to_identity"] <=> LoginFlow(c)
  BY DEF Asked
<1>3. CASE c.oidc = None \/ ~is_enabled(c, "Oidc")
  <2>1. ~Asked(c)["bearer"] /\ ~Asked(c)["session_to_identity"]
    BY <1>2, <1>3 DEF LoginFlow, CodeFlow
  <2>2. Built(c, own, r, 3)
    BY <1>1, <2>1, RouteLayerStep
  <2>3. Built(c, own, r, 4)
    BY <1>1, <2>1, <2>2, LayerStep
  <2> QED BY <1>3, <2>3 DEF setup_oidc
<1>4. CASE c.oidc # None /\ is_enabled(c, "Oidc")
  <2>1. PICK found : found = IF c.oidc[1].jwks_url = None THEN Discover(r, fault) ELSE r
    OBVIOUS
  <2>2. PICK fetched : fetched = Halt(found, fault = "keys_down", "Io")
    OBVIOUS
  <2>3. PICK bearer : bearer = RouteLayer(fetched, "bearer")
    OBVIOUS
  <2>4. setup_oidc(c, r, fault) =
          IF CodeFlow(c) THEN Layer(bearer, "session_to_identity") ELSE bearer
    BY <1>4, <2>1, <2>2, <2>3 DEF setup_oidc
  <2>5. Built(c, own, fetched, 2)
    BY <2>1, <2>2, DiscoverStep
  <2>6. Built(c, own, bearer, 3)
    BY <1>1, <1>2, <1>4, <2>3, <2>5, RouteLayerStep
  <2>7. Asked(c)["session_to_identity"] <=> CodeFlow(c)
    BY <1>2, <1>4 DEF LoginFlow
  <2> QED BY <1>1, <2>4, <2>6, <2>7, LayerStep
<1> QED BY <1>3, <1>4

LEMMA OidcRoutesStep ==
    ASSUME NEW c \in Config(Secret), NEW own, NEW r, Built(c, own, r, 7), NEW fault
    PROVE  Built(c, own, setup_oidc_routes(c, r, fault), 9)
<1>1. /\ Place["oidc_client"] = 9
      /\ "oidc_client" \in LayerName \ (RouteOnly \union Cors)
  BY DEF RouteOnly, Place, LayerName, Cors
<1>2. Asked(c)["oidc_client"] <=> LoginFlow(c)
  BY DEF Asked
<1>3. Added(c, own, 8) = IF LoginFlow(c) THEN OidcRoutes(c) ELSE {}
  BY DEF Added
<1>4. CASE ~LoginFlow(c)
  <2>1. Built(c, own, r, 8)
    BY <1>3, <1>4, RouteStep
  <2>2. Built(c, own, r, 9)
    BY <1>1, <1>2, <1>4, <2>1, LayerStep
  <2> QED BY <1>4, <2>2 DEF setup_oidc_routes, LoginFlow
<1>5. CASE LoginFlow(c)
  <2>1. PICK found : found = Discover(r, fault)
    OBVIOUS
  <2>2. PICK client : client = Halt(found, fault = "keys_down", "Io")
    OBVIOUS
  <2>3. Built(c, own, client, 7)
    BY <2>1, <2>2, DiscoverStep
  <2>7. PICK clash \in BOOLEAN : clash <=> OidcRoutesClash(c)
    OBVIOUS
  <2>8. PICK free : free = Halt(client, clash, "panic")
    OBVIOUS
  <2>9. Built(c, own, free, 7)
    <3>1. clash => Unbuildable(c, own)
      BY <1>5, <2>7 DEF Unbuildable
    <3> QED BY <2>3, <2>8, <3>1, PanicStep
  <2>10. free = Halt(client, OidcRoutesClash(c), "panic")
    BY <2>7, <2>8 DEF Halt
  <2>11. PICK paths : paths = OidcRoutes(c)
    OBVIOUS
  <2>12. paths \subseteq Path
    <3>1. c.oidc # None /\ c.oidc \in Option(HttpOidcConfig(Secret))
      BY <1>5 DEF LoginFlow, CodeFlow, Config
    <3>2. c.oidc[1] \in HttpOidcConfig(Secret)
      BY <3>1, NoneOrSome
    <3> QED BY <2>11, <3>2 DEF OidcRoutes, HttpOidcConfig
  <2>4. PICK routed : routed = Route(free, paths)
    OBVIOUS
  <2>5. Built(c, own, routed, 8)
    <3>1. Added(c, own, 8) = paths
      BY <1>3, <1>5, <2>11
    <3> QED BY <2>4, <2>9, <2>12, <3>1, RouteStep
  <2>6. Built(c, own, Layer(routed, "oidc_client"), 9)
    BY <1>1, <1>2, <1>5, <2>5, LayerStep
  <2> QED BY <1>5, <2>1, <2>2, <2>4, <2>6, <2>10, <2>11 DEF setup_oidc_routes, LoginFlow
<1> QED BY <1>4, <1>5

LEMMA SessionStep ==
    ASSUME NEW c, NEW own, NEW r, Built(c, own, r, 10), NEW fault
    PROVE  Built(c, own, setup_session_handling(c, r, fault), 11)
<1>1. PICK keyed : keyed = Halt(r, is_external(c.session_store)
                                     /\ c.session_signing_key = None, "Configuration")
  OBVIOUS
<1>2. Built(c, own, keyed, 10)
  BY <1>1, HaltStep DEF Halt
<1>3. PICK failure \in {"Database", "Configuration"} :
        failure = IF c.session_store = "Postgres" THEN "Database" ELSE "Configuration"
  OBVIOUS
<1>4. PICK stored :
        stored = Halt(keyed, is_external(c.session_store) /\ fault = "store_down", failure)
  OBVIOUS
<1>5. Built(c, own, stored, 10)
  BY <1>2, <1>3, <1>4, HaltStep DEF Halt
<1>6. /\ Asked(c)["session"] /\ Place["session"] = 11
      /\ "session" \in LayerName \ (RouteOnly \union Cors)
  BY DEF Asked, RouteOnly, Place, LayerName, Cors
<1>7. Built(c, own, Layer(stored, "session"), 11)
  BY <1>5, <1>6, LayerStep
<1> QED BY <1>1, <1>3, <1>4, <1>7 DEF setup_session_handling

\* The steps that authenticate: 1 to 11.
LEMMA AuthenticationBuilt ==
    ASSUME NEW c \in Config(Secret), NEW own, NEW r, Built(c, own, r, 0), NEW fault
    PROVE  Built(c, own, Authentication(c, r, fault), 11)
<1>0. /\ {"browser_redirect", "basic_auth", "proxy_oidc"} \subseteq RouteOnly
      /\ Place["browser_redirect"] = 2 /\ Place["basic_auth"] = 5 /\ Place["proxy_oidc"] = 6
      /\ Place["user_span"] = 10 /\ "user_span" \in LayerName \ (RouteOnly \union Cors)
  BY DEF RouteOnly, Place, LayerName, Cors
<1>a. /\ Asked(c)["browser_redirect"] <=> LoginFlow(c) /\ c.oidc[1].auto_redirect_to_login
      /\ Asked(c)["basic_auth"] <=> c.basic_auth # None /\ is_enabled(c, "BasicAuth")
      /\ Asked(c)["proxy_oidc"] <=> c.proxy_oidc # None /\ is_enabled(c, "ProxyOidc")
      /\ Asked(c)["user_span"]
  BY DEF Asked
<1>1. PICK r1 : r1 = setup_protected_files(c, r)
  OBVIOUS
<1>2. Built(c, own, r1, 1)
  BY <1>1, FilesStep
<1>3. PICK r2 : r2 = setup_browser_login_redirect(c, r1)
  OBVIOUS
<1>4. Built(c, own, r2, 2)
  <2>1. Asked(c)["browser_redirect"] => c.oidc # None
    BY <1>a DEF LoginFlow, CodeFlow
  <2>2. /\ Asked(c)["browser_redirect"] => Built(c, own, RouteLayer(r1, "browser_redirect"), 2)
        /\ ~Asked(c)["browser_redirect"] => Built(c, own, r1, 2)
    <3>1. PICK l \in RouteOnly : l = "browser_redirect"
      BY <1>0
    <3>2. Place[l] = 1 + 1
      BY <1>0, <3>1
    <3>3. /\ Asked(c)[l] => Built(c, own, RouteLayer(r1, l), 1 + 1)
          /\ ~Asked(c)[l] => Built(c, own, r1, 1 + 1)
      BY <1>2, <2>1, <3>1, <3>2, RouteLayerStep
    <3> QED BY <3>1, <3>3
  <2> QED BY <1>3, <1>a, <2>2 DEF setup_browser_login_redirect, LoginFlow
<1>5. PICK r4 : r4 = setup_oidc(c, r2, fault)
  OBVIOUS
<1>6. Built(c, own, r4, 4)
  BY <1>4, <1>5, OidcStep
<1>7. PICK r5 : r5 = setup_basic_auth(c, r4)
  OBVIOUS
<1>8. Built(c, own, r5, 5)
  BY <1>0, <1>a, <1>6, <1>7, RouteLayerStep DEF setup_basic_auth
<1>9. PICK r6 : r6 = setup_proxy_oidc(c, r5)
  OBVIOUS
<1>10. Built(c, own, r6, 6)
  BY <1>0, <1>a, <1>8, <1>9, RouteLayerStep DEF setup_proxy_oidc
<1>11. PICK r7 : r7 = setup_public_files(c, r6)
  OBVIOUS
<1>12. Built(c, own, r7, 7)
  BY <1>10, <1>11, FilesStep
<1>13. PICK r9 : r9 = setup_oidc_routes(c, r7, fault)
  OBVIOUS
<1>14. Built(c, own, r9, 9)
  BY <1>12, <1>13, OidcRoutesStep
<1>15. Built(c, own, setup_user_span(r9), 10)
  BY <1>0, <1>a, <1>14, LayerStep DEF setup_user_span
<1>16. Built(c, own, setup_session_handling(c, setup_user_span(r9), fault), 11)
  BY <1>15, SessionStep
<1> QED BY <1>1, <1>3, <1>5, <1>7, <1>9, <1>11, <1>13, <1>16 DEF Authentication

\* A layer that is on or off by its name.
LEMMA LayerIfStep ==
    ASSUME NEW c, NEW own, NEW r, NEW m, NEW l \in LayerName \ (RouteOnly \union Cors),
           NEW k \in Nat, Place[l] = k + 1, Built(c, own, r, k),
           Asked(c)[l] <=> is_enabled(c, m)
    PROVE  Built(c, own, LayerIf(c, r, m, l), k + 1)
BY LayerStep DEF LayerIf

\* The steps that shape a request: 12 to 19.
LEMMA RequestShapingBuilt ==
    ASSUME NEW c, NEW own, NEW r, Built(c, own, r, 11)
    PROVE  Built(c, own, RequestShaping(c, r), 19)
<1>1. /\ Place["dedup"] = 12 /\ Place["concurrency"] = 13 /\ Place["payload"] = 14
      /\ Place["decompression"] = 15 /\ Place["compression"] = 16
      /\ Place["normalize"] = 17 /\ Place["sensitive"] = 18 /\ Place["version"] = 19
  BY DEF Place
<1>2. {"dedup", "concurrency", "payload", "decompression", "compression", "normalize",
       "sensitive", "version"} \subseteq LayerName \ (RouteOnly \union Cors)
  BY DEF LayerName, Place, RouteOnly, Cors
<1>3. /\ Asked(c)["dedup"] <=> /\ is_enabled(c, "RequestDeduplication")
                               /\ is_enabled(c, "RequestId") /\ c.deduplication # None
      /\ Asked(c)["concurrency"] <=> is_enabled(c, "ConcurrencyLimit")
      /\ Asked(c)["payload"] <=> is_enabled(c, "MaxPayloadSize")
      /\ Asked(c)["decompression"] <=> c.support_compression /\ is_enabled(c, "Compression")
      /\ Asked(c)["compression"] <=> c.support_compression /\ is_enabled(c, "Compression")
      /\ Asked(c)["normalize"] <=> is_enabled(c, "PathNormalization")
      /\ Asked(c)["sensitive"] <=> is_enabled(c, "SensitiveHeaders")
      /\ Asked(c)["version"] <=> is_enabled(c, "ApiVersioning")
  BY DEF Asked
<1>4. PICK r1 : r1 = setup_deduplication(c, r)
  OBVIOUS
<1>5. Built(c, own, r1, 12)
  BY <1>1, <1>2, <1>3, <1>4, LayerStep DEF setup_deduplication
<1>6. PICK r2 : r2 = setup_concurrency_limit(c, r1)
  OBVIOUS
<1>7. Built(c, own, r2, 13)
  BY <1>1, <1>2, <1>3, <1>5, <1>6, LayerIfStep DEF setup_concurrency_limit
<1>8. PICK r3 : r3 = setup_max_payload_size(c, r2)
  OBVIOUS
<1>9. Built(c, own, r3, 14)
  <2>1. PICK l \in LayerName \ (RouteOnly \union Cors) : l = "payload"
    BY <1>2
  <2>2. Place[l] = 13 + 1 /\ (Asked(c)[l] <=> is_enabled(c, "MaxPayloadSize"))
    BY <1>1, <1>3, <2>1
  <2>3. Built(c, own, LayerIf(c, r2, "MaxPayloadSize", l), 13 + 1)
    BY <1>7, <2>2, LayerIfStep
  <2> QED BY <1>8, <2>1, <2>3 DEF setup_max_payload_size
<1>10. PICK r4 : r4 = setup_compression(c, r3)
  OBVIOUS
<1>11. Built(c, own, r4, 16)
  <2>1. CASE c.support_compression
    <3>1. PICK d : d = LayerIf(c, r3, "Compression", "decompression")
      OBVIOUS
    <3>2. Built(c, own, d, 15)
      BY <1>1, <1>2, <1>3, <1>9, <2>1, <3>1, LayerIfStep
    <3>3. Built(c, own, LayerIf(c, d, "Compression", "compression"), 16)
      BY <1>1, <1>2, <1>3, <2>1, <3>2, LayerIfStep
    <3> QED BY <1>10, <2>1, <3>1, <3>3 DEF setup_compression
  <2>2. CASE ~c.support_compression
    <3>1. Built(c, own, r3, 15)
      BY <1>1, <1>2, <1>3, <1>9, <2>2, LayerStep
    <3>2. Built(c, own, r3, 16)
      BY <1>1, <1>2, <1>3, <2>2, <3>1, LayerStep
    <3> QED BY <1>10, <2>2, <3>2 DEF setup_compression
  <2> QED BY <2>1, <2>2
<1>12. PICK r5 : r5 = setup_path_normalization(c, r4)
  OBVIOUS
<1>13. Built(c, own, r5, 17)
  BY <1>1, <1>2, <1>3, <1>11, <1>12, LayerIfStep DEF setup_path_normalization
<1>14. PICK r6 : r6 = setup_sensitive_headers(c, r5)
  OBVIOUS
<1>15. Built(c, own, r6, 18)
  BY <1>1, <1>2, <1>3, <1>13, <1>14, LayerIfStep DEF setup_sensitive_headers
<1>16. Built(c, own, setup_api_versioning(c, r6), 19)
  BY <1>1, <1>2, <1>3, <1>15, LayerIfStep DEF setup_api_versioning
<1> QED BY <1>4, <1>6, <1>8, <1>10, <1>12, <1>14, <1>16 DEF RequestShaping

\* One of the three CORS policies, or none: step 20.
LEMMA CorsStep ==
    ASSUME NEW c, NEW own, NEW r, Built(c, own, r, 19)
    PROVE  Built(c, own, setup_cors(c, r), 20)
<1>1. /\ Cors \subseteq LayerName \ RouteOnly /\ \A l \in Cors : Place[l] = 20
      /\ \A m \in LayerName : Place[m] = 20 => m \in Cors
  BY DEF Cors, LayerName, Place, RouteOnly
<1>2. /\ Asked(c)["cors_configured"] <=> is_enabled(c, "Cors") /\ c.cors # None
      /\ Asked(c)["cors_restrictive"] <=>
            is_enabled(c, "Cors") /\ c.cors = None /\ c.is_production
      /\ Asked(c)["cors_permissive"] <=>
            is_enabled(c, "Cors") /\ c.cors = None /\ ~c.is_production
  BY DEF Asked
<1>3. PICK l \in Cors : l = IF c.cors # None THEN "cors_configured"
                            ELSE IF c.is_production THEN "cors_restrictive"
                            ELSE "cors_permissive"
  BY DEF Cors
<1>4. /\ Asked(c)[l] <=> is_enabled(c, "Cors")
      /\ \A m \in Cors : Asked(c)[m] => m = l
  BY <1>2, <1>3 DEF Cors
<1>5. Added(c, own, 20) = {}
  BY <1>1, LayersAddNoPath
<1>10. PICK star \in BOOLEAN : star <=> is_enabled(c, "Cors") /\ StarWithCredentials(c)
  OBVIOUS
<1>11. PICK h : h = Halt(r, star, "panic")
  OBVIOUS
<1>12. Built(c, own, h, 19)
  <2>1. star => Unbuildable(c, own)
    BY <1>10 DEF Unbuildable
  <2> QED BY <1>11, <2>1, PanicStep
<1>6. setup_cors(c, r) = LayerIf(c, h, "Cors", l)
  BY <1>3, <1>10, <1>11 DEF setup_cors, Halt
<1>7. BuiltUpTo(c, h, 19) /\ h.own = own
  BY <1>12 DEF Built
<1>8. CASE is_enabled(c, "Cors")
  <2>1. OnlyLayer(c, h.own, 19, l)
    BY <1>1, <1>4, <1>5, <1>7, <1>8 DEF OnlyLayer
  <2>2. BuiltUpTo(c, Layer(h, l), 19 + 1) /\ Layer(h, l).own = h.own
    <3>1. l \notin RouteOnly /\ 19 + 1 < Last
      BY <1>1 DEF Last
    <3> QED BY <1>7, <2>1, <3>1, LayerBuilt
  <2> QED BY <1>6, <1>7, <1>8, <2>2 DEF LayerIf, Built
<1>9. CASE ~is_enabled(c, "Cors")
  <2>1. NoLayer(c, 19)
    BY <1>1, <1>4, <1>9 DEF NoLayer
  <2>2. BuiltUpTo(c, h, 19 + 1)
    BY <1>5, <1>7, <2>1, SkipBuilt DEF Last
  <2> QED BY <1>6, <1>7, <1>9, <2>2 DEF LayerIf, Built
<1> QED BY <1>8, <1>9

\* The security headers: steps 21 to 23.
LEMMA HelmetStep ==
    ASSUME NEW c, NEW own, NEW r, Built(c, own, r, 20)
    PROVE  Built(c, own, setup_helmet(c, r), 23)
<1>1. /\ Place["helmet"] = 21 /\ Place["hsts"] = 22 /\ Place["csp"] = 23
      /\ {"helmet", "hsts", "csp"} \subseteq LayerName \ (RouteOnly \union Cors)
  BY DEF Place, LayerName, RouteOnly, Cors
<1>2. /\ Asked(c)["helmet"] <=> is_enabled(c, "SecurityHeaders")
      /\ Asked(c)["hsts"] <=> is_enabled(c, "SecurityHeaders") /\ c.hsts
      /\ Asked(c)["csp"] <=> is_enabled(c, "SecurityHeaders") /\ c.csp
  BY DEF Asked
<1>3. CASE ~is_enabled(c, "SecurityHeaders")
  <2>1. Built(c, own, r, 21)
    BY <1>1, <1>2, <1>3, LayerStep
  <2>2. Built(c, own, r, 22)
    BY <1>1, <1>2, <1>3, <2>1, LayerStep
  <2>3. Built(c, own, r, 23)
    BY <1>1, <1>2, <1>3, <2>2, LayerStep
  <2> QED BY <1>3, <2>3 DEF setup_helmet
<1>4. CASE is_enabled(c, "SecurityHeaders")
  <2>1. PICK h : h = Layer(r, "helmet")
    OBVIOUS
  <2>2. Built(c, own, h, 21)
    BY <1>1, <1>2, <1>4, <2>1, LayerStep
  <2>3. PICK t : t = IF c.hsts THEN Layer(h, "hsts") ELSE h
    OBVIOUS
  <2>4. Built(c, own, t, 22)
    BY <1>1, <1>2, <1>4, <2>2, <2>3, LayerStep
  <2>5. Built(c, own, IF c.csp THEN Layer(t, "csp") ELSE t, 23)
    BY <1>1, <1>2, <1>4, <2>4, LayerStep
  <2> QED BY <1>4, <2>1, <2>3, <2>5 DEF setup_helmet
<1> QED BY <1>3, <1>4

\* The metrics route and the layer around it: steps 25 and 26.
LEMMA MetricsStep ==
    ASSUME NEW c \in Config(Secret), NEW own, NEW r, Built(c, own, r, 24)
    PROVE  Built(c, own, setup_metrics(c, r), 26)
<1>1. Place["metrics"] = 26 /\ "metrics" \in LayerName \ (RouteOnly \union Cors)
  BY DEF Place, LayerName, RouteOnly, Cors
<1>2. Asked(c)["metrics"] <=> c.with_metrics /\ is_enabled(c, "Metrics")
  BY DEF Asked
<1>3. Added(c, own, 25) =
        IF c.with_metrics /\ is_enabled(c, "Metrics") THEN {MetricsRoute(c)} ELSE {}
  BY DEF Added
<1>4. CASE c.with_metrics /\ is_enabled(c, "Metrics")
  <2>1. PICK p \in Path : p = MetricsRoute(c)
    <3>1. CASE FirstMetricsRoute = None
      BY <3>1 DEF Config, MetricsRoute
    <3>2. CASE FirstMetricsRoute # None
      BY <3>2, StackAssumption, NoneOrSome DEF MetricsRoute
    <3> QED BY <3>1, <3>2
  <2>5. PICK second \in BOOLEAN : second <=> RecorderInstalled /\ ~c.custom_metrics
    OBVIOUS
  <2>6. PICK h : h = Halt(r, second, "panic")
    OBVIOUS
  <2>7. Built(c, own, h, 24)
    <3>1. second => Unbuildable(c, own)
      BY <1>3, <1>4, <2>5 DEF Unbuildable
    <3> QED BY <2>6, <3>1, PanicStep
  <2>8. h = Halt(r, RecorderInstalled /\ ~c.custom_metrics, "panic")
    BY <2>5, <2>6 DEF Halt
  <2>2. PICK routed : routed = Route(h, {p})
    OBVIOUS
  <2>3. Built(c, own, routed, 25)
    BY <1>3, <1>4, <2>1, <2>2, <2>7, RouteStep
  <2>4. Built(c, own, Layer(routed, "metrics"), 26)
    BY <1>1, <1>2, <1>4, <2>3, LayerStep
  <2> QED BY <1>4, <2>1, <2>2, <2>4, <2>8 DEF setup_metrics
<1>5. CASE ~(c.with_metrics /\ is_enabled(c, "Metrics"))
  <2>1. Built(c, own, r, 25)
    BY <1>3, <1>5, RouteStep
  <2>2. Built(c, own, r, 26)
    BY <1>1, <1>2, <1>5, <2>1, LayerStep
  <2> QED BY <1>5, <2>2 DEF setup_metrics
<1> QED BY <1>4, <1>5

\* The steps for every route of the application: 20 to 26.
LEMMA CrossCuttingBuilt ==
    ASSUME NEW c \in Config(Secret), NEW own, NEW r, Built(c, own, r, 19)
    PROVE  Built(c, own, CrossCutting(c, r), 26)
<1>1. PICK r1 : r1 = setup_cors(c, r)
  OBVIOUS
<1>2. PICK r2 : r2 = setup_helmet(c, r1)
  OBVIOUS
<1>3. PICK r3 : r3 = setup_logging(c, r2)
  OBVIOUS
<1>4. Built(c, own, r2, 23)
  BY <1>1, <1>2, CorsStep, HelmetStep
<1>5. Built(c, own, r3, 24)
  <2>1. /\ Place["trace"] = 24 /\ "trace" \in LayerName \ (RouteOnly \union Cors)
        /\ Asked(c)["trace"] <=> is_enabled(c, "Logging")
    BY DEF Place, LayerName, RouteOnly, Cors, Asked
  <2> QED BY <1>3, <1>4, <2>1, LayerIfStep DEF setup_logging
<1>6. Built(c, own, setup_metrics(c, r3), 26)
  BY <1>5, MetricsStep
<1> QED BY <1>1, <1>2, <1>3, <1>6 DEF CrossCutting

\* A rate of more than one request per nanosecond leaves an interval of none.
LEMMA IntervalOfNone ==
    ASSUME NEW n \in Nat, n > 0, NEW d \in Nat, d \div n = 0
    PROVE  n > d
OBVIOUS

LEMMA RateStep ==
    ASSUME NEW c \in Config(Secret), NEW own, NEW r, Built(c, own, r, 28)
    PROVE  Built(c, own, setup_rate_limiting(c, r), 29)
<1>1. Place["rate"] = 29 /\ "rate" \in LayerName \ (RouteOnly \union Cors)
  BY DEF Place, LayerName, RouteOnly, Cors
<1>2. Asked(c)["rate"] <=> c.max_requests_per_sec > 0 /\ is_enabled(c, "RateLimiting")
  BY DEF Asked
<1>3. CASE Asked(c)["rate"]
  <2>1. PICK b \in BOOLEAN : b <=> NanosPerSec \div c.max_requests_per_sec = 0
    OBVIOUS
  <2>2. b => Unbuildable(c, own)
    <3>1. c.max_requests_per_sec \in Nat /\ NanosPerSec \in Nat
      BY DEF Config, NanosPerSec
    <3> QED BY <1>2, <1>3, <2>1, <3>1, IntervalOfNone DEF Unbuildable
  <2>3. PICK h : h = Halt(r, b, "panic")
    OBVIOUS
  <2>4. Built(c, own, h, 28)
    BY <2>2, <2>3, PanicStep
  <2>5. Built(c, own, Layer(h, "rate"), 29)
    BY <1>1, <1>3, <2>4, LayerStep
  <2>6. setup_rate_limiting(c, r) = Layer(h, "rate")
    BY <1>2, <1>3, <2>1, <2>3 DEF setup_rate_limiting, Halt
  <2> QED BY <2>5, <2>6
<1>4. CASE ~Asked(c)["rate"]
  BY <1>1, <1>2, <1>4, LayerStep DEF setup_rate_limiting
<1> QED BY <1>3, <1>4

\* The last step: a fallback directory takes the place of the fallback.
LEMMA FallbackStep ==
    ASSUME NEW c, NEW own, NEW r, Built(c, own, r, 33)
    PROVE  Built(c, own, setup_fallback_files(c, r), 34)
<1>1. IsRouter(r) /\ r.own = own /\ (r.halt = "panic" => Unbuildable(c, own))
  BY DEF Built, BuiltUpTo
<1>2. Added(c, own, 34) = {} /\ \A m \in LayerName : Place[m] # 34
  BY Places DEF Added
<1>3. 0..34 = (0..33) \union {34}
  OBVIOUS
<1>4. ASSUME r.halt = "none"
      PROVE  /\ DOMAIN r.routes = PathsBy(c, own, 34) /\ RoutesCarry(c, r.routes, own, 34)
             /\ Carries(c, r.fallback, LayerName \ RouteOnly, 0, 34)
  <2>0. PICK k \in Nat : k = 33
    OBVIOUS
  <2>a. ASSUME NEW L, NEW s \in Seq(LayerName), NEW n \in 0..k, Carries(c, s, L, n, k)
        PROVE  Carries(c, s, L, n, k + 1)
    <3>1. \A m \in LayerName : Place[m] # k + 1
      BY <1>2, <2>0
    <3> QED BY <2>a, <3>1, SkipCarries
  <2>1. /\ DOMAIN r.routes = PathsBy(c, own, 33) /\ RoutesCarry(c, r.routes, own, 33)
        /\ Carries(c, r.fallback, LayerName \ RouteOnly, 0, 33)
    BY <1>1, <1>4 DEF Built, BuiltUpTo, Last
  <2>2. DOMAIN r.routes = PathsBy(c, own, 34)
    BY <1>2, <1>3, <2>1 DEF PathsBy
  <2>3. ASSUME NEW n \in 0..33, NEW p \in Added(c, own, n)
        PROVE  Carries(c, r.routes[p], LayerName, n, 34)
    <3>1. p \in DOMAIN r.routes /\ Carries(c, r.routes[p], LayerName, n, 33)
      BY <2>1 DEF PathsBy, RoutesCarry
    <3>2. r.routes[p] \in Seq(LayerName)
      BY <1>1, <3>1 DEF IsRouter
    <3> QED BY <2>0, <2>a, <3>1, <3>2
  <2>4. RoutesCarry(c, r.routes, own, 34)
    BY <1>2, <1>3, <2>3 DEF RoutesCarry
  <2>5. Carries(c, r.fallback, LayerName \ RouteOnly, 0, 34)
    <3>1. r.fallback \in Seq(LayerName) /\ 0 \in 0..33
      BY <1>1 DEF IsRouter
    <3> QED BY <2>0, <2>a, <2>1, <3>1
  <2> QED BY <2>2, <2>4, <2>5
<1>5. CASE HasFallback(c)
  <2>1. PICK s : s = [routes |-> r.routes, fallback |-> << >>, own |-> r.own, halt |-> r.halt]
    OBVIOUS
  <2>2. setup_fallback_files(c, r) = s
    BY <1>1, <1>5, <2>1, RouterUpdates DEF setup_fallback_files, Fallback
  <2>3. << >> \in Seq(LayerName)
    OBVIOUS
  <2>4. IsRouter(s)
    BY <1>1, <2>1, <2>3 DEF IsRouter
  <2> QED BY <1>1, <1>4, <1>5, <2>1, <2>2, <2>4 DEF Built, BuiltUpTo, Last
<1>6. CASE ~HasFallback(c)
  BY <1>1, <1>4, <1>6 DEF setup_fallback_files, Built, BuiltUpTo
<1> QED BY <1>5, <1>6

\* The probes and what is around everything: steps 27 to 34.
LEMMA OperationalBuilt ==
    ASSUME NEW c \in Config(Secret), NEW own, NEW r, Built(c, own, r, 26)
    PROVE  Built(c, own, Operational(c, r), 34)
<1>1. /\ Place["timeout"] = 28 /\ Place["propagate_id"] = 30 /\ Place["set_id"] = 31
      /\ Place["catch_panic"] = 33
      /\ {"timeout", "propagate_id", "set_id", "catch_panic"}
            \subseteq LayerName \ (RouteOnly \union Cors)
  BY DEF Place, LayerName, RouteOnly, Cors
<1>2. /\ Asked(c)["timeout"] <=> c.request_timeout # None /\ is_enabled(c, "Timeout")
      /\ Asked(c)["propagate_id"] <=> is_enabled(c, "RequestId")
      /\ Asked(c)["set_id"] <=> is_enabled(c, "RequestId")
      /\ Asked(c)["catch_panic"] <=> is_enabled(c, "CatchPanic")
  BY DEF Asked
<1>3. c.readiness_route \in Path /\ c.liveness_route \in Path
  BY DEF Config
<1>4. PICK r1 : r1 = setup_readiness(c, r)
  OBVIOUS
<1>5. Built(c, own, r1, 27)
  <2>1. Added(c, own, 27) = IF is_enabled(c, "Readiness") THEN {c.readiness_route} ELSE {}
    BY DEF Added
  <2>2. CASE is_enabled(c, "Readiness")
    <3>1. PICK paths : paths = {c.readiness_route}
      OBVIOUS
    <3>2. Built(c, own, Route(r, paths), 27)
      BY <1>3, <2>1, <2>2, <3>1, RouteStep
    <3> QED BY <1>4, <2>2, <3>1, <3>2 DEF setup_readiness
  <2>3. CASE ~is_enabled(c, "Readiness")
    BY <1>4, <2>1, <2>3, RouteStep DEF setup_readiness
  <2> QED BY <2>2, <2>3
<1>6. PICK r2 : r2 = setup_timeout(c, r1)
  OBVIOUS
<1>7. Built(c, own, r2, 28)
  <2>1. /\ Asked(c)["timeout"] => Built(c, own, Layer(r1, "timeout"), 28)
        /\ ~Asked(c)["timeout"] => Built(c, own, r1, 28)
    BY <1>1, <1>5, LayerStep
  <2> QED BY <1>2, <1>6, <2>1 DEF setup_timeout, LayerIf
<1>8. PICK r3 : r3 = setup_rate_limiting(c, r2)
  OBVIOUS
<1>9. Built(c, own, r3, 29)
  BY <1>7, <1>8, RateStep
<1>10. PICK r4 : r4 = setup_request_id(c, r3)
  OBVIOUS
<1>11. Built(c, own, r4, 31)
  <2>1. CASE is_enabled(c, "RequestId")
    <3>1. PICK inner : inner = Layer(r3, "propagate_id")
      OBVIOUS
    <3>2. Built(c, own, inner, 30)
      BY <1>1, <1>2, <1>9, <2>1, <3>1, LayerStep
    <3>3. Built(c, own, Layer(inner, "set_id"), 31)
      BY <1>1, <1>2, <2>1, <3>2, LayerStep
    <3> QED BY <1>10, <2>1, <3>1, <3>3 DEF setup_request_id
  <2>2. CASE ~is_enabled(c, "RequestId")
    <3>1. Built(c, own, r3, 30)
      BY <1>1, <1>2, <1>9, <2>2, LayerStep
    <3>2. Built(c, own, r3, 31)
      BY <1>1, <1>2, <2>2, <3>1, LayerStep
    <3> QED BY <1>10, <2>2, <3>2 DEF setup_request_id
  <2> QED BY <2>1, <2>2
<1>12. PICK r5 : r5 = setup_liveness(c, r4)
  OBVIOUS
<1>13. Built(c, own, r5, 32)
  <2>1. Added(c, own, 32) = IF is_enabled(c, "Liveness") THEN {c.liveness_route} ELSE {}
    BY DEF Added
  <2>2. CASE is_enabled(c, "Liveness")
    <3>1. PICK paths : paths = {c.liveness_route}
      OBVIOUS
    <3>2. Built(c, own, Route(r4, paths), 32)
      BY <1>3, <1>11, <2>1, <2>2, <3>1, RouteStep
    <3> QED BY <1>12, <2>2, <3>1, <3>2 DEF setup_liveness
  <2>3. CASE ~is_enabled(c, "Liveness")
    BY <1>11, <1>12, <2>1, <2>3, RouteStep DEF setup_liveness
  <2> QED BY <2>2, <2>3
<1>14. PICK r6 : r6 = setup_catch_panic(c, r5)
  OBVIOUS
<1>15. Built(c, own, r6, 33)
  BY <1>1, <1>2, <1>13, <1>14, LayerIfStep DEF setup_catch_panic
<1>16. Built(c, own, setup_fallback_files(c, r6), 34)
  BY <1>15, FallbackStep
<1> QED BY <1>4, <1>6, <1>8, <1>10, <1>12, <1>14, <1>16 DEF Operational

\* setup_middleware as a whole, from the application's routes.
LEMMA AssembledBuilt ==
    ASSUME NEW c \in Config(Secret), NEW r, BuiltUpTo(c, r, 0), NEW fault
    PROVE  /\ BuiltUpTo(c, Assembled(c, r, fault), Last)
           /\ Assembled(c, r, fault).own = r.own
<1>1. PICK r1 : r1 = Authentication(c, r, fault)
  OBVIOUS
<1>2. PICK r2 : r2 = RequestShaping(c, r1)
  OBVIOUS
<1>3. PICK r3 : r3 = CrossCutting(c, r2)
  OBVIOUS
<1>4. Built(c, r.own, r1, 11)
  BY <1>1, AuthenticationBuilt DEF Built
<1>5. Built(c, r.own, r2, 19)
  BY <1>2, <1>4, RequestShapingBuilt
<1>6. Built(c, r.own, r3, 26)
  BY <1>3, <1>5, CrossCuttingBuilt
<1>7. Built(c, r.own, Operational(c, r3), 34)
  BY <1>6, OperationalBuilt
<1> QED BY <1>1, <1>2, <1>3, <1>7 DEF Assembled, Built, Last

-----------------------------------------------------------------------------
(* The invariant while the service starts                                  *)

\* The parts of the invariant that are about a request.
RequestOK ==
    /\ req \in Request /\ req.at \in 0..(Len(req.layers) + 1) /\ req.from \in 0..req.at
    /\ RequestOnItsWay /\ ProxyTrusted /\ Authenticated /\ AnsweredInside /\ ProbesStayOpen

\* The parts that are about the start.
StartOK ==
    /\ SettingsOK /\ IsRouter(router) /\ setUp \in BOOLEAN
    /\ stage = "serving" => setUp /\ router.halt = "none"
    /\ ValidatedBuilds /\ StagesInOrder

LEMMA TwoParts == IInv <=> StartOK /\ RequestOK
BY DEF IInv, StartOK, RequestOK, TypeOK, SettingsOK, StagesInOrder

LEMMA NoRequestTyped ==
    /\ NoRequest \in Request /\ NoRequest.at \in 0..(Len(NoRequest.layers) + 1)
    /\ NoRequest.from \in 0..NoRequest.at
<1>1. Unread \in HeadersRead
  BY DEF Unread, HeadersRead, OrUnread
<1>2. << >> \in Seq(LayerName) /\ Len(<< >>) = 0
  OBVIOUS
<1>3. "none" \in Identities /\ "idle" \in Statuses /\ "none" \in Path \union {"none", "elsewhere"}
  BY DEF Identities, Statuses
<1> QED BY <1>1, <1>2, <1>3 DEF NoRequest, Request

\* A service without a request under way keeps every promise about requests.
LEMMA IdleOK == req = NoRequest /\ cfg \in Config(Secret) => RequestOK
<1> SUFFICES ASSUME req = NoRequest, cfg \in Config(Secret) PROVE RequestOK
  OBVIOUS
<1>1. /\ req.status = "idle" /\ req.identity = "none" /\ req.layers = << >>
      /\ req.path = "none"
  BY DEF NoRequest
<1>2. req \in Request /\ req.at \in 0..(Len(req.layers) + 1) /\ req.from \in 0..req.at
  BY NoRequestTyped
<1>3. RequestOnItsWay /\ ProxyTrusted /\ AnsweredInside
  BY <1>1 DEF RequestOnItsWay, ProxyTrusted, AnsweredInside
<1>4. Authenticated
  <2>1. Len(req.layers) = 0
    BY <1>1
  <2>2. \A l : ~Passed(l)
    BY <2>1 DEF Passed
  <2> QED BY <2>2 DEF Authenticated
<1>5. ProbesStayOpen
  <2>1. cfg.liveness_route \in Path /\ cfg.readiness_route \in Path
    BY DEF Config
  <2> QED BY <1>1, <2>1, SettingsAssumption DEF ProbesStayOpen
<1> QED BY <1>2, <1>3, <1>4, <1>5 DEF RequestOK

LEMMA NewRouterBuilt ==
    ASSUME NEW c
    PROVE  IsRouter(NewRouter) /\ BuiltUpTo(c, NewRouter, 0)
<1>1. /\ NewRouter.routes = << >> /\ NewRouter.fallback = << >> /\ NewRouter.own = {}
      /\ NewRouter.halt = "none"
  BY DEF NewRouter
<1>2. DOMAIN << >> = {} /\ << >> \in Seq(LayerName)
  OBVIOUS
<1>3. << >> \in [DOMAIN << >> -> Seq(LayerName)]
  BY <1>2
<1>4. IsRouter(NewRouter)
  BY <1>1, <1>2, <1>3 DEF IsRouter, NewRouter
<1>5. 0..0 = {0} /\ Added(c, {}, 0) = {}
  BY DEF Added
<1>6. PathsBy(c, {}, 0) = {} /\ RoutesCarry(c, << >>, {}, 0)
  BY <1>5 DEF PathsBy, RoutesCarry
<1>7. Carries(c, << >>, LayerName \ RouteOnly, 0, 0)
  BY EmptyCarries
<1>8. 0 # Last
  BY DEF Last
<1> QED BY <1>1, <1>2, <1>4, <1>6, <1>7, <1>8 DEF BuiltUpTo

LEMMA InitOK == Init => IInv
<1> SUFFICES ASSUME Init PROVE IInv
  OBVIOUS
<1>1. SettingsOK
  <2>1. 0 \in 0..MaxChanges
    BY SettingsAssumption
  <2> QED BY <2>1, DefaultIsConfig DEF Init, SettingsInit, SettingsOK
<1>2. router = NewRouter /\ setUp = FALSE /\ stage = "loading" /\ error = "none"
  BY DEF Init, StackInit, SettingsInit
<1>3. IsRouter(router) /\ BuiltUpTo(cfg, router, 0) /\ router.halt = "none"
  BY <1>2, NewRouterBuilt DEF NewRouter
<1>4. StartOK
  BY <1>1, <1>2, <1>3 DEF StartOK, SettingsOK, ValidatedBuilds, StagesInOrder
<1>5. RequestOK
  BY <1>1, IdleOK DEF Init, SettingsOK
<1> QED BY <1>4, <1>5, TwoParts

\* Nothing arrives before the service serves.
LEMMA NotServing ==
    ASSUME IInv, stage # "serving"
    PROVE  req = NoRequest
BY DEF IInv, RequestOnItsWay

LEMMA ConfigureOK ==
    ASSUME StartOK, Configure, UNCHANGED stackVars
    PROVE  StartOK'
<1>1. /\ SettingsOK' /\ stage \in {"loading", "configuring"}
      /\ stage' \in {"configuring", "failed"} /\ error' # "panic"
  BY ConfigureKeeps DEF StartOK
<1>2. router' = NewRouter /\ setUp' = FALSE
  BY <1>1 DEF StartOK, StagesInOrder, stackVars
<1>3. IsRouter(router') /\ BuiltUpTo(cfg', router', 0) /\ router'.halt = "none"
  BY <1>2, NewRouterBuilt DEF NewRouter
<1>4. ValidatedBuilds'
  BY <1>1 DEF ValidatedBuilds
<1>5. StagesInOrder'
  BY <1>1, <1>2, <1>3 DEF StagesInOrder, SettingsOK
<1> QED BY <1>1, <1>2, <1>3, <1>4, <1>5 DEF StartOK

LEMMA WithStateOK ==
    ASSUME StartOK, with_state
    PROVE  StartOK'
<1>1. PICK e \in ErrorKind \union {"none"} :
        /\ e = "none" => validate(cfg) = "none"
        /\ \/ e = "none" /\ stage' = "building" /\ UNCHANGED <<cfg, error>>
           \/ e # "none" /\ Refused(e)
  BY ValidationResult, FromKinds DEF with_state
<1>2. /\ stage = "configuring" /\ UNCHANGED <<changes, secrets, declared, router, setUp, cfg>>
  BY <1>1 DEF with_state, Refused
<1>3. error = "none" /\ router = NewRouter /\ setUp = FALSE /\ cfg' = cfg
  BY <1>2 DEF StartOK, SettingsOK, StagesInOrder
<1>4. CASE e = "none"
  <2>1. stage' = "building" /\ error' = "none" /\ validate(cfg) = "none"
    BY <1>1, <1>3, <1>4
  <2>2. SettingsOK'
    BY <1>2, <2>1 DEF StartOK, SettingsOK
  <2>3. router.halt = "none" /\ BuiltUpTo(cfg, router, 0)
    BY <1>3, NewRouterBuilt DEF NewRouter
  <2>4. StagesInOrder'
    BY <1>2, <1>3, <2>1, <2>2, <2>3 DEF StagesInOrder, SettingsOK
  <2> QED BY <1>2, <2>1, <2>2, <2>4 DEF StartOK, ValidatedBuilds
<1>5. CASE e # "none"
  <2>1. stage' = "failed" /\ error' = e /\ e \in ErrorKind /\ e # "panic"
    BY <1>1, <1>5, FromKinds DEF Refused
  <2>2. SettingsOK'
    BY <1>2, <1>5, <2>1 DEF StartOK, SettingsOK
  <2>3. router.halt = "none"
    BY <1>3 DEF NewRouter
  <2>4. StagesInOrder'
    BY <1>2, <1>3, <2>1, <2>2, <2>3 DEF StagesInOrder, SettingsOK
  <2> QED BY <1>2, <2>1, <2>2, <2>4 DEF StartOK, ValidatedBuilds
<1> QED BY <1>4, <1>5

\* A path of the application, before any step.
LEMMA RegisterBuilt ==
    ASSUME NEW c, NEW r, BuiltUpTo(c, r, 0), r.halt = "panic" => "relative" \in r.own,
           NEW p \in Path, p \notin r.own, NEW s, s = [Route(r, {p}) EXCEPT !.own = @ \union {p}]
    PROVE  /\ BuiltUpTo(c, s, 0) /\ s.own = r.own \union {p}
           /\ s.halt = "panic" => "relative" \in s.own
<1> DEFINE own == r.own \union {p}
           bad == {p} \intersect (DOMAIN r.routes \union {"relative"}) # {}
<1>1. IsRouter(r) /\ 0 # Last /\ 0 \in 0..Last /\ 0..0 = {0}
  BY DEF BuiltUpTo, Last
<1>2. \A o : Added(c, o, 0) = o /\ PathsBy(c, o, 0) = o
  BY <1>1 DEF Added, PathsBy
<1>3. "relative" \in own => Unbuildable(c, own)
  BY <1>1, <1>2 DEF Unbuildable
<1>0. own \subseteq Path
  BY <1>1 DEF IsRouter
<1>4. CASE bad
  <2>1. PICK h : h = IF r.halt = "none" THEN "panic" ELSE r.halt
    OBVIOUS
  <2>2. PICK d : d = Route(r, {p})
    OBVIOUS
  <2>3. d = Halt(r, TRUE, "panic")
    BY <1>4, <2>2 DEF Route
  <2>4. d = [routes |-> r.routes, fallback |-> r.fallback, own |-> r.own, halt |-> h]
    <3>1. CASE r.halt = "none"
      BY <1>1, <2>1, <2>3, <3>1, RouterUpdates DEF Halt
    <3>2. CASE r.halt # "none"
      BY <1>1, <2>1, <2>3, <3>2 DEF Halt, IsRouter
    <3> QED BY <3>1, <3>2
  <2>5. IsRouter(d)
    BY <1>1, <2>1, <2>4 DEF IsRouter
  <2>6. s = [routes |-> r.routes, fallback |-> r.fallback, own |-> own, halt |-> h]
    <3>1. s = [d EXCEPT !.own = own]
      BY <2>2, <2>4
    <3>2. [d EXCEPT !.own = own] =
            [routes |-> d.routes, fallback |-> d.fallback, own |-> own, halt |-> d.halt]
      BY <2>5, RouterUpdates
    <3> QED BY <2>4, <3>1, <3>2
  <2>7. IsRouter(s) /\ s.halt = h /\ s.own = own
    <3> HIDE DEF own, bad
    <3>1. PICK t : t = [routes |-> r.routes, fallback |-> r.fallback, own |-> own, halt |-> h]
      OBVIOUS
    <3>2. t.routes = r.routes /\ t.fallback = r.fallback /\ t.own = own /\ t.halt = h
      BY <3>1
    <3>3. IsRouter(t)
      BY <1>0, <1>1, <2>1, <3>1, <3>2 DEF IsRouter
    <3> QED BY <2>6, <3>1, <3>2, <3>3
  <2>8. h # "none" /\ (h = "panic" => "relative" \in own)
    <3>1. CASE r.halt = "none"
      <4>1. DOMAIN r.routes = r.own
        BY <1>1, <1>2, <3>1 DEF BuiltUpTo
      <4> QED BY <1>4, <2>1, <3>1, <4>1
    <3>2. CASE r.halt # "none"
      BY <2>1, <3>2
    <3> QED BY <3>1, <3>2
  <2> QED BY <1>3, <2>7, <2>8 DEF BuiltUpTo
<1>5. CASE ~bad
  <2>1. PICK W : W = Add(r.routes, {p})
    OBVIOUS
  <2>2. PICK d : d = Route(r, {p})
    OBVIOUS
  <2>3. d = [routes |-> W, fallback |-> r.fallback, own |-> r.own, halt |-> r.halt]
    <3>1. d = [r EXCEPT !.routes = W]
      BY <1>5, <2>1, <2>2 DEF Route
    <3> QED BY <1>1, <3>1, RouterUpdates
  <2>4. /\ DOMAIN W = DOMAIN r.routes \union {p} /\ W[p] = << >>
        /\ \A q \in DOMAIN r.routes \ {p} : W[q] = r.routes[q]
    BY <2>1 DEF Add
  <2>5. W \in [DOMAIN W -> Seq(LayerName)]
    <3>1. \A q \in DOMAIN r.routes \union {p} :
            (IF q \in {p} THEN << >> ELSE r.routes[q]) \in Seq(LayerName)
      BY <1>1, EmptyCarries DEF IsRouter
    <3> QED BY <2>1, <2>4, <3>1 DEF Add
  <2>6. IsRouter(d)
    BY <1>1, <2>3, <2>4, <2>5 DEF IsRouter
  <2>7. s = [routes |-> W, fallback |-> r.fallback, own |-> own, halt |-> r.halt]
    <3>1. s = [d EXCEPT !.own = own]
      BY <2>2, <2>3
    <3>2. [d EXCEPT !.own = own] =
            [routes |-> d.routes, fallback |-> d.fallback, own |-> own, halt |-> d.halt]
      BY <2>6, RouterUpdates
    <3> QED BY <2>3, <3>1, <3>2
  <2>8. /\ IsRouter(s) /\ s.halt = r.halt /\ s.own = own /\ s.routes = W
        /\ s.fallback = r.fallback
    <3> HIDE DEF own, bad
    <3>1. PICK t : t = [routes |-> W, fallback |-> r.fallback, own |-> own, halt |-> r.halt]
      OBVIOUS
    <3>2. t.routes = W /\ t.fallback = r.fallback /\ t.own = own /\ t.halt = r.halt
      BY <3>1
    <3>3. IsRouter(t)
      BY <1>0, <1>1, <2>4, <2>5, <3>1, <3>2 DEF IsRouter
    <3> QED BY <2>7, <3>1, <3>2, <3>3
  <2>9. CASE r.halt = "none"
    <3>1. /\ DOMAIN r.routes = r.own /\ RoutesCarry(c, r.routes, r.own, 0)
          /\ Carries(c, r.fallback, LayerName \ RouteOnly, 0, 0)
      BY <1>1, <1>2, <2>9 DEF BuiltUpTo
    <3>2. DOMAIN W = PathsBy(c, own, 0)
      BY <1>2, <2>4, <3>1
    <3>3. ASSUME NEW q \in own PROVE Carries(c, W[q], LayerName, 0, 0)
      <4>1. CASE q = p
        BY <2>4, <4>1, EmptyCarries
      <4>2. CASE q # p
        BY <1>1, <1>2, <2>4, <3>1, <4>2 DEF RoutesCarry
      <4> QED BY <4>1, <4>2
    <3>4. RoutesCarry(c, W, own, 0)
      BY <1>1, <1>2, <3>3 DEF RoutesCarry
    <3> QED BY <1>1, <2>8, <2>9, <3>1, <3>2, <3>4 DEF BuiltUpTo
  <2>10. CASE r.halt # "none"
    BY <1>3, <2>8, <2>10 DEF BuiltUpTo
  <2> QED BY <2>9, <2>10
<1> QED BY <1>4, <1>5

LEMMA RegisterOK ==
    ASSUME StartOK, Register
    PROVE  StartOK'
<1>1. PICK p \in AppRoutes \ router.own :
        router' = [Route(router, {p}) EXCEPT !.own = @ \union {p}]
  BY DEF Register
<1>2. stage = "building" /\ setUp = FALSE /\ UNCHANGED <<settings, setUp>> /\ error = "none"
  BY DEF Register, StartOK, SettingsOK
<1>3. p \in Path /\ p \notin router.own
  BY StackAssumption
<1>4. BuiltUpTo(cfg, router, 0) /\ (router.halt = "panic" => "relative" \in router.own)
  BY <1>2 DEF StartOK, StagesInOrder
<1>5. BuiltUpTo(cfg, router', 0) /\ (router'.halt = "panic" => "relative" \in router'.own)
  BY <1>1, <1>3, <1>4, RegisterBuilt
<1>6. SettingsOK'
  BY <1>2 DEF StartOK, SettingsOK, settings
<1>7. StagesInOrder'
  BY <1>2, <1>5, <1>6 DEF StartOK, StagesInOrder, SettingsOK, settings
<1> QED BY <1>2, <1>5, <1>6, <1>7 DEF StartOK, ValidatedBuilds, BuiltUpTo, settings

LEMMA SetupOK ==
    ASSUME StartOK, setup_middleware
    PROVE  StartOK'
<1>1. PICK fault \in Faults :
        /\ router' = Assembled(cfg, router, fault)
        /\ \/ router'.halt = "none" /\ setUp' = TRUE /\ UNCHANGED settings
           \/ router'.halt # "none" /\ Stop(router'.halt) /\ UNCHANGED setUp
  BY DEF setup_middleware
<1>2. stage = "building" /\ setUp = FALSE /\ error = "none"
  BY DEF setup_middleware, StartOK, SettingsOK
<1>3. cfg \in Config(Secret) /\ BuiltUpTo(cfg, router, 0)
  BY <1>2 DEF StartOK, StagesInOrder, SettingsOK
<1>4. BuiltUpTo(cfg, router', Last)
  BY <1>1, <1>3, AssembledBuilt
<1>5. IsRouter(router') /\ (router'.halt = "panic" => Unbuildable(cfg, router'.own))
  BY <1>4 DEF BuiltUpTo
<1>6. CASE router'.halt = "none" /\ setUp' = TRUE /\ UNCHANGED settings
  <2>1. SettingsOK'
    BY <1>6 DEF StartOK, SettingsOK, settings
  <2>2. StagesInOrder'
    BY <1>2, <1>4, <1>6, <2>1 DEF StartOK, StagesInOrder, SettingsOK, settings
  <2> QED BY <1>2, <1>5, <1>6, <2>1, <2>2 DEF StartOK, ValidatedBuilds, settings
<1>7. CASE router'.halt # "none" /\ Stop(router'.halt) /\ UNCHANGED setUp
  <2>1. /\ stage' = "failed" /\ error' = router'.halt /\ setUp' = FALSE
        /\ UNCHANGED <<cfg, changes, secrets, declared>>
    BY <1>2, <1>7 DEF Stop
  <2>2. error' \in ErrorKind \union {"panic"} /\ error' # "none"
    BY <1>5, <1>7, <2>1 DEF IsRouter, ErrorKind
  <2>3. SettingsOK'
    BY <2>1, <2>2 DEF StartOK, SettingsOK
  <2>4. StagesInOrder' /\ ValidatedBuilds'
    BY <1>5, <2>1, <2>3 DEF StagesInOrder, ValidatedBuilds, SettingsOK
  <2> QED BY <1>5, <2>1, <2>3, <2>4 DEF StartOK
<1> QED BY <1>1, <1>6, <1>7

LEMMA StartingOK ==
    ASSUME StartOK, start
    PROVE  StartOK'
<1>1. stage = "building" /\ setUp = TRUE /\ UNCHANGED <<router, setUp>> /\ error = "none"
  BY DEF start, StartOK, SettingsOK
<1>2. router.halt = "none"
  BY <1>1 DEF StartOK, StagesInOrder
<1>3. CASE stage' = "serving" /\ UNCHANGED <<cfg, error, changes, secrets, declared>>
  <2>1. SettingsOK'
    BY <1>1, <1>3 DEF StartOK, SettingsOK
  <2>2. StagesInOrder'
    BY <1>1, <1>2, <1>3, <2>1 DEF StartOK, StagesInOrder, SettingsOK
  <2> QED BY <1>1, <1>2, <1>3, <2>1, <2>2 DEF StartOK, ValidatedBuilds
<1>4. CASE Stop(From.std_io)
  <2>1. /\ stage' = "failed" /\ error' \in ErrorKind /\ error' # "none" /\ error' # "panic"
        /\ UNCHANGED <<cfg, changes, secrets, declared>>
    BY <1>4, FromKinds DEF Stop
  <2>2. SettingsOK'
    BY <2>1 DEF StartOK, SettingsOK
  <2>3. StagesInOrder' /\ ValidatedBuilds'
    BY <1>1, <1>2, <2>1, <2>2 DEF StagesInOrder, ValidatedBuilds, SettingsOK
  <2> QED BY <1>1, <2>1, <2>2, <2>3 DEF StartOK
<1> QED BY <1>3, <1>4 DEF start

-----------------------------------------------------------------------------
(* The layers of the request under way                                     *)

LEMMA Underway ==
    ASSUME IInv, req.status # "idle"
    PROVE  /\ stage = "serving" /\ cfg \in Config(Secret)
           /\ IsRouter(router) /\ DOMAIN router.routes = PathsBy(cfg, router.own, Last)
           /\ RoutesCarry(cfg, router.routes, router.own, Last)
           /\ IF HasFallback(cfg) THEN router.fallback = << >>
              ELSE Carries(cfg, router.fallback, LayerName \ RouteOnly, 0, Last)
           /\ req.at > 0
           /\ \/ req.path = "elsewhere" /\ req.layers = router.fallback
              \/ req.path \in DOMAIN router.routes /\ req.layers = router.routes[req.path]
<1>1. /\ stage = "serving" /\ req.at > 0
      /\ \/ req.path = "elsewhere" /\ req.layers = router.fallback
         \/ req.path \in DOMAIN router.routes /\ req.layers = router.routes[req.path]
  BY DEF IInv, RequestOnItsWay
<1>2. setUp /\ router.halt = "none" /\ cfg \in Config(Secret)
  BY <1>1 DEF IInv, TypeOK
<1>3. BuiltUpTo(cfg, router, Last)
  BY <1>1, <1>2 DEF IInv, StagesInOrder
<1> QED BY <1>1, <1>2, <1>3 DEF BuiltUpTo

\* A request for a path that step n added passes what was configured after it.
LEMMA PathLayers ==
    ASSUME IInv, req.status # "idle", NEW n \in 0..Last,
           req.path \in Added(cfg, router.own, n)
    PROVE  Carries(cfg, req.layers, LayerName, n, Last)
<1>1. req.path \in DOMAIN router.routes
  BY Underway DEF PathsBy
<1>2. req.path # "elsewhere"
  BY <1>1, Underway, SettingsAssumption DEF IsRouter
<1> QED BY <1>2, Underway DEF RoutesCarry

LEMMA WhichLayers ==
    ASSUME IInv, req.status # "idle"
    PROVE  \/ \E n \in 0..Last : req.path \in Added(cfg, router.own, n)
           \/ req.path = "elsewhere" /\ HasFallback(cfg) /\ req.layers = << >>
           \/ /\ req.path = "elsewhere" /\ ~HasFallback(cfg)
              /\ Carries(cfg, req.layers, LayerName \ RouteOnly, 0, Last)
<1>1. CASE req.path = "elsewhere" /\ req.layers = router.fallback
  BY <1>1, Underway
<1>2. CASE req.path \in DOMAIN router.routes
  BY <1>2, Underway DEF PathsBy
<1> QED BY <1>1, <1>2, Underway

LEMMA LayersOrdered ==
    ASSUME IInv, req.status # "idle"
    PROVE  /\ req.layers \in Seq(LayerName) /\ Len(req.layers) \in Nat
           /\ DOMAIN req.layers = 1..Len(req.layers) /\ Ordered(req.layers)
           /\ \A i \in 1..Len(req.layers) : req.layers[i] \in LayerName
<1>1. req.layers \in Seq(LayerName)
  BY DEF IInv, TypeOK, Request
<1>2. /\ Len(req.layers) \in Nat /\ DOMAIN req.layers = 1..Len(req.layers)
      /\ \A i \in 1..Len(req.layers) : req.layers[i] \in LayerName
  BY <1>1, ElementOfSeq
<1>3. Ordered(req.layers)
  <2>1. CASE \E n \in 0..Last : req.path \in Added(cfg, router.own, n)
    BY <2>1, PathLayers DEF Carries
  <2>2. CASE req.layers = << >>
    BY <2>2 DEF Ordered
  <2>3. CASE Carries(cfg, req.layers, LayerName \ RouteOnly, 0, Last)
    BY <2>3 DEF Carries
  <2> QED BY <2>1, <2>2, <2>3, WhichLayers
<1> QED BY <1>1, <1>2, <1>3

\* What is around a layer was added later.
LEMMA OuterPlaces ==
    ASSUME IInv, req.status # "idle", NEW i \in 1..Len(req.layers), NEW j \in 1..Len(req.layers)
    PROVE  /\ Place[req.layers[i]] \in Nat /\ Place[req.layers[j]] \in Nat
           /\ i < j <=> Place[req.layers[i]] > Place[req.layers[j]]
<1>1. Place[req.layers[i]] \in Nat /\ Place[req.layers[j]] \in Nat
  BY LayersOrdered, PlacesInRange
<1>2. /\ i < j => Place[req.layers[i]] > Place[req.layers[j]]
      /\ j < i => Place[req.layers[j]] > Place[req.layers[i]]
  BY LayersOrdered DEF Ordered
<1>3. i \in Nat /\ j \in Nat
  BY LayersOrdered
<1> QED BY <1>1, <1>2, <1>3

LEMMA LayerIndex ==
    ASSUME IInv, req.status # "idle", NEW l
    PROVE  l \in Names(req.layers) <=> \E i \in 1..Len(req.layers) : req.layers[i] = l
BY LayersOrdered DEF Names

\* The probes are outside all that authenticates, and the liveness probe outside
\* the limits too.
LEMMA ProbeLayers ==
    ASSUME IInv, req.status # "idle"
    PROVE  /\ req.path = cfg.liveness_route /\ is_enabled(cfg, "Liveness") =>
                /\ req.path \notin router.own
                /\ \A l \in Names(req.layers) : l \in LayerName /\ Place[l] > 32
           /\ req.path = cfg.readiness_route /\ is_enabled(cfg, "Readiness") =>
                /\ req.path \notin router.own
                /\ \A l \in Names(req.layers) : l \in LayerName /\ Place[l] > 27
<1>1. \A l \in Names(req.layers) : l \in LayerName
  BY LayersOrdered, LayerIndex
<1>2. "session" \in LayerName /\ Asked(cfg)["session"] /\ Place["session"] = 11
  BY DEF LayerName, Place, Asked
<1>3. 27 \in 0..Last /\ 32 \in 0..Last /\ 0 \in 0..Last /\ 11 <= Last
  BY DEF Last
<1>4. ASSUME req.path \in router.own PROVE "session" \in Names(req.layers)
  <2>1. Added(cfg, router.own, 0) = router.own
    BY DEF Added
  <2>2. Carries(cfg, req.layers, LayerName, 0, Last)
    BY <1>3, <1>4, <2>1, PathLayers
  <2> QED BY <1>2, <1>3, <2>2 DEF Carries
<1>5. ASSUME req.path = cfg.liveness_route, is_enabled(cfg, "Liveness")
      PROVE  \A l \in Names(req.layers) : Place[l] > 32
  <2>1. Added(cfg, router.own, 32) = {cfg.liveness_route}
    BY <1>5 DEF Added
  <2>2. Carries(cfg, req.layers, LayerName, 32, Last)
    BY <1>3, <1>5, <2>1, PathLayers
  <2> QED BY <1>1, <2>2, PlacesInRange DEF Carries
<1>6. ASSUME req.path = cfg.readiness_route, is_enabled(cfg, "Readiness")
      PROVE  \A l \in Names(req.layers) : Place[l] > 27
  <2>1. Added(cfg, router.own, 27) = {cfg.readiness_route}
    BY <1>6 DEF Added
  <2>2. Carries(cfg, req.layers, LayerName, 27, Last)
    BY <1>3, <1>6, <2>1, PathLayers
  <2> QED BY <1>1, <2>2, PlacesInRange DEF Carries
<1> QED BY <1>1, <1>2, <1>4, <1>5, <1>6

-----------------------------------------------------------------------------
(* The invariant while a request is under way                              *)

LEMMA StartUnchanged ==
    ASSUME StartOK, UNCHANGED <<settings, stackVars>>
    PROVE  StartOK'
BY DEF StartOK, SettingsOK, ValidatedBuilds, StagesInOrder, settings, stackVars

\* r is the request at the layer where it is, after that layer has looked at it.
Seen(r) ==
    /\ r \in Request /\ r.path = req.path /\ r.layers = req.layers /\ r.at = req.at
    /\ r.status = req.status /\ r.from = req.from
    /\ \A h \in {"authorization", "proxy_secret", "peer"} :
          req.has[h] # "unread" => r.has[h] = req.has[h]

\* The identity of r counts if it is the one of the request or has a reason.
ProxyReason(r) ==
    LET proxy == cfg.proxy_oidc[1]
    IN  \/ r.has.proxy_secret = "right" /\ proxy.shared_secret # None
        \/ r.has.peer = "proxy" /\ proxy.trusted_proxies
        \/ declared /\ proxy.shared_secret = None /\ ~proxy.trusted_proxies

BearerReason(r) ==
    /\ r.has.authorization # "unread"
    /\ r.has.authorization = "bearer_ok" /\ TokenAccepted("bearer_ok") => r.identity = "bearer"
    /\ ~CodeFlow(cfg) => r.identity # "none" \/ r.has.authorization = "bearer_anonymous"

LEMMA HeadersKept ==
    ASSUME NEW r, Seen(r), r.identity = req.identity
    PROVE  ProxyTrusted => (r.identity = "proxy" => ProxyReason(r))
<1>1. /\ req.has.proxy_secret # "unread" => r.has.proxy_secret = req.has.proxy_secret
      /\ req.has.peer # "unread" => r.has.peer = req.has.peer
  BY DEF Seen
<1> QED BY <1>1 DEF ProxyTrusted, ProxyReason

\* The layer lets the request pass.
LEMMA GoesOK ==
    ASSUME IInv, NEW l, Here(l), NEW r, Seen(r), Goes(r),
           r.identity = "proxy" => ProxyReason(r),
           req.identity # "none" => r.identity # "none",
           l = "basic_auth" /\ ~CodeFlow(cfg) => r.identity # "none",
           l = "bearer" => BearerReason(r),
           l \notin {"bearer", "session_to_identity", "basic_auth", "proxy_oidc"}
              => r.identity = req.identity
    PROVE  RequestOK'
<1>1. /\ req.status = "open" /\ req.at <= Len(req.layers) /\ req.layers[req.at] = l
      /\ req.at \in Nat /\ req.at > 0 /\ Len(req.layers) \in Nat /\ req.from \in 0..req.at
  BY Underway, LayersOrdered DEF Here, IInv, TypeOK
<1>2. /\ req' \in Request /\ req'.path = req.path /\ req'.layers = req.layers
      /\ req'.at = req.at + 1 /\ req'.status = "open" /\ req'.from = req.from
      /\ req'.identity = r.identity /\ req'.has = r.has
  BY <1>1 DEF Goes, Seen, Request
<1>3. UNCHANGED <<cfg, stage, declared, router>>
  BY DEF Goes, settings, stackVars
<1>4. req'.at \in 0..(Len(req'.layers) + 1) /\ req'.from \in 0..req'.at
  BY <1>1, <1>2
<1>5. RequestOnItsWay'
  BY <1>1, <1>2, <1>3 DEF IInv, RequestOnItsWay
<1>6. ProxyTrusted'
  BY <1>2, <1>3 DEF ProxyTrusted, ProxyReason
<1>7. AnsweredInside'
  BY <1>2 DEF AnsweredInside
<1>8. ProbesStayOpen'
  BY <1>2 DEF ProbesStayOpen
<1>9. ASSUME NEW m PROVE Passed(m)' <=> Passed(m) \/ m = l
  BY <1>1, <1>2 DEF Passed
<1>10. ASSUME Passed("bearer")
       PROVE  r.identity = req.identity /\ r.has.authorization = req.has.authorization
  <2>1. PICK i \in 1..Len(req.layers) : i < req.at /\ req.layers[i] = "bearer"
    BY <1>10 DEF Passed
  <2>2. Place[l] \in Nat /\ Place[l] < Place["bearer"] /\ Place["bearer"] \in Nat
    BY <1>1, <2>1, OuterPlaces
  <2>3. l \notin {"bearer", "session_to_identity", "basic_auth", "proxy_oidc"}
    <3>1. /\ Place["bearer"] = 3 /\ Place["session_to_identity"] = 4
          /\ Place["basic_auth"] = 5 /\ Place["proxy_oidc"] = 6
      BY DEF Place
    <3> QED BY <2>2, <3>1
  <2>4. req.has.authorization # "unread"
    BY <1>10 DEF IInv, Authenticated
  <2> QED BY <2>3, <2>4 DEF Seen
<1>11. Authenticated'
  <2>1. ASSUME Passed("basic_auth")', ~CodeFlow(cfg)
        PROVE  r.identity # "none"
    BY <1>9, <2>1 DEF IInv, Authenticated
  <2>2. ASSUME Passed("bearer")' PROVE BearerReason(r)
    <3>1. CASE l = "bearer"
      BY <3>1
    <3>2. CASE Passed("bearer")
      BY <1>10, <3>2 DEF IInv, Authenticated, BearerReason
    <3> QED BY <1>9, <2>2, <3>1, <3>2
  <2>3. TokenAccepted("bearer_ok")' <=> TokenAccepted("bearer_ok")
    BY <1>3 DEF TokenAccepted
  <2>4. CodeFlow(cfg)' <=> CodeFlow(cfg)
    BY <1>3
  <2> QED BY <1>2, <2>1, <2>2, <2>3, <2>4 DEF Authenticated, BearerReason
<1> QED BY <1>2, <1>4, <1>5, <1>6, <1>7, <1>8, <1>11 DEF RequestOK

\* Whose answer it may be, for a probe to stay open.
Harmless(status) ==
    \/ status = "200" \/ req.path \in router.own \/ req.path = "elsewhere"
    \/ \E m \in Names(req.layers) : Place[m] < 27
    \/ status = "429" /\ "rate" \in Names(req.layers)
    \/ status = "408" /\ "timeout" \in Names(req.layers)

\* A layer or the handler answers.
LEMMA AnswersOK ==
    ASSUME IInv, req.status = "open", NEW r, Seen(r), r.identity = req.identity,
           NEW status \in Statuses \ {"idle", "open"}, NEW i \in 0..req.at,
           Answers(r, status, i), Harmless(status),
           \/ status \in {"aborted", "500"} \/ i = Len(req.layers) + 1
           \/ i \in DOMAIN req.layers /\ Place[req.layers[i]] < Place["propagate_id"]
    PROVE  RequestOK'
<1>1. req.at \in 0..(Len(req.layers) + 1) /\ req.at > 0 /\ Len(req.layers) \in Nat
  BY Underway, LayersOrdered DEF IInv, TypeOK
<1>2. /\ req' \in Request /\ req'.path = req.path /\ req'.layers = req.layers
      /\ req'.at = req.at /\ req'.status = status /\ req'.from = i
      /\ req'.identity = req.identity /\ req'.has = r.has
  <2>1. i \in Nat
    BY <1>1
  <2> QED BY <2>1 DEF Answers, Seen, Request
<1>3. UNCHANGED <<cfg, stage, declared, router>>
  BY DEF Answers, settings, stackVars
<1>4. RequestOnItsWay'
  BY <1>1, <1>2, <1>3 DEF IInv, RequestOnItsWay
<1>5. ProxyTrusted'
  BY <1>2, <1>3, HeadersKept DEF IInv, ProxyTrusted, ProxyReason
<1>6. AnsweredInside'
  BY <1>2 DEF AnsweredInside
<1>7. Authenticated'
  <2>1. \A m : Passed(m)' <=> Passed(m)
    BY <1>2 DEF Passed
  <2>2. Passed("bearer") => r.has.authorization = req.has.authorization
    BY DEF Seen, IInv, Authenticated
  <2>3. TokenAccepted("bearer_ok")' <=> TokenAccepted("bearer_ok")
    BY <1>3 DEF TokenAccepted
  <2>4. CodeFlow(cfg)' <=> CodeFlow(cfg)
    BY <1>3
  <2> QED BY <1>2, <2>1, <2>2, <2>3, <2>4 DEF IInv, Authenticated
<1>8. ProbesStayOpen'
  <2>1. Place["rate"] = 29 /\ Place["timeout"] = 28
    BY DEF Place
  <2>2. \A m \in Names(req.layers) : Place[m] \in Nat
    BY LayersOrdered, LayerIndex, PlacesInRange
  <2>3. cfg.liveness_route # "elsewhere" /\ cfg.readiness_route # "elsewhere"
    BY Underway, SettingsAssumption DEF Config
  <2>4. ASSUME req.path = cfg.liveness_route, is_enabled(cfg, "Liveness")
        PROVE  status = "200"
    BY <2>1, <2>2, <2>3, <2>4, ProbeLayers DEF Harmless
  <2>5. ASSUME req.path = cfg.readiness_route, is_enabled(cfg, "Readiness")
        PROVE  status \in {"200", "408", "429"}
    BY <2>1, <2>2, <2>3, <2>5, ProbeLayers DEF Harmless
  <2> QED BY <1>2, <1>3, <2>4, <2>5 DEF ProbesStayOpen
<1> QED BY <1>1, <1>2, <1>4, <1>5, <1>6, <1>7, <1>8 DEF RequestOK

\* What a layer reads of a request that was not looked at is chosen then, and the
\* same ever after.
LEMMA ReadsOK ==
    ASSUME req \in Request
    PROVE  /\ \A v \in Reads("authorization") :
                 /\ v \in Authorizations
                 /\ req.has["authorization"] # "unread" => v = req.has["authorization"]
           /\ \A v \in Reads("api_key") : v \in OrUnread("api_key")
           /\ \A v \in Reads("session") : v \in OrUnread("session")
           /\ \A v \in Reads("accept") : v \in OrUnread("accept")
           /\ \A v \in Reads("user_header") : v \in OrUnread("user_header")
           /\ \A v \in Reads("proxy_secret") :
                 /\ v \in OrUnread("proxy_secret")
                 /\ req.has["proxy_secret"] # "unread" => v = req.has["proxy_secret"]
           /\ \A v \in Reads("peer") :
                 v \in OrUnread("peer") /\ (req.has["peer"] # "unread" => v = req.has["peer"])
<1>1. req.has \in HeadersRead
  BY DEF Request
<1>2. \A h \in DOMAIN Carried : \A v \in Reads(h) :
        (v \in Carried[h] \/ v = req.has[h]) /\ (req.has[h] # "unread" => v = req.has[h])
  BY DEF Reads
<1>3. DOMAIN Carried = {"authorization", "api_key", "session", "accept", "user_header",
                        "proxy_secret", "peer"}
  BY DEF Carried
<1>4. Carried["authorization"] = Authorizations
  BY DEF Carried
<1>5. ASSUME NEW v \in Reads("authorization") PROVE v \in Authorizations
  <2>1. CASE req.has.authorization = "unread"
    BY <1>4, <2>1 DEF Reads
  <2>2. CASE req.has.authorization # "unread"
    BY <1>1, <1>4, <2>2 DEF Reads, HeadersRead, OrUnread
  <2> QED BY <2>1, <2>2
<1> QED BY <1>1, <1>2, <1>3, <1>5 DEF HeadersRead, OrUnread

LEMMA SeenSelf ==
    ASSUME req \in Request
    PROVE  Seen(req) /\ \A sp \in Identities : Seen([req EXCEPT !.span = sp])
<1>1. Seen(req)
  BY DEF Seen
<1>2. ASSUME NEW sp \in Identities PROVE Seen([req EXCEPT !.span = sp])
  <2>1. PICK r : r = [req EXCEPT !.span = sp]
    OBVIOUS
  <2>2. /\ r \in Request /\ r.path = req.path /\ r.layers = req.layers /\ r.at = req.at
        /\ r.status = req.status /\ r.from = req.from /\ r.has = req.has
    BY <2>1 DEF Request
  <2> QED BY <2>1, <2>2 DEF Seen
<1> QED BY <1>1, <1>2

\* A layer inside the request id's answers.
LEMMA RefusesOK ==
    ASSUME IInv, NEW l \in LayerName, Here(l), NEW r, Seen(r), r.identity = req.identity,
           NEW status \in Statuses \ {"idle", "open"}, Answers(r, status, req.at),
           Place[l] < 27 \/ (l = "rate" /\ status = "429")
    PROVE  RequestOK'
<1>1. /\ req.status = "open" /\ req.at <= Len(req.layers) /\ req.layers[req.at] = l
      /\ req.at \in Nat /\ req.at > 0 /\ Len(req.layers) \in Nat
  BY Underway, LayersOrdered DEF Here, IInv, TypeOK
<1>2. req.at \in 0..req.at /\ req.at \in DOMAIN req.layers
  BY <1>1, LayersOrdered
<1>3. Place["propagate_id"] = 30 /\ Place["rate"] = 29
  BY DEF Place
<1>4. Place[req.layers[req.at]] < Place["propagate_id"]
  BY <1>1, <1>3, PlacesInRange
<1>5. l \in Names(req.layers)
  BY <1>1, <1>2 DEF Names
<1>6. Harmless(status)
  BY <1>5 DEF Harmless
<1> QED BY <1>1, <1>2, <1>4, <1>6, AnswersOK

LEMMA TransparentOK ==
    ASSUME IInv, Transparent \/ TakePermit \/ record_user_to_span
    PROVE  RequestOK'
<1>1. req \in Request /\ req.identity \in Identities
  BY DEF IInv, TypeOK, Request
<1>2. req.identity = "proxy" => ProxyReason(req)
  BY DEF IInv, ProxyTrusted, ProxyReason
<1>3. CASE Transparent
  <2>1. PICK l : /\ Here(l)
                 /\ l \notin {"bearer", "session_to_identity", "basic_auth", "proxy_oidc"}
    BY <1>3 DEF Transparent
  <2>2. Goes(req)
    BY <1>3 DEF Transparent
  <2> QED BY <1>1, <1>2, <2>1, <2>2, SeenSelf, GoesOK
<1>4. CASE TakePermit
  BY <1>1, <1>2, <1>4, SeenSelf, GoesOK DEF TakePermit
<1>5. CASE record_user_to_span
  <2>1. PICK r : r = [req EXCEPT !.span = req.identity]
    OBVIOUS
  <2>2. Seen(r) /\ r.identity = req.identity /\ r.has = req.has
    BY <1>1, <2>1, SeenSelf DEF Request
  <2>3. Goes(r) /\ Here("user_span")
    BY <1>5, <2>1 DEF record_user_to_span
  <2>4. r.identity = "proxy" => ProxyReason(r)
    BY <1>2, <2>2 DEF ProxyReason
  <2> QED BY <2>2, <2>3, <2>4, GoesOK
<1> QED BY <1>3, <1>4, <1>5

LEMMA MayRefuseOK ==
    ASSUME IInv, MayRefuse
    PROVE  RequestOK'
<1>1. req \in Request /\ (req.identity = "proxy" => ProxyReason(req)) /\ Seen(req)
  BY SeenSelf DEF IInv, TypeOK, ProxyTrusted, ProxyReason
<1>2. PICK l \in DOMAIN Refusals : Here(l) /\ (Goes(req) \/ Answers(req, Refusals[l], req.at))
  BY DEF MayRefuse
<1>3. /\ l \in LayerName /\ (Place[l] < 27 \/ (l = "rate" /\ Refusals[l] = "429"))
      /\ Refusals[l] \in Statuses \ {"idle", "open"}
      /\ l \notin {"bearer", "session_to_identity", "basic_auth", "proxy_oidc"}
  BY DEF Refusals, Place, LayerName, Statuses
<1>4. CASE Goes(req)
  BY <1>1, <1>2, <1>3, <1>4, GoesOK
<1>5. CASE Answers(req, Refusals[l], req.at)
  BY <1>1, <1>2, <1>3, <1>5, RefusesOK
<1> QED BY <1>2, <1>4, <1>5

\* A layer of a request is asked for, and so are the layers that are around it.
LEMMA LayersAround ==
    ASSUME IInv, req.status # "idle", NEW l \in Names(req.layers)
    PROVE  /\ l \in LayerName /\ Asked(cfg)[l]
           /\ \A m \in LayerName \ RouteOnly :
                 Asked(cfg)[m] /\ Place[m] > Place[l] => m \in Names(req.layers)
<1>1. l \in LayerName
  BY LayersOrdered, LayerIndex
<1>2. \A m \in LayerName : Place[m] \in Nat /\ 2 <= Place[m] /\ Place[m] <= Last
  BY PlacesInRange DEF Last
<1>3. ASSUME NEW n \in Nat, NEW L, LayerName \ RouteOnly \subseteq L,
             Carries(cfg, req.layers, L, n, Last)
      PROVE  /\ Asked(cfg)[l]
             /\ \A m \in LayerName \ RouteOnly :
                   Asked(cfg)[m] /\ Place[m] > Place[l] => m \in Names(req.layers)
  <2>1. Asked(cfg)[l] /\ n < Place[l]
    BY <1>1, <1>3 DEF Carries
  <2>2. ASSUME NEW m \in LayerName \ RouteOnly, Asked(cfg)[m], Place[m] > Place[l]
        PROVE  m \in Names(req.layers)
    <3>1. n < Place[m] /\ Place[m] <= Last /\ m \in L
      BY <1>1, <1>2, <1>3, <2>1, <2>2
    <3> QED BY <1>3, <2>2, <3>1 DEF Carries
  <2> QED BY <2>1, <2>2
<1>4. CASE \E n \in 0..Last : req.path \in Added(cfg, router.own, n)
  <2>1. PICK n \in 0..Last : Carries(cfg, req.layers, LayerName, n, Last)
    BY <1>4, PathLayers
  <2>2. n \in Nat /\ LayerName \ RouteOnly \subseteq LayerName
    BY DEF Last
  <2> QED BY <1>1, <1>3, <2>1, <2>2
<1>5. CASE req.layers = << >>
  BY <1>5 DEF Names
<1>6. CASE Carries(cfg, req.layers, LayerName \ RouteOnly, 0, Last)
  BY <1>1, <1>3, <1>6
<1> QED BY <1>4, <1>5, <1>6, WhichLayers

LEMMA HereNamed ==
    ASSUME IInv, NEW l, Here(l)
    PROVE  l \in Names(req.layers) /\ req.status # "idle"
<1>1. req.status # "idle"
  BY DEF Here
<1>2. req.at \in 1..Len(req.layers)
  BY <1>1, Underway, LayersOrdered DEF Here, IInv, TypeOK
<1> QED BY <1>1, <1>2, LayersOrdered DEF Here, Names

LEMMA ProxyOK ==
    ASSUME IInv, proxy_oidc_middleware
    PROVE  RequestOK'
<1>1. Here("proxy_oidc") /\ req \in Request
  BY DEF proxy_oidc_middleware, IInv, TypeOK
<1>2. PICK u \in Reads("user_header"), s \in Reads("proxy_secret"), p \in Reads("peer") :
        Goes([req EXCEPT
                !.has.user_header = u, !.has.proxy_secret = s, !.has.peer = p,
                !.identity = IF is_trusted_source(cfg.proxy_oidc[1], s, p)
                             THEN extract_identity(u) ELSE @])
  BY DEF proxy_oidc_middleware
<1>3. PICK id : id = IF is_trusted_source(cfg.proxy_oidc[1], s, p)
                     THEN extract_identity(u) ELSE req.identity
  OBVIOUS
<1>4. id \in Identities /\ (id = "proxy" \/ id = req.identity)
  BY <1>1, <1>3 DEF extract_identity, Request, Identities
<1>5. PICK r : r = [req EXCEPT !.has.user_header = u, !.has.proxy_secret = s,
                               !.has.peer = p, !.identity = id]
  OBVIOUS
<1>6. Goes(r)
  BY <1>2, <1>3, <1>5
<1>7. /\ u \in OrUnread("user_header")
      /\ s \in OrUnread("proxy_secret") /\ p \in OrUnread("peer")
      /\ req.has.proxy_secret # "unread" => s = req.has.proxy_secret
      /\ req.has.peer # "unread" => p = req.has.peer
  BY <1>1, ReadsOK
<1>8. /\ r \in Request /\ r.path = req.path /\ r.layers = req.layers /\ r.at = req.at
      /\ r.status = req.status /\ r.from = req.from /\ r.identity = id
      /\ r.has.authorization = req.has.authorization
      /\ r.has.proxy_secret = s /\ r.has.peer = p
  BY <1>1, <1>4, <1>5, <1>7 DEF Request, HeadersRead
<1>9. Seen(r)
  BY <1>7, <1>8 DEF Seen
<1>10. r.identity = "proxy" => ProxyReason(r)
  <2>1. CASE id = req.identity
    BY <1>8, <1>9, <2>1, HeadersKept DEF IInv
  <2>2. CASE id # req.identity
    <3>1. is_trusted_source(cfg.proxy_oidc[1], s, p)
      BY <1>3, <2>2
    <3>2. cfg.proxy_oidc # None
      <4>1. Asked(cfg)["proxy_oidc"]
        BY <1>1, HereNamed, LayersAround
      <4> QED BY <4>1 DEF Asked
    <3>3. validate(cfg) = "none" /\ cfg \in Config(Secret) /\ (declared \/ cfg.is_production)
      BY <1>1, HereNamed, Underway DEF IInv, StagesInOrder
    <3>4. cfg.proxy_oidc[1].shared_secret \notin {Some("empty"), Some("spaces")}
      BY <3>2, <3>3, ValidatedProxy
    <3> QED BY <1>8, <3>1, <3>3, <3>4
            DEF is_trusted_source, effective_shared_secret, has_trust_anchor, ProxyReason
  <2> QED BY <2>1, <2>2
<1> QED BY <1>1, <1>4, <1>6, <1>8, <1>9, <1>10, GoesOK

LEMMA BasicAuthOK ==
    ASSUME IInv, basic_auth_middleware
    PROVE  RequestOK'
<1>1. Here("basic_auth") /\ req \in Request
  BY DEF basic_auth_middleware, IInv, TypeOK
<1>2. PICK a \in Reads("authorization"), k \in Reads("api_key") :
        LET outcome == try_authenticate(cfg.basic_auth[1], a, k)
            r == [req EXCEPT !.has.authorization = a, !.has.api_key = k]
        IN  \/ outcome \in {"basic", "api_key"} /\ Goes([r EXCEPT !.identity = outcome])
            \/ outcome = "garbled" /\ Answers(r, "400", req.at)
            \/ outcome = "invalid" /\ Answers(r, "401", req.at)
            \/ outcome = "absent" /\ CodeFlow(cfg) /\ Goes(r)
            \/ outcome = "absent" /\ ~CodeFlow(cfg) /\ Answers(r, "401", req.at)
  BY DEF basic_auth_middleware
<1>3. PICK outcome : outcome = try_authenticate(cfg.basic_auth[1], a, k)
  OBVIOUS
<1>4. PICK r : r = [req EXCEPT !.has.authorization = a, !.has.api_key = k]
  OBVIOUS
<1>5. \/ outcome \in {"basic", "api_key"} /\ Goes([r EXCEPT !.identity = outcome])
      \/ Answers(r, "400", req.at) \/ Answers(r, "401", req.at)
      \/ CodeFlow(cfg) /\ Goes(r)
  BY <1>2, <1>3, <1>4
<1>6. /\ a \in OrUnread("authorization") /\ k \in OrUnread("api_key")
      /\ req.has.authorization # "unread" => a = req.has.authorization
  BY <1>1, ReadsOK DEF OrUnread, Carried
<1>7. /\ r \in Request /\ r.path = req.path /\ r.layers = req.layers /\ r.at = req.at
      /\ r.status = req.status /\ r.from = req.from /\ r.identity = req.identity
      /\ r.has.authorization = a
      /\ r.has.proxy_secret = req.has.proxy_secret /\ r.has.peer = req.has.peer
  BY <1>1, <1>4, <1>6 DEF Request, HeadersRead
<1>8. Seen(r)
  BY <1>6, <1>7 DEF Seen
<1>9. "basic_auth" \in LayerName /\ Place["basic_auth"] < 27
  BY DEF LayerName, Place
<1>10. CASE outcome \in {"basic", "api_key"} /\ Goes([r EXCEPT !.identity = outcome])
  <2>1. PICK s : s = [r EXCEPT !.identity = outcome]
    OBVIOUS
  <2>2. outcome \in Identities /\ outcome # "none" /\ outcome # "proxy"
    BY <1>10 DEF Identities
  <2>3. /\ s \in Request /\ s.path = r.path /\ s.layers = r.layers /\ s.at = r.at
        /\ s.status = r.status /\ s.from = r.from /\ s.identity = outcome
        /\ s.has = r.has
    BY <1>7, <2>1, <2>2 DEF Request
  <2>4. Seen(s)
    BY <1>8, <2>3 DEF Seen
  <2>5. Goes(s)
    BY <1>10, <2>1
  <2> QED BY <1>1, <2>2, <2>3, <2>4, <2>5, GoesOK
<1>11. CASE Answers(r, "400", req.at) \/ Answers(r, "401", req.at)
  <2>1. "400" \in Statuses \ {"idle", "open"} /\ "401" \in Statuses \ {"idle", "open"}
    BY DEF Statuses
  <2> QED BY <1>1, <1>7, <1>8, <1>9, <1>11, <2>1, RefusesOK
<1>12. CASE CodeFlow(cfg) /\ Goes(r)
  <2>1. r.identity = "proxy" => ProxyReason(r)
    BY <1>7, <1>8, HeadersKept DEF IInv
  <2> QED BY <1>1, <1>7, <1>8, <1>12, <2>1, GoesOK
<1> QED BY <1>5, <1>10, <1>11, <1>12

LEMMA SessionOK ==
    ASSUME IInv, session_to_identity
    PROVE  RequestOK'
<1>1. Here("session_to_identity") /\ req \in Request
  BY DEF session_to_identity, IInv, TypeOK
<1>2. Seen(req) /\ (req.identity = "proxy" => ProxyReason(req))
  BY <1>1, SeenSelf, HeadersKept DEF IInv
<1>3. CASE Goes(req)
  BY <1>1, <1>2, <1>3, GoesOK
<1>4. CASE /\ req.identity = "none"
           /\ \E s \in Reads("session") :
                 Goes([req EXCEPT !.has.session = s,
                         !.identity = IF s = "live" THEN "session" ELSE @])
  <2>1. PICK s \in Reads("session") :
          Goes([req EXCEPT !.has.session = s,
                  !.identity = IF s = "live" THEN "session" ELSE @])
    BY <1>4
  <2>2. PICK id \in {"session", "none"} : id = IF s = "live" THEN "session" ELSE req.identity
    BY <1>4
  <2>3. PICK r : r = [req EXCEPT !.has.session = s, !.identity = id]
    OBVIOUS
  <2>4. Goes(r) /\ s \in OrUnread("session") /\ id \in Identities
    BY <1>1, <2>1, <2>2, <2>3, ReadsOK DEF Identities
  <2>5. /\ r \in Request /\ r.path = req.path /\ r.layers = req.layers /\ r.at = req.at
        /\ r.status = req.status /\ r.from = req.from /\ r.identity = id
        /\ r.has.authorization = req.has.authorization
        /\ r.has.proxy_secret = req.has.proxy_secret /\ r.has.peer = req.has.peer
    BY <1>1, <2>3, <2>4 DEF Request, HeadersRead
  <2>6. Seen(r)
    BY <2>5 DEF Seen
  <2> QED BY <1>1, <1>4, <2>4, <2>5, <2>6, GoesOK
<1> QED BY <1>3, <1>4 DEF session_to_identity

LEMMA BearerOK ==
    ASSUME IInv, bearer_auth_middleware
    PROVE  RequestOK'
<1>1. Here("bearer") /\ req \in Request
  BY DEF bearer_auth_middleware, IInv, TypeOK
<1>2. PICK a \in Reads("authorization") :
        LET r == [req EXCEPT !.has.authorization = a]
        IN  \/ TokenAccepted(a) /\ a = "bearer_ok" /\ Goes([r EXCEPT !.identity = "bearer"])
            \/ TokenAccepted(a) /\ a = "bearer_anonymous" /\ Goes(r)
            \/ ~TokenAccepted(a) /\ CodeFlow(cfg) /\ Goes(r)
            \/ ~TokenAccepted(a) /\ ~CodeFlow(cfg) /\ Answers(r, "401", req.at)
  BY DEF bearer_auth_middleware
<1>3. PICK r : r = [req EXCEPT !.has.authorization = a]
  OBVIOUS
<1>4. \/ TokenAccepted(a) /\ a = "bearer_ok" /\ Goes([r EXCEPT !.identity = "bearer"])
      \/ Goes(r) /\ a = "bearer_anonymous"
      \/ Goes(r) /\ ~TokenAccepted(a) /\ CodeFlow(cfg)
      \/ Answers(r, "401", req.at)
  BY <1>2, <1>3
<1>5. /\ a \in Authorizations /\ a \in OrUnread("authorization") /\ a # "unread"
      /\ req.has.authorization # "unread" => a = req.has.authorization
  BY <1>1, ReadsOK DEF OrUnread, Carried, Authorizations
<1>6. /\ r \in Request /\ r.path = req.path /\ r.layers = req.layers /\ r.at = req.at
      /\ r.status = req.status /\ r.from = req.from /\ r.identity = req.identity
      /\ r.has.authorization = a
      /\ r.has.proxy_secret = req.has.proxy_secret /\ r.has.peer = req.has.peer
  BY <1>1, <1>3, <1>5 DEF Request, HeadersRead
<1>7. Seen(r) /\ (r.identity = "proxy" => ProxyReason(r))
  <2>1. Seen(r)
    BY <1>5, <1>6 DEF Seen
  <2> QED BY <1>6, <2>1, HeadersKept DEF IInv
<1>8. CASE a = "bearer_ok" /\ Goes([r EXCEPT !.identity = "bearer"])
  <2>1. PICK s : s = [r EXCEPT !.identity = "bearer"]
    OBVIOUS
  <2>2. /\ s \in Request /\ s.path = r.path /\ s.layers = r.layers /\ s.at = r.at
        /\ s.status = r.status /\ s.from = r.from /\ s.identity = "bearer"
        /\ s.has = r.has
    BY <1>6, <2>1 DEF Request, Identities
  <2>3. Seen(s) /\ Goes(s)
    BY <1>7, <1>8, <2>1, <2>2 DEF Seen
  <2>4. BearerReason(s)
    BY <1>5, <1>6, <2>2 DEF BearerReason
  <2> QED BY <1>1, <2>2, <2>3, <2>4, GoesOK
<1>9. CASE /\ Goes(r)
           /\ a = "bearer_anonymous" \/ (~TokenAccepted(a) /\ CodeFlow(cfg))
  <2>1. BearerReason(r)
    BY <1>5, <1>6, <1>9 DEF BearerReason
  <2> QED BY <1>1, <1>6, <1>7, <1>9, <2>1, GoesOK
<1>10. CASE Answers(r, "401", req.at)
  <2>1. /\ "401" \in Statuses \ {"idle", "open"} /\ "bearer" \in LayerName
        /\ Place["bearer"] < 27
    BY DEF Statuses, LayerName, Place
  <2> QED BY <1>1, <1>6, <1>7, <1>10, <2>1, RefusesOK
<1> QED BY <1>4, <1>8, <1>9, <1>10

LEMMA RedirectOK ==
    ASSUME IInv, browser_redirect_middleware
    PROVE  RequestOK'
<1>1. Here("browser_redirect") /\ req \in Request
  BY DEF browser_redirect_middleware, IInv, TypeOK
<1>2. Seen(req) /\ (req.identity = "proxy" => ProxyReason(req))
  BY <1>1, SeenSelf, HeadersKept DEF IInv
<1>3. CASE Goes(req)
  BY <1>1, <1>2, <1>3, GoesOK
<1>4. CASE \E a \in Reads("authorization"), t \in Reads("accept") :
             LET r == [req EXCEPT !.has.authorization = a, !.has.accept = t]
             IN  Goes(r) \/ Answers(r, "307", req.at)
  <2>1. PICK a \in Reads("authorization"), t \in Reads("accept") :
          LET r == [req EXCEPT !.has.authorization = a, !.has.accept = t]
          IN  Goes(r) \/ Answers(r, "307", req.at)
    BY <1>4
  <2>2. PICK r : r = [req EXCEPT !.has.authorization = a, !.has.accept = t]
    OBVIOUS
  <2>3. /\ a \in OrUnread("authorization") /\ t \in OrUnread("accept")
        /\ req.has.authorization # "unread" => a = req.has.authorization
    BY <1>1, ReadsOK DEF OrUnread, Carried
  <2>4. /\ r \in Request /\ r.path = req.path /\ r.layers = req.layers /\ r.at = req.at
        /\ r.status = req.status /\ r.from = req.from /\ r.identity = req.identity
        /\ r.has.authorization = a
        /\ r.has.proxy_secret = req.has.proxy_secret /\ r.has.peer = req.has.peer
    BY <1>1, <2>2, <2>3 DEF Request, HeadersRead
  <2>5. Seen(r)
    BY <2>3, <2>4 DEF Seen
  <2>6. r.identity = "proxy" => ProxyReason(r)
    BY <2>4, <2>5, HeadersKept DEF IInv
  <2>7. CASE Goes(r)
    BY <1>1, <2>4, <2>5, <2>6, <2>7, GoesOK
  <2>8. CASE Answers(r, "307", req.at)
    <3>1. /\ "307" \in Statuses \ {"idle", "open"} /\ "browser_redirect" \in LayerName
          /\ Place["browser_redirect"] < 27
      BY DEF Statuses, LayerName, Place
    <3> QED BY <1>1, <2>4, <2>5, <2>8, <3>1, RefusesOK
  <2> QED BY <2>1, <2>2, <2>7, <2>8
<1>5. \/ Goes(req)
      \/ \E a \in Reads("authorization"), t \in Reads("accept") :
            LET r == [req EXCEPT !.has.authorization = a, !.has.accept = t]
            IN  Goes(r) \/ Answers(r, "307", req.at)
  BY DEF browser_redirect_middleware
<1> QED BY <1>3, <1>4, <1>5

\* The handler answers.
LEMMA HandlerOK ==
    ASSUME IInv, InHandler, NEW status \in Statuses \ {"idle", "open"},
           Answers(req, status, req.at),
           status = "200" \/ req.path \in router.own \/ req.path = "elsewhere"
    PROVE  RequestOK'
<1>1. /\ req.status = "open" /\ req.at = Len(req.layers) + 1 /\ Len(req.layers) \in Nat
      /\ req \in Request
  BY LayersOrdered DEF InHandler, IInv, TypeOK
<1>2. req.at \in 0..req.at /\ Seen(req) /\ Harmless(status)
  BY <1>1, SeenSelf DEF Harmless
<1> QED BY <1>1, <1>2, AnswersOK

LEMMA HandleOK ==
    ASSUME IInv, Handle \/ Serve
    PROVE  RequestOK'
<1>1. {"200", "401", "403", "404"} \subseteq Statuses \ {"idle", "open"}
  BY DEF Statuses
<1>2. CASE Handle
  <2>1. \E status \in {"200", "401", "403"} : Answers(req, status, req.at)
    BY <1>2 DEF Handle, RoleAnswer
  <2> QED BY <1>1, <1>2, <2>1, HandlerOK DEF Handle
<1>3. CASE Serve
  <2>1. PICK status \in {"200", "404"} :
          Answers(req, status, req.at) /\ (status = "200" \/ req.path = "elsewhere")
    BY <1>3 DEF Serve
  <2> QED BY <1>1, <1>3, <2>1, HandlerOK DEF Serve
<1> QED BY <1>2, <1>3

LEMMA PanicOK ==
    ASSUME IInv, Panic
    PROVE  RequestOK'
<1>1. /\ req.status = "open" /\ req.at = Len(req.layers) + 1 /\ Len(req.layers) \in Nat
      /\ req \in Request /\ req.path \in router.own
  BY LayersOrdered DEF Panic, InHandler, IInv, TypeOK
<1>2. Seen(req) /\ \A status : Harmless(status)
  BY <1>1, SeenSelf DEF Harmless
<1>3. "500" \in Statuses \ {"idle", "open"} /\ "aborted" \in Statuses \ {"idle", "open"}
  BY DEF Statuses
<1>4. \/ \E i \in 1..Len(req.layers) : Answers(req, "500", i)
      \/ Answers(req, "aborted", 0)
  BY DEF Panic
<1>5. 1..Len(req.layers) \subseteq 0..req.at /\ 0 \in 0..req.at
  BY <1>1
<1> QED BY <1>1, <1>2, <1>3, <1>4, <1>5, AnswersOK

LEMMA TimedOutOK ==
    ASSUME IInv, TimedOut
    PROVE  RequestOK'
<1>1. PICK i \in 1..Len(req.layers) :
        i < req.at /\ req.layers[i] = "timeout" /\ Answers(req, "408", i)
  BY DEF TimedOut
<1>2. /\ req.status = "open" /\ req \in Request /\ Len(req.layers) \in Nat /\ req.at \in Nat
      /\ DOMAIN req.layers = 1..Len(req.layers)
  BY LayersOrdered DEF TimedOut, IInv, TypeOK
<1>3. i \in 0..req.at /\ i \in DOMAIN req.layers
  BY <1>1, <1>2
<1>4. Harmless("408") /\ Seen(req)
  BY <1>1, <1>2, <1>3, SeenSelf DEF Harmless, Names
<1>5. "408" \in Statuses \ {"idle", "open"} /\ Place["timeout"] < Place["propagate_id"]
  BY DEF Statuses, Place
<1> QED BY <1>1, <1>2, <1>3, <1>4, <1>5, AnswersOK

LEMMA ArriveOK ==
    ASSUME IInv, Arrive
    PROVE  RequestOK'
<1>1. PICK p \in DOMAIN router.routes \union {"elsewhere"} :
        req' = [NoRequest EXCEPT
                  !.path = p, !.status = "open", !.at = 1,
                  !.layers = IF p = "elsewhere" THEN router.fallback ELSE router.routes[p]]
  BY DEF Arrive
<1>2. stage = "serving" /\ UNCHANGED <<cfg, stage, declared, router>>
  BY DEF Arrive, settings, stackVars
<1>3. IsRouter(router)
  BY DEF IInv, TypeOK
<1>4. PICK s : s = IF p = "elsewhere" THEN router.fallback ELSE router.routes[p]
  OBVIOUS
<1>5. s \in Seq(LayerName) /\ Len(s) \in Nat /\ p \in Path \union {"none", "elsewhere"}
  <2>1. s \in Seq(LayerName) /\ p \in Path \union {"none", "elsewhere"}
    BY <1>3, <1>4 DEF IsRouter
  <2> QED BY <2>1
<1>6. req' = [path |-> p, layers |-> s, at |-> 1, has |-> Unread,
              identity |-> "none", span |-> "none", status |-> "open", from |-> 0]
  BY <1>1, <1>4 DEF NoRequest
<1>7. /\ req'.path = p /\ req'.layers = s /\ req'.at = 1 /\ req'.has = Unread
      /\ req'.identity = "none" /\ req'.status = "open" /\ req'.from = 0
  BY <1>6
<1>8. req' \in Request
  <2>1. Unread \in HeadersRead /\ "none" \in Identities /\ "open" \in Statuses
    BY DEF Unread, HeadersRead, OrUnread, Identities, Statuses
  <2> QED BY <1>5, <1>6, <2>1 DEF Request
<1>9. req'.at \in 0..(Len(req'.layers) + 1) /\ req'.from \in 0..req'.at
  BY <1>5, <1>7
<1>10. RequestOnItsWay'
  BY <1>1, <1>2, <1>4, <1>7 DEF RequestOnItsWay
<1>11. ProxyTrusted' /\ AnsweredInside' /\ ProbesStayOpen'
  BY <1>7 DEF ProxyTrusted, AnsweredInside, ProbesStayOpen
<1>12. Authenticated'
  <2>1. \A l : ~Passed(l)'
    BY <1>5, <1>7 DEF Passed
  <2> QED BY <2>1 DEF Authenticated
<1> QED BY <1>8, <1>9, <1>10, <1>11, <1>12 DEF RequestOK

\* Every step preserves the invariant.
LEMMA StepOK ==
    ASSUME IInv, [Next]_vars
    PROVE  IInv'
<1>1. StartOK /\ RequestOK /\ cfg \in Config(Secret)
  BY TwoParts DEF IInv, TypeOK
<1>2. CASE Configure /\ UNCHANGED <<stackVars, req>>
  <2>1. StartOK' /\ stage # "serving"
    BY <1>1, <1>2, ConfigureOK, ConfigureKeeps DEF StartOK
  <2>2. (req = NoRequest /\ cfg \in Config(Secret))'
    BY <1>2, <2>1, NotServing DEF StartOK, SettingsOK
  <2>3. RequestOK'
    BY <2>2, IdleOK, PTL
  <2> QED BY <2>1, <2>3, TwoParts, PTL
<1>3. CASE Assemble /\ UNCHANGED req
  <2>1. StartOK'
    BY <1>1, <1>3, WithStateOK, RegisterOK, SetupOK, StartingOK DEF Assemble
  <2>2. stage # "serving"
    BY <1>3 DEF Assemble, with_state, Register, setup_middleware, start
  <2>3. (req = NoRequest /\ cfg \in Config(Secret))'
    BY <1>3, <2>1, <2>2, NotServing DEF StartOK, SettingsOK
  <2>4. RequestOK'
    BY <2>3, IdleOK, PTL
  <2> QED BY <2>1, <2>4, TwoParts, PTL
<1>4. CASE /\ \/ Arrive \/ Step \/ TakePermit \/ session_to_identity
              \/ bearer_auth_middleware \/ browser_redirect_middleware \/ Handle \/ Serve \/ Panic \/ TimedOut
  <2>1. RequestOK'
    BY <1>4, ArriveOK, TransparentOK, MayRefuseOK, ProxyOK, BasicAuthOK, RedirectOK,
       SessionOK, BearerOK, HandleOK, PanicOK, TimedOutOK DEF Step
  <2>2. UNCHANGED <<settings, stackVars>>
    BY <1>4 DEF Arrive, Step, Transparent, MayRefuse, TakePermit, record_user_to_span,
          proxy_oidc_middleware, basic_auth_middleware, browser_redirect_middleware,
          session_to_identity, bearer_auth_middleware, Handle, Serve, Panic, TimedOut,
          Goes, Answers
  <2> QED BY <1>1, <2>1, <2>2, StartUnchanged, TwoParts, PTL
<1>5. CASE Sent
  <2>1. (req = NoRequest /\ cfg \in Config(Secret))' /\ UNCHANGED <<settings, stackVars>>
    BY <1>1, <1>5 DEF Sent, settings
  <2>2. RequestOK'
    BY <2>1, IdleOK, PTL
  <2> QED BY <1>1, <2>1, <2>2, StartUnchanged, TwoParts, PTL
<1>6. CASE UNCHANGED vars
  <2>1. UNCHANGED <<settings, stackVars, req>>
    BY <1>6 DEF vars
  <2>2. StartOK'
    BY <1>1, <2>1, StartUnchanged
  <2>3. RequestOK'
    BY <1>1, <2>1 DEF RequestOK, RequestOnItsWay, ProxyTrusted, Authenticated, Passed,
          TokenAccepted, AnsweredInside, ProbesStayOpen, settings, stackVars
  <2> QED BY <2>2, <2>3, TwoParts, PTL
<1> QED BY <1>2, <1>3, <1>4, <1>5, <1>6 DEF Next

-----------------------------------------------------------------------------
(* What a request has passed                                               *)

LEMMA AllPassed ==
    ASSUME IInv, InHandler, NEW l \in Names(req.layers)
    PROVE  Passed(l)
<1>1. req.status # "idle" /\ req.at = Len(req.layers) + 1 /\ Len(req.layers) \in Nat
  BY LayersOrdered DEF InHandler
<1>2. PICK i \in 1..Len(req.layers) : req.layers[i] = l
  BY <1>1, LayerIndex
<1> QED BY <1>1, <1>2 DEF Passed

\* The layers around the one where the request is.
LEMMA OuterPassed ==
    ASSUME IInv, NEW l, Here(l), NEW m \in Names(req.layers), Place[m] > Place[l]
    PROVE  Passed(m)
<1>1. req.status # "idle" /\ req.at \in 1..Len(req.layers) /\ req.layers[req.at] = l
  BY Underway, LayersOrdered DEF Here, IInv, TypeOK
<1>2. PICK i \in 1..Len(req.layers) : req.layers[i] = m
  BY <1>1, LayerIndex
<1>3. i < req.at
  BY <1>1, <1>2, OuterPlaces
<1> QED BY <1>2, <1>3 DEF Passed

\* A layer that was asked for after the path was added is there.
LEMMA LayerThere ==
    ASSUME NEW L, NEW n \in Nat, Carries(cfg, req.layers, L, n, Last),
           NEW l \in LayerName, l \in L, Asked(cfg)[l], n < Place[l]
    PROVE  l \in Names(req.layers)
<1>1. Place[l] <= Last
  BY PlacesInRange DEF Last
<1> QED BY <1>1 DEF Carries

LEMMA Guards ==
    ASSUME IInv
    PROVE  GuardedHandlers
<1> DEFINE mandatory == /\ ~CodeFlow(cfg)
                        /\ \/ cfg.oidc # None /\ is_enabled(cfg, "Oidc")
                           \/ cfg.basic_auth # None /\ is_enabled(cfg, "BasicAuth")
<1> SUFFICES ASSUME InHandler, Guarded(req.path), mandatory
             PROVE  req.identity # "none" \/ req.has.authorization = "bearer_anonymous"
  BY DEF GuardedHandlers
<1>1. PICK n \in {0, 1} : req.path \in Added(cfg, router.own, n)
  <2>1. Added(cfg, router.own, 0) = router.own /\ Added(cfg, router.own, 1) = MappedPaths(cfg, TRUE)
    BY DEF Added
  <2> QED BY <2>1 DEF Guarded
<1>2. req.status # "idle" /\ n \in 0..Last
  BY DEF InHandler, Last
<1>3. Carries(cfg, req.layers, LayerName, n, Last)
  BY <1>1, <1>2, PathLayers
<1>4. /\ "bearer" \in LayerName /\ n < Place["bearer"] /\ Place["bearer"] <= Last
      /\ "basic_auth" \in LayerName /\ n < Place["basic_auth"] /\ Place["basic_auth"] <= Last
  BY DEF LayerName, Place, Last
<1>5. CASE cfg.oidc # None /\ is_enabled(cfg, "Oidc")
  <2>1. Asked(cfg)["bearer"]
    BY <1>5 DEF Asked
  <2>2. Passed("bearer")
    BY <1>3, <1>4, <2>1, AllPassed DEF Carries
  <2> QED BY <2>2 DEF IInv, Authenticated
<1>6. CASE cfg.basic_auth # None /\ is_enabled(cfg, "BasicAuth")
  <2>1. Asked(cfg)["basic_auth"]
    BY <1>6 DEF Asked
  <2>2. Passed("basic_auth")
    BY <1>3, <1>4, <2>1, AllPassed DEF Carries
  <2> QED BY <2>2 DEF IInv, Authenticated
<1> QED BY <1>5, <1>6

LEMMA Dependencies ==
    ASSUME IInv
    PROVE  DependenciesMet
<1>1. /\ Place["dedup"] = 12 /\ Place["set_id"] = 31 /\ Place["session"] = 11
      /\ Place["oidc_client"] = 9 /\ Place["session_to_identity"] = 4
      /\ Place["browser_redirect"] = 2
  BY DEF Place
<1>2. {"set_id", "session", "oidc_client"} \subseteq LayerName \ RouteOnly
  BY DEF LayerName, Place, RouteOnly
<1>3. Asked(cfg)["session"] /\ (Asked(cfg)["oidc_client"] <=> LoginFlow(cfg))
  BY DEF Asked
<1>4. ASSUME Here("dedup") PROVE Passed("set_id")
  <2>1. "dedup" \in Names(req.layers) /\ req.status # "idle"
    BY <1>4, HereNamed
  <2>2. Asked(cfg)["dedup"]
    BY <2>1, LayersAround
  <2>3. Asked(cfg)["set_id"]
    BY <2>2 DEF Asked
  <2>4. "set_id" \in Names(req.layers)
    BY <1>1, <1>2, <2>1, <2>3, LayersAround
  <2> QED BY <1>1, <1>4, <2>4, OuterPassed
<1>5. ASSUME NEW l \in {"session_to_identity", "browser_redirect"}, Here(l)
      PROVE  Passed("session") /\ Passed("oidc_client")
  <2>1. l \in Names(req.layers) /\ req.status # "idle"
    BY <1>5, HereNamed
  <2>2. Asked(cfg)[l]
    BY <2>1, LayersAround
  <2>3. LoginFlow(cfg)
    <3>1. CASE l = "session_to_identity"
      BY <2>2, <3>1 DEF Asked
    <3>2. CASE l = "browser_redirect"
      <4>1. Asked(cfg)["browser_redirect"] <=> LoginFlow(cfg) /\ cfg.oidc[1].auto_redirect_to_login
        BY DEF Asked
      <4> QED BY <2>2, <3>2, <4>1
    <3> QED BY <3>1, <3>2
  <2>4. Place["session"] > Place[l] /\ Place["oidc_client"] > Place[l]
    BY <1>1
  <2>5. "session" \in Names(req.layers) /\ "oidc_client" \in Names(req.layers)
    BY <1>2, <1>3, <2>1, <2>3, <2>4, LayersAround
  <2> QED BY <1>5, <2>4, <2>5, OuterPassed
<1>6. ASSUME InHandler, LoginFlow(cfg), req.path \in OidcRoutes(cfg)
      PROVE  Passed("session") /\ Passed("oidc_client")
  <2>1. Added(cfg, router.own, 8) = OidcRoutes(cfg)
    BY <1>6 DEF Added
  <2>2. 8 \in 0..Last /\ 11 <= Last /\ req.status # "idle"
    BY <1>6 DEF Last, InHandler
  <2>3. Carries(cfg, req.layers, LayerName, 8, Last)
    BY <1>6, <2>1, <2>2, PathLayers
  <2>4. "session" \in Names(req.layers)
    BY <1>1, <1>2, <1>3, <2>3, LayerThere
  <2>5. "oidc_client" \in Names(req.layers)
    BY <1>1, <1>2, <1>3, <1>6, <2>3, LayerThere
  <2> QED BY <1>6, <2>4, <2>5, AllPassed
<1> QED BY <1>4, <1>5, <1>6 DEF DependenciesMet

LEMMA Traces ==
    ASSUME IInv
    PROVE  Traceable
<1> SUFFICES ASSUME req.status \notin {"idle", "open", "aborted", "500"},
                    is_enabled(cfg, "RequestId"), req.path # cfg.liveness_route,
                    req.path = "elsewhere" => ~HasFallback(cfg)
             PROVE  \E i, j \in 1..Len(req.layers) :
                       /\ i < j /\ j < req.from
                       /\ req.layers[i] = "set_id" /\ req.layers[j] = "propagate_id"
  BY DEF Traceable
<1>1. /\ Place["propagate_id"] = 30 /\ Place["set_id"] = 31
      /\ {"propagate_id", "set_id"} \subseteq LayerName \ RouteOnly /\ 31 <= Last
  BY DEF Place, LayerName, RouteOnly, Last
<1>2. Asked(cfg)["propagate_id"] /\ Asked(cfg)["set_id"]
  BY DEF Asked
<1>3. "propagate_id" \in Names(req.layers) /\ "set_id" \in Names(req.layers)
  <2>1. CASE \E n \in 0..Last : req.path \in Added(cfg, router.own, n)
    <3>1. PICK n \in 0..Last : req.path \in Added(cfg, router.own, n)
      BY <2>1
    <3>2. n \in {0, 1, 7, 8, 25, 27}
      <4>1. n # 32
        <5>1. Added(cfg, router.own, 32) \subseteq {cfg.liveness_route}
          BY DEF Added
        <5> QED BY <3>1, <5>1
      <4> QED BY <3>1, <4>1 DEF Added
    <3>3. Carries(cfg, req.layers, LayerName, n, Last)
      BY <3>1, PathLayers
    <3>4. n \in Nat /\ n < 30
      BY <3>2
    <3>5. "propagate_id" \in Names(req.layers)
      BY <1>1, <1>2, <3>3, <3>4, LayerThere
    <3>6. "set_id" \in Names(req.layers)
      BY <1>1, <1>2, <3>3, <3>4, LayerThere
    <3> QED BY <3>5, <3>6
  <2>2. CASE Carries(cfg, req.layers, LayerName \ RouteOnly, 0, Last)
    <3>1. "propagate_id" \in Names(req.layers)
      BY <1>1, <1>2, <2>2, LayerThere
    <3>2. "set_id" \in Names(req.layers)
      BY <1>1, <1>2, <2>2, LayerThere
    <3> QED BY <3>1, <3>2
  <2> QED BY <2>1, <2>2, WhichLayers
<1>4. PICK i \in 1..Len(req.layers) : req.layers[i] = "set_id"
  BY <1>3, LayerIndex
<1>5. PICK j \in 1..Len(req.layers) : req.layers[j] = "propagate_id"
  BY <1>3, LayerIndex
<1>6. i < j
  BY <1>1, <1>4, <1>5, OuterPlaces
<1>7. Len(req.layers) \in Nat /\ DOMAIN req.layers = 1..Len(req.layers)
  BY LayersOrdered
<1>8. j < req.from
  <2>1. CASE req.from = Len(req.layers) + 1
    BY <1>7, <2>1
  <2>2. CASE /\ req.from \in DOMAIN req.layers
             /\ Place[req.layers[req.from]] < Place["propagate_id"]
    <3>1. PICK f \in 1..Len(req.layers) : f = req.from
      BY <1>7, <2>2
    <3>2. Place[req.layers[j]] > Place[req.layers[f]]
      BY <1>5, <2>2, <3>1, OuterPlaces
    <3> QED BY <3>1, <3>2, OuterPlaces
  <2> QED BY <2>1, <2>2 DEF IInv, AnsweredInside
<1> QED BY <1>4, <1>5, <1>6, <1>8

-----------------------------------------------------------------------------
(* The theorems                                                            *)

\* Every state that the service reaches while it is configured, assembled and used
\* satisfies the inductive invariant: setup_middleware leaves each path with
\* the layers that were asked for after it, outermost last, and a request passes
\* them in that order.
THEOREM InvariantHolds == Spec => []IInv
<1>1. IInv /\ [Next]_vars => IInv'
  BY StepOK
<1> QED BY <1>1, InitOK, PTL DEF Spec

\* The variables of Config, FluentRouter and the request keep their types; a
\* start that fails has an error kind or is a panic, and no other has one.
THEOREM TypeCorrect == Spec => []TypeOK
<1>1. IInv => TypeOK
  BY DEF IInv
<1> QED BY <1>1, InvariantHolds, PTL

\* On a configuration that passed Config::validate, setup_middleware panics only for
\* routes that clash, a path axum does not take, authentication without a route
\* to guard, a rate beyond one request per nanosecond, a "*" beside credentials
\* in the CORS policy, or a default metrics recorder that is not the first.
THEOREM ValidatedBuildsHolds == Spec => []ValidatedBuilds
<1>1. IInv => ValidatedBuilds
  BY DEF IInv
<1> QED BY <1>1, InvariantHolds, PTL

\* is_trusted_source takes identity headers from the proxy it was told about, and
\* from any peer only where the program itself named a non-production environment.
THEOREM ProxyTrustedHolds == Spec => []ProxyTrusted
<1>1. IInv => ProxyTrusted
  BY DEF IInv
<1> QED BY <1>1, InvariantHolds, PTL

\* Without the code flow, no request reaches a handler of the application or a
\* protected file past bearer_auth_middleware or basic_auth_middleware but with
\* an identity, or with a valid token that has no subject.
THEOREM GuardedHandlersHolds == Spec => []GuardedHandlers
<1>1. IInv => GuardedHandlers
  BY Guards
<1> QED BY <1>1, InvariantHolds, PTL

\* What bearer_auth_middleware decides of a valid token stays: nothing that
\* authenticates is inside it.
THEOREM BearerWinsHolds == Spec => []BearerWins
<1>1. IInv => BearerWins
  BY DEF IInv, Authenticated, BearerWins
<1> QED BY <1>1, InvariantHolds, PTL

\* The order of setup_middleware gives each layer and each login route what it
\* relies on: the request id, the session and the client are outside it.
THEOREM DependenciesMetHolds == Spec => []DependenciesMet
<1>1. IInv => DependenciesMet
  BY Dependencies
<1> QED BY <1>1, InvariantHolds, PTL

\* setup_readiness and setup_liveness come late enough: no layer that checks
\* credentials is around a probe, and no limit around the liveness probe.
THEOREM ProbesStayOpenHolds == Spec => []ProbesStayOpen
<1>1. IInv => ProbesStayOpen
  BY DEF IInv
<1> QED BY <1>1, InvariantHolds, PTL

\* setup_request_id goes around all that answers: whatever refuses a request,
\* the id is on the answer, with the exceptions that the property names.
THEOREM TraceableHolds == Spec => []Traceable
<1>1. IInv => Traceable
  BY Traces
<1> QED BY <1>1, InvariantHolds, PTL
=============================================================================
