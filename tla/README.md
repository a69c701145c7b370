# A verification project for axum-conf

axum-conf builds an `axum` server from a configuration file: a middleware stack
around the application's routes, and the services that go with it (circuit
breakers for outgoing calls, request deduplication, authentication and browser
sessions, health probes, graceful shutdown).  Most of the library puts other
libraries together.  The parts that keep state of their own, shared by
concurrent requests and background tasks, are where a test reaches only a few of
the orders in which things can happen; the way from a configuration to a running
stack has too many combinations for tests.  This project models both in TLA+,
checks the models with TLC and proves the main properties of its core with TLAPS.

Paths below are relative to the repository (`src/fluent/dedup.rs` is
`src/src/fluent/dedup.rs` in `PROJECT.json`).

## The system and its parts

| Part | State | Operations | Interacts with |
|---|---|---|---|
| Circuit breaker (`src/circuit_breaker`) | per target: state, three counters, time of the last opening, behind one Mutex | `should_allow`, `record_success`, `record_neutral`, `record_failure`, `is_fast_failing`; `guarded_call(_with)` around a future | every task that calls a target; the readiness probe |
| Registry (`registry.rs`) | map from target to breaker | `get_or_default` | guarded clients, the readiness probe |
| Deduplication (`src/fluent/dedup.rs`) | map of request ids, insertion index, sequence counter | `check_and_mark`, `evict_oldest`, `cleanup_expired` | every request; the cleanup task |
| Shutdown (`src/fluent/shutdown.rs`, `builder.rs`) | cancellation token, broadcast channel, the tasks of `start` | `subscribe`, `emit`, `start`, the signal task | components of the application, axum |
| Retry (`src/resilience.rs`) | attempt and delay | `retry_transient` | the first fetch of the key set, discovery |
| Browser sessions (`oidc_flow.rs`, `session_store.rs`) | one session record per browser; CSRF, PKCE and nonce while logging in | login, callback, refresh, logout | the identity provider; concurrent requests of one browser |
| Bearer tokens (`oidc_bearer.rs`) | cached key set | `validate_token`, `verify_signature`, `refresh` | every request, the background task; the identity provider |
| Middleware stack (`builder.rs`, `router.rs`, `features.rs`, `control.rs`, `request.rs`, `auth.rs`, ...) | the layers, in order | `setup_*`, a request's way in and out | everything above |
| Configuration (`src/config`) | the configuration record | parse, validate | everything above |
| Versions and utilities (`src/utils.rs`), errors (`src/error.rs`) | none | pure functions | handlers |

What is hard in it:

* **Circuit breaker.**  A guarded call is admitted under the lock and its outcome
  recorded under the lock, but the call itself runs in between.  Outcomes of old
  calls arrive in a state they were not admitted in; calls may be cancelled and
  record nothing; the counters mean something in one state only and must not leak
  into the next.
* **Deduplication.**  `check_and_mark` looks like one step and is about ten, on
  three structures with three locks, with two background activities in between.
* **Shutdown.**  Three kinds of task, two of which emit phases; one receiver must
  not miss the first phase, or the process never stops.
* **Registry and readiness.**  Every client looks its breaker up by itself and keeps
  it across the call; the readiness probe looks at the same breaker on every poll
  and must neither be fooled by it nor use it up.
* **Key cache.**  A refresh is a fetch and, later, a write of the whole map.  The
  background task and every request that meets an unknown key id refresh on their
  own, so the answer to an early fetch may be written over that to a later one.
* **Browser sessions.**  A request works on a copy of the session record, awaits the
  provider, and writes the whole copy back; the provider meanwhile has spent a code
  or a refresh token for good.  A process may stop between the two.
* **Configuration and stack.**  The order of some thirty `setup_*` calls decides which
  layer is inside which, on configurations that came from a file, from variables
  that may be unset, or from code; a mistake shows on one route of one
  configuration only.

`PROJECT.json` lists the hazards line by line, with the properties aimed at each.

## Modules

| Module | Models | Uses |
|---|---|---|
| `BreakerState` | `circuit_breaker/state.rs`: the record behind the Mutex, one operator per method | |
| `CircuitBreaker` | one breaker and its concurrent guarded calls: `mod.rs`, the classifiers of `database.rs` and `http_client.rs` | `BreakerState`; implements `Gate` |
| `Gate` | what a breaker promises, without its counters (abstract) | |
| `Readiness` | `registry.rs`, the clients of `http_client.rs` and `database.rs`, the readiness handler of `fluent/features.rs` | `BreakerState` |
| `Dedup` | `fluent/dedup.rs` and its use in `fluent/request.rs` | |
| `Shutdown` | `fluent/shutdown.rs`, `start` and the signal task of `fluent/builder.rs` | |
| `ErrorKinds` | `error.rs`: kinds, statuses, what clients see, conversions, `is_transient` | |
| `Jwks` | `fluent/oidc_bearer.rs`, `resilience.rs` | `ErrorKinds` |
| `OidcSession` | `fluent/oidc_flow.rs`, `browser_redirect.rs`, `session_store.rs` | |
| `Settings` | `config/`: loading, substitution, `with_*`, validation | `ErrorKinds` |
| `Stack` | `fluent/router.rs`, `builder.rs` and the `setup_*` methods: the router built from a configuration | `Settings` |
| `Server` | the middleware functions (`auth.rs`, `basic_auth.rs`, `proxy_oidc.rs`, `control.rs`, ...): a request through that router | `Stack` |

`MC<module>` instantiates a module for TLC.  `CircuitBreakerProofs`, `GateProofs`,
`ReadinessProofs`, `DedupProofs`, `ShutdownProofs`, `JwksProofs`, `OidcSessionProofs`
and `ServerProofs` hold the theorems; the inductive invariant each rests on (`IInv`)
is at the end of the module it is about, or of its proofs.  In every module the
definitions headed "Defective variant" are not part of the specification: each is a
version of one operation with a plausible defect, and a property that TLC checks is
known to fail when the operation is replaced by it.

### BreakerState, CircuitBreaker and Gate

`inner` is the record behind the Mutex.  Every method holds the lock from its
first line to its last, so each is an operator from record to record, named as in
the source.  `last_failure_time` is only ever read through `elapsed()`; it is kept
as its age in ticks, up to `ResetTimeout`, with `Never` for `None`.
`half_open_calls` keeps its width (`CounterMod` values), because nothing else bounds
it.

`Admit` and `Reject` are `guarded_call_with` up to the await, `Succeed`,
`ReturnError` and `TimeOut` what it does after it, `Cancel` the drop of the
future, which records nothing.  `Errors` and `Failures` are the classifier:
`GuardedPool` counts the six `sqlx` errors that mean degradation,
`GuardedHttpClient` (through `guarded_call`) every error.  `Degrade` and `Heal`
belong to the target: failures occur only while it is degraded.

`streak`, `probes`, `good` and `openFor` are history.  They follow outcomes and
admissions, never the breaker's counters, so that a property compares what
happened with what the breaker believes.

`Gate` knows three phases, how long a shut gate still stays shut and how many probes
a trial has spent.  The mapping is `GatePhase`, `Left` (what is left of the window)
and `Spent` (`half_open_calls` up to the budget); successes, failures and late
outcomes that change none of these are stuttering steps of the gate.

### Readiness

An `Arc<CircuitBreakerState>` is an index into `arcs`, so that two tasks holding
different breakers for one target is a state the model can be in.  `query` and
`request` look the breaker up (`get_or_default`, one step: the map entry is locked),
`Ask` admits, `End` records into the breaker that was looked up.  The probe is
three steps, as its handler is: the application's check, the look at the database's
breaker, `SELECT 1` outside it.  All targets have the same thresholds.

### Dedup

One action per access of a shared structure.  A `DashMap` operation on one key is
atomic; `len` and `retain` lock one shard after the other, and every key is given
a shard of its own (`LenShard`, `RetainShard`, `CleanupShard`), which allows at
least the interleavings of any real assignment of keys to shards.  The Mutex of
`order` is modelled because `evict_oldest` holds it across accesses of the map.
`NoEntry` stands for an absent key.

`accepted` and `replayed` record which requests went through; `safe[k]` is the end
of the window of a mark that was inserted while no other request on `k` was
inside `check_and_mark`.  The window counts from the arrival, the Instant taken at the
start of `check_and_mark`; nothing of the response reaches the tracker, so a request is
idle again when the call returns.

### Shutdown

`handler` is the signal task (the future passed to `with_graceful_shutdown`,
which axum spawns), `main` is `start`, with the two branches of its `select!`
taken as they complete.  `emit(Initiated)` is two steps, the token and the send.
The channel is the sequence of all phases sent and an index per receiver; at most
three phases are sent and its capacity is 16, so no receiver lags.  axum and hyper
are modelled from how `start` uses them: `Accept`, `Close`, `StopAccepting`,
`Drained`.  A receiver error in `start` ("channel closed") cannot happen, since
`start` itself holds a sender, and has no action.

### Jwks

The issuer publishes `Documents` one after another.  Start-up is `retry_transient`
around the first fetch: attempt, classification of the error, and the next attempt
after a delay of any length, or the end.  Afterwards the background task and the requests (a bearer token
in `validate_token`, a session's ID token in `verify_signature`) refresh by a fetch
and a separate store.  Tokens are records of what the checks look at (key id, key,
algorithm, issuer, audience, expiry, subject).  Issuer, audience and expiry may be
absent: `Validation::new` requires the expiry only, and compares issuer and audience
only when the token has them.  A token past its expiry is good for the leeway of
`jsonwebtoken`, 60 s.  The background task holds a `Weak`
to the provider; the router keeps the provider as long as it serves, so its upgrade
succeeds in every state of the model.

### OidcSession

One browser, several requests at a time.  A request copies the record when it
arrives (`Login`, `Callback`, `Logout`, `Page`); `Respond` writes the copy back whole,
if it was modified and the answer is no server error; in between lie the token endpoint
(`Exchange`, `Refresh`) and, after the look at the expiry, the awaited signature check
(`Verify`, which is `Jwks` reduced to its answers).  Whether an answer of the token
endpoint carries a refresh token is chosen for each answer, as the code looks at each.

The secrets of the n-th login are the number n and the tokens of the g-th answer the
number g, so that mixing those of two logins is visible.  A code is issued when the
user is sent to the provider and used at most once.  `store` holds the record, the key
it was sealed with and whether it has lapsed; a deployment may start with another key,
and `Restart` drops the requests in progress but not what they spent at the provider.

An external store may fail at each access (`LoadFails`, the `lost` first writes of
`login_handler`, the delete in `flush`, the save in `Respond`).  The session layer loads
lazily and asks again after an error, so a handler that discards the error of one write
may succeed with the next.  `offline` (whether answers had refresh tokens), `torn`
(logins of which a write was lost) and `completed` (logins whose callback found all it
looks for) are history.

### Settings, Stack and Server

`Settings` loads a `Config` in one of the four ways (`default`, `from_rust_env`,
`from_toml_file`, `from_toml`), substitutes the placeholders, applies up to
`MaxChanges` of the `with_*` methods and validates.  An `Option` is a sequence of at
most one element; a secret is empty, 32 spaces, short, long or a placeholder, for some
checks trim (`trim().is_empty()`), some do not (`is_empty()`) and that of the signing key
looks at the length only; a list of users is the set of their secrets; a path is a value
of `Path`, where "relative" stands for the paths axum refuses.  A CORS policy is
reduced to whether it allows credentials and which of its lists are a "*", customized
metrics to a flag.  `Config(S)` is the type serde and the `with_*` methods give a
configuration whose secrets are in `S`.  Each `validate_*` is the conjunction of its
checks, and `validate` the kind of error of the first group that fails: the database,
the sections of the HTTP configuration, then what is said of their secrets.

`Stack` builds the router: a function from paths to layers, outermost first, and a
fallback.  `layer`, `route_layer`, `route`, `nest_service` and `fallback_service` are
axum's (external), with their panics, that of `CorsLayer` on credentials with a "*" and
that of the default metrics recorder on finding another among them; `setup_middleware`
is the composition of the `setup_*` operators in the order of the source.
`RecorderInstalled` and `FirstMetricsRoute` are what an earlier router of the process
leaves behind (`METRICS_PATH` is a `OnceLock`).  All cargo features are on.  What it
amounts to is stated beside it: `Place` numbers the step that adds a layer, `Added(c,
own, n)` is the set of paths step n adds, and `Asked(c)` the layers a configuration
asks for.

`Server` composes both with a request that passes the layers of its route.  A layer
that looks at a header chooses its value when it first reads it, which is the same as
choosing all headers on arrival and needs far fewer states.  The browser redirect skips
the paths that begin with one of its list (`Prefixes` is that relation on `Path`); to
leave its return url it waits for the session store.  Layers from tower-http
let a request pass or answer it; what they do to bodies and headers is left out, save
for the request id.  Requests are independent of each other in the layers modelled
here (deduplication, breakers and sessions, where they are not, have modules of their
own), so one at a time is enough.

## Runs

Passing runs:

| Run | Instance | Shows |
|---|---|---|
| `breaker` | 4 callers, thresholds 3 and 2, budget 3, window 3, call timeout, both kinds of error, cancellation | the circuit trips after exactly the configured streak (`TripsInTime`, `TripsOnlyOnStreak`), probes within its budget (`ProbeBudget`), closes only on recovery (`ClosesOnlyOnRecovery`), and implements the gate (`ImplementsGate`): nothing passes for exactly the window after an opening, whatever late outcomes arrive |
| `readiness` | 2 targets, one of them configured, 3 callers, thresholds 2, window 1, budget 2 | one breaker per target though all look it up (`TripsPerTarget`, `Independent`); readiness returns without traffic (`ReadyAgain`); probing does not starve recovery (`Recovers`) |
| `dedup` | 2 requests, 2 ids, 1 entry, 3 checks, one time to live | live entries stay evictable (`NoOrphan`), undisturbed marks that are not evicted are kept for ttl from the arrival (`MarkHeld`), every check returns (`CheckReturns`) |
| `shutdown` | 2 components, 2 connections, a timeout of 2 | no missed shutdown (`NoMissedShutdown`), the whole grace period (`FullGrace`), termination (`ShutdownCompletes`) |
| `jwks` | 2 requests and the background task, two rotations, 3 attempts, tokens with a flaw each and tokens without issuer and audience | an outage or an overtaken refresh is no forged token (`NoFalseAlarm`), what is accepted had a published key and names no foreign issuer or audience, if it names any (`AcceptedForCause`), start-up ends, and fails only for cause (`GivesUpForCause`, `StartupEnds`), the cache converges (`CacheCatchesUp`) |
| `session` | 2 requests, 2 session ids, 2 logins, 2 answers of the token endpoint, 2 signing keys, a failing store | login state belongs to one login, unless the store failed in its midst (`LoginIsWhole`); the tokens of a record belong together (`OneGrant`) though tabs overlap, if the provider gives a refresh token to every login or to none; an identity goes back to a callback that found its login's verifier, state and nonce together (`IdentityForCause`); a callback that is refused writes nothing to the store (`FailedCallbackIsHarmless`) |
| `server` | eleven environments and their files (placeholders, each way to authenticate, each store, both trust anchors, odd limits and directories), up to 2 changes (among them CORS policies with a "*" and login routes that clash), 5 outside faults, 2 application routes, one of which collides with a probe; the router is not the first of its process | validated configurations build but for the reasons listed (`ValidatedBuilds`), proxy headers need one of the trust anchors, and a default is never lenient with them (`ProxyTrusted`), authentication guards what it should (`GuardedHandlers`, `BearerWins`), layers find what they need (`DependenciesMet`), probes stay open (`ProbesStayOpen`), refusals carry the request id (`Traceable`), hanging handlers are answered (`AnsweredInTime`) |

Runs that show a disagreement between the code and what is said of it (each is a
finding in `PROJECT.json`, with the lines quoted):

| Run | Claim | What happens |
|---|---|---|
| `breaker_idle` | `half_open_max_calls` is a maximum of *concurrent* probes | it is a maximum per episode; with `success_threshold` above it, or probes that record nothing, the breaker stays half-open and rejects for ever |
| `dedup_once` | the same id twice: only one is processed | both are, when both look the id up before either inserts it |
| `dedup_index` | cleanup prevents memory leaks | below capacity nothing ever removes a record from `order` |
| `session_refresh` | expired tokens are refreshed transparently | two requests of one session both refresh; when the provider rotates refresh tokens the second is refused and deletes the session the first renewed |
| `user_span` | the user is recorded in the span, after authentication | the layer is outside every layer that knows the user and always finds none |

### Bounds

* `CircuitBreaker`, `Readiness`: `MaxHalfOpenCalls` caps the calls of one half-open
  episode, the only counter the code does not bound; 7 with a budget of 3 leaves room
  for four rejected calls, 3 with a budget of 2 for one.  The history counters
  saturate at the threshold they are compared with.  4 callers and thresholds of 3
  allow a streak of calls admitted in an earlier state to arrive during an episode.
* `Dedup`: `MaxChecks` = 3 lets one request find what two racing ones left
  behind; `MaxTime` = 1 with a `Ttl` of 1 lets an entry expire, be cleaned up and be
  inserted again, and a request carry an old `now`.  `dedup_index` uses six ticks
  so that every entry expires before the next check.
* `Shutdown`: nothing is capped but the clock, at `Timeout`; the model is finite.
* `Jwks`: three documents, so that a refresh may be overtaken by two; three attempts,
  so that the issuer may come back between the first and the last.
* `OidcSession`: `MaxLogins` = 2 is what an overlap needs; `MaxTokens` = 2 allows a
  login and a refresh, or two logins; `session_refresh` has 3 and one login.  The run
  `session` explores the behaviours whose events have a weight of at most `MaxEvents` = 4
  (`MCOidcSession`): two logins that both complete, a login that is refreshed after its
  token expired, a login torn by the store and another that completes, a record that
  lapses or outlives its key after a login, and so on, but not all of these at once.
  The proofs have no such bound.
* `Server`: `MaxChanges` = 2 `with_*` calls on each of the files; the files of
  `MCServer` are chosen so that every check of `validate` and every layer occurs;
  `MCPath` has the paths they name, among them "/", at which nothing can be nested,
  and one that axum refuses, `MCPrefixes` which of them begin with another.  The
  `server` run is about a later router, whose metrics route and recorder are the first
  one's: most of its files have customized metrics, without which only configurations
  without metrics build.  `user_span` is about the first.

### Fairness

* `Readiness`: the orchestrator keeps probing, `SELECT 1` ends (a healthy database
  answers, and the request timeout is outside the probe), the clock advances.  That clients come back and their calls end is an
  antecedent of `Recovers` (`Traffic`), not an assumption of the specification;
  `ReadyAgain` does without it.  `Recovers` holds because the instance has a budget
  that covers `success_threshold` and calls that all record an outcome;
  `breaker_idle` shows what happens otherwise.
* `Dedup!FairSpec`: a thread inside `check_and_mark` keeps running; it has no
  await, so only the scheduler can stop it.  A std Mutex does not promise fairness
  among waiters, and none is needed: weak fairness of each request is enough.
* `Shutdown!FairSpec`: the runtime polls both tasks and the clock advances.  A
  connection may stay open for ever.
* `Jwks!FairSpec`: the background task is polled and its interval fires.  Requests may
  hang anywhere.  The HTTP client of `oidc_bearer.rs` has no timeout, so that a fetch
  ends cannot be assumed of the code: it is an antecedent (`Responds`) of `StartupEnds`
  and `CacheCatchesUp`, for the first fetch and those of the background task.  An issuer
  that accepts a connection and never answers holds up the start for ever.
* `Server`: layers that need nothing from outside run, and timers fire.  Handlers,
  permits, the session store (of which the browser redirect, too, asks) and the issuer
  may keep a request waiting for ever.

`CHECK_DEADLOCK FALSE` appears only where the system really ends: in the runs of
`Shutdown`, and in those of `Server`, whose start may fail.

## Proofs

Every safety invariant and every action property that a passing run checks is also a
theorem, for every value of the constants that the `ASSUME`s allow.  Eight modules
hold them.  Each has the same parts: lemmas on the operators of the model, one lemma
per action or group of actions that keeps `IInv`, `InvariantHolds`, and the
properties as its corollaries.  TLC has checked each `IInv` on the instance of the
runs as well.

`CircuitBreakerProofs`.  The inductive invariant `IInv` ties each counter to the
history it stands for, in the one state in which the breaker reads it:
`failure_count = streak` while closed, `last_failure_age = openFor` while open,
`success_count = good` while half-open.  The safety properties follow from it and
from the case analysis of one operator; none of them is inductive by itself, since
each speaks of history and the code of counters.  `ProbeBudgetHolds` needs the
extra assumption that an episode has fewer calls than the counter has values.  The
thresholds may be 0: the history counts to `AtLeastOne` of each, so the theorems also
say that a threshold of 0 acts as 1.  `OpenWindowIsExactHolds` and `FailsFastHolds`
state in terms of history what the gate says of the window; they are proved only.

`GateProofs`.  `ImplementsGateHolds` is the refinement: the initial states are the
gate's, and each action is a step of the gate or leaves it alone, one lemma per
operator of `BreakerState`.  It needs `Started` (a half-open breaker has admitted at
least its first probe) on top of `IInv`, and the same assumption on the counter's
width, without which a wrapped counter would hand the gate's probes out again.

`ReadinessProofs`.  That all clients share a breaker follows from `OneBreakerEach` (no
two targets are registered with one) and `HoldsItsOwn` (a client holds the breaker its
target is registered with, though it looked it up some steps ago, because an entry is
never replaced).  `StreakCounted` then says, per target, that a closed breaker has
counted the failures of its target and of no other; without the first two a failure
recorded by one client could be missing from, or end up in, the count of another.

`DedupProofs`.  The type invariant includes what a location says about the locals
(`LocationOK`), in particular that the Mutex is held exactly inside
`evict_oldest`.  `NoOrphan` is inductive on top of it; the lemmas `TailKeeps` and
`AppendKeeps` say what popping and pushing do to the index.  `MarkHeld` is not: it
needs `MarkUndisturbed`, that no request on a marked id is between its lookup and
its insert, and `InstantsPast`, that no Instant in use lies in the future (so that
no lookup and no cleanup can take a live mark for an expired one).

`ShutdownProofs`.  The invariant orders the signal task (token, then `Initiated`,
then anything else), keeps the sleep of `start` behind the history's clock, and
keeps receivers behind the channel.

`JwksProofs`.  `CachedForCause`: every key in the cache was built from a document
published so far, whichever refresh stored it and however late; `UnderWay`: what a task
has in hand is such a document.  `AcceptedForCause` needs both, since a token is
accepted by the cache of an instant at which the issuer may have moved on.
`BuiltFromDocument` and `DecodedForCause` are the lemmas on `build_keys` and on the
checks of a token, with those the code leaves out when a claim is absent.

`OidcSessionProofs`.  `SoundRecord` is about one record and the past: its verifier,
state and nonce are of one login unless that login was torn, and its tokens were
granted to completed logins, to one if the provider treats all logins alike
(`Uniform`).  It holds of every record, the stored ones and the copies of the requests
in progress (`ProperRequest`): since a request writes its whole copy back, the stored
ones alone are not inductive.  The `Past` only grows, and `SoundRecord` survives its
growth, so that a copy that was loaded long ago is still sound when it is written.
`IdentityForCause` and `FailedCallbackIsHarmless` are properties of steps; the first
holds across the awaited signature check because the copy under verification is sound,
the second needs that a refused callback never modified its copy.

`ServerProofs`.  `StagesInOrder` says what start-up has established: the configuration
was validated, and after step k of `setup_middleware` the router is `BuiltUpTo` k: it
has the paths of the steps so far (`Added`), and each path carries those of the asked-for
layers whose steps came later than its own, in the order of the steps (`Carries`).
There is one lemma per `setup_*` method, and they are composed in the order of the
source, for every configuration and every set of application routes.  From the final
router follow `ValidatedBuilds` (a validated configuration makes `setup_middleware` panic
for the reasons in `Unbuildable` and no other, for the first router of a process and for
every later one), `DependenciesMet` and the guards.  A request adds
`RequestOnItsWay` (it passes the layers of its path), `Authenticated` (what it has when
it is past a layer that authenticates, and that nothing inside the bearer layer
replaces the identity, which is what `BearerWins` needs) and `AnsweredInside` (but for
a panic, what answers is inside the layer that puts the request id on the answer, for
`Traceable`).  Besides the constants' types, the theorems assume only that the two
words for "no request" and "any other path" are not paths (`SettingsAssumption`), and
that routes are paths and a process that had a router has a recorder
(`StackAssumption`).

Only model-checked: the liveness properties (`Recovers`, `ReadyAgain`, `CheckReturns`,
`ShutdownCompletes`, `StartupEnds`, `CacheCatchesUp`, `AnsweredInTime`), which are out
of the proof system's reach.  `ClassificationsAgree` (of `ErrorKinds`) is an assumption
without constants, which TLC evaluates.  The five claims that runs refute are not
theorems, of course.

## Plan

All components with behaviour of their own are modelled, and every safety property
checked is proved.  What would say more about the system, in this order:

1. Each breaker of the registry implements `Gate` for its target, as the single breaker
   of `CircuitBreaker` does: the operators of `BreakerState` are the same, so the lemmas
   of `GateProofs` carry over.
2. Action properties that the invariants already contain, as theorems of their own:
   which steps may write the store of sessions, which may replace an identity, that a
   spent code or refresh token stays spent.
3. What the modules do to each other: a shutdown that arrives while requests wait for a
   permit or hold a deduplication mark; a refresh of `Jwks` inside the request timeout
   of `Server`.
4. The version a request selects (`utils.rs`), as an operator with its reference
   definition.

## What is not modelled, and why

* The API version a request selects, the generation of request ids: pure functions of
  one header, covered by their tests.
* `setup_opentelemetry`, `with_session_store`, and routes the application registers
  after `setup_middleware`.
* The length of the delays between retries (`RetryPolicy::backoff`): no property
  depends on it.
* Metrics, logging, OpenAPI: they build values for other libraries.
* Deserialization of TOML (serde's work), TLS, HTTP, cryptography, the SQL and Redis
  protocols: in other libraries.  Signatures, seals and tokens are modelled by what
  they distinguish.

## Other disagreements met while modelling

No run is about these; they are noted for whoever maintains the documentation or the
code.  The first group concerns properties that the runs and the proofs state as the code
keeps them, which is less than the documentation says.

* **Deduplication window** (`MarkHeld`).  `docs/features/deduplication.md:165` says that an
  id is "remembered after a request completes", `src/fluent/request.rs:171` that a
  duplicate "returns the cached response".  The window counts from the arrival
  (`dedup.rs:73`, `:105`): a request that takes longer than ttl is forgotten while it is
  processed.  No response is cached or awaited; a duplicate gets 409.
* **Eviction of a fresh mark** (`MarkHeld` says nothing of evicted marks).
  `evict_oldest` compares the sequence numbers, drops the reference and removes by key
  (`dedup.rs:127`).  An id that expires and is marked again in between loses its new
  mark, whose record is at the back of the index, against the comment at `dedup.rs:116`.
* **Tokens without `aud` or `iss`** (`AcceptedForCause`).  They are accepted whatever is
  configured, since `oidc_bearer.rs:177-183` leaves the required claims at the expiry;
  `src/config/http/oidc.rs:111` and `docs/features/keycloak.md:454` speak of the expected
  audiences and disable the check only when none is configured.
* **Refresh token of an earlier login** (`OneGrant`, `IdentityForCause`).
  `oidc_flow.rs:438` writes the refresh token only if the answer has one and leaves an
  earlier login's in the record, so a later refresh continues the earlier login under
  the new one's session.
* **Discarded write errors** (`LoginIsWhole`).  `oidc_flow.rs:335-341` discards the error
  of each insert: when the store fails for some of them the browser is still sent to the
  provider, with a login whose callback must fail.
* **Signature of the ID token.**  The comment at `features.rs:73-77` says that the identity
  is rebuilt from the session "without re-verifying its signature"; `oidc_flow.rs:584-601`
  verifies it on every request, which is what `Verify` models.
* **Trust anchors of proxy headers** (`ProxyTrusted`).
  `src/config/http/proxy_oidc.rs:90-93` honours the headers "only if the request carries a
  matching secret", `:73-77` only from the ranges.  With both configured either is enough
  (`src/fluent/proxy_oidc.rs:62-80`).
* **Protected directories in the code flow** (`GuardedHandlers` is about the other modes).
  With `redirect_uri` set the bearer layer lets a request without a token pass, and the
  browser redirect skips every mapped directory (`auth.rs:336`), so protected files are
  served to anyone, against `src/config/http/staticdir.rs:20-30` and
  `docs/features/static-files.md:148`.
* **Token without a subject** (`BearerWins` is about tokens with one).  It is accepted
  and leaves the session's identity in place.
* **Panics on validated configurations** (`ValidatedBuilds` lists them).  Credentials with a
  "*" among the allowed origins, headers or methods are said not to be allowed
  (`features.rs:580`, `src/config/http/cors.rs:12`, `:33`) but pass validation and panic in
  `CorsLayer`; a second router of a process with the default recorder panics
  (`observability.rs:233`), and one with customized metrics serves them at the path of
  the first (`:198-201`).
* **Secrets of spaces.**  A client secret, a password and an API key of spaces pass their
  `is_empty()` checks, a signing key of 32 spaces its check of the length; the proxy's
  secret is trimmed.
* **Skipped paths.**  `browser_redirect.rs:50` skips by prefix, so an application path that
  begins with a skipped one, "/apple" with a directory at "/app", is not redirected.

The others:

* The path normalization layer is added with `layer`, so it runs after routing and
  cannot change which route is taken (`docs/middleware/features.md:147-160` says it
  does), and it does not look at `trim_trailing_slash`.
* With several `allowed_origins` the CORS layer keeps the last one only.
* The version regex for query strings needs `?` or `&` before `version=`, but is
  applied to the query without its `?`, so it misses the first parameter.
* Answers of the liveness probe, of a fallback directory and of a caught panic carry no
  request id (`docs/middleware/overview.md:487`), those of the timeout, the rate limit
  and a caught panic no security headers (`overview.md:492`).
* The concurrency limit makes requests wait; it never answers 503.
* A save after a concurrent delete of a session is an upsert and brings it back.
* A JWK without an algorithm is taken for RS256.
* `half_open_calls` counts rejected calls too; after 2^32 of them in one episode the
  wrapped counter admits probes again.
* Overshoot of the deduplication cache's `max_entries` by concurrent requests can
  persist after they are done.
* `GracePeriodEnded` can reach a subscriber before `GracePeriodStarted`, since two tasks
  emit them.
