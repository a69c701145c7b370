-------------------------------- MODULE Jwks --------------------------------
(***************************************************************************)
(* The key cache of the OIDC provider (src/src/fluent/oidc_bearer.rs) and  *)
(* the retry that fills it at start-up (src/src/resilience.rs).            *)
(*                                                                         *)
(* JwksProvider::new fetches the issuer's key document, retrying transient *)
(* failures.  From then on the document is fetched again by a background   *)
(* task and by every request that meets an unknown key id.  A refresh is a *)
(* fetch and, later, a write of the whole map under its lock; nothing      *)
(* orders the refreshes of different tasks, so the answer to an early      *)
(* fetch may be written after the answer to a later one.                   *)
(*                                                                         *)
(* The router owns the provider as long as it serves, so the background    *)
(* task's weak.upgrade() succeeds in every state modelled here.            *)
(***************************************************************************)
EXTENDS Integers, Sequences, FiniteSets, ErrorKinds

CONSTANTS
    Requests,       \* concurrent requests that carry a token
    Documents,      \* the key documents the issuer publishes, one after another
    Tokens,         \* tokens the requests carry
    Audiences,      \* values of the `aud` claim that may be configured
    MaxAttempts,    \* RetryPolicy::max_attempts
    Refresher,      \* the background task
    NoKid,          \* the key id that is not there
    NoToken,        \* no request in progress
    NoAnswer        \* nothing answered

\* A key of a document.  `key` stands for the key material.
Jwk == [kid: STRING \cup {NoKid}, key: STRING, alg: STRING, parses: BOOLEAN]

ASSUME PolicyAssumption ==
    /\ MaxAttempts \in Nat \ {0}
    /\ Refresher \notin Requests

\* Within one document a key id names one key.
ASSUME DocumentsAssumption ==
    /\ Documents \in Seq(SUBSET Jwk) /\ Len(Documents) > 0
    /\ \A n \in DOMAIN Documents :
          \A i, j \in Documents[n] : i.kid = j.kid /\ i.kid # NoKid => i = j

VARIABLES
    conf,       \* audiences and is_production, fixed at construction
    epoch,      \* the document the issuer publishes now
    reachable,  \* environment: do fetches succeed?
    phase,      \* "fetching" | "serving" | "failed"
    attempt,    \* retry_transient: number of the attempt, from 1
    error,      \* the error the last failed attempt of start-up returned
    keys,       \* the RwLock'ed map: key id -> cached key
    pc,         \* per task: "idle" | "fetch" | "store" | "again"
    tok, path,  \* per request in progress: its token; validate_token or verify_signature
    got,        \* per task between fetch and store: the document it holds
    answer      \* output: what the last step answered to its caller, if anything

startup == <<phase, attempt, error>>
tasks == <<pc, tok, path, got>>
vars == <<conf, epoch, reachable, startup, keys, tasks, answer>>

Tasks == Requests \cup {Refresher}
None == "none"
Absent == "absent"  \* a claim the token does not carry
Issuer == "issuer"  \* the `iss` of the provider
-----------------------------------------------------------------------------
(* The pure parts *)

\* jwk_signing_algorithm, with the fallback of build_keys.
Algorithms ==
    {"HS256", "HS384", "HS512", "ES256", "ES384", "RS256", "RS384", "RS512",
     "PS256", "PS384", "PS512", "EdDSA"}

jwk_signing_algorithm(jwk) == IF jwk.alg \in Algorithms THEN jwk.alg ELSE "RS256"

\* Defective variant: an empty audience list only disables the check.
BuildKeysOpen(doc) ==
    LET usable == {j \in doc : j.kid # NoKid /\ j.parses}
    IN  [k \in {j.kid : j \in usable} |->
            LET jwk == CHOOSE j \in usable : j.kid = k
            IN  [key |-> jwk.key, alg |-> jwk_signing_algorithm(jwk)]]

\* build_keys: nothing at all in production without audiences; otherwise every
\* JWK with a key id that parses.  The validation a key carries is the
\* provider's own issuer and audiences, so only key and algorithm are kept.
build_keys(doc) ==
    LET usable == {j \in doc : j.kid # NoKid /\ j.parses}
    IN  IF conf.audiences = {} /\ conf.is_production THEN << >>
        ELSE [k \in {j.kid : j \in usable} |->
                LET jwk == CHOOSE j \in usable : j.kid = k
                IN  [key |-> jwk.key, alg |-> jwk_signing_algorithm(jwk)]]

\* What jsonwebtoken::decode (external) makes of the Validation: the only required
\* claim is `exp`; `iss` and `aud` are compared when the token carries them.  A
\* token's `exp` is yet to come ("live"), past by no more than the leeway of 60 s
\* ("leeway"), further past ("past") or absent.
Signed(t, cached) ==
    /\ t.key = cached.key /\ t.alg = cached.alg
    /\ t.exp # Absent
    /\ t.iss \in {Issuer, Absent}

\* The validation of validate_token: also the value of `exp`, and `aud` against
\* the configured audiences, if there are any.
decodes(t, cached) ==
    /\ Signed(t, cached)
    /\ t.exp # "past"
    /\ conf.audiences = {} \/ t.aud \in conf.audiences \cup {Absent}

\* claims_to_identity needs a subject; a token without one passes anonymously.
claims_to_identity(t) == IF t.sub THEN "identity" ELSE "anonymous"

\* What the caller learns once the key of the token's key id is at hand.
Decoded(t, p, cached) ==
    CASE p = "bearer" ->
            IF decodes(t, cached) THEN claims_to_identity(t) ELSE "Invalid"
      [] p = "session" ->
            IF Signed(t, cached) THEN "Valid" ELSE "Invalid"

\* Defective variant: an unverifiable token is taken for a forged one.
NotFoundIsInvalid(p) == IF p = "bearer" THEN "KeyNotFound" ELSE "Invalid"

\* The key was not found even after a refresh ...
NotFound(p) == IF p = "bearer" THEN "KeyNotFound" ELSE "Unverifiable"

\* ... or the refresh itself failed.
Unrefreshed(p) == IF p = "bearer" THEN "Invalid" ELSE "Unverifiable"
-----------------------------------------------------------------------------
(* Start-up *)

Init ==
    /\ conf \in [audiences: {{}} \cup {{a} : a \in Audiences}, is_production: BOOLEAN]
    /\ epoch = 1
    /\ reachable \in BOOLEAN
    /\ phase = "fetching"
    /\ attempt = 1
    /\ error = None
    /\ keys = << >>
    /\ pc = [t \in Tasks |-> "idle"]
    /\ tok = [r \in Requests |-> NoToken]
    /\ path = [r \in Requests |-> None]
    /\ got = [t \in Tasks |-> 0]
    /\ answer = NoAnswer

\* fetch_jwks can fail: the network, a 5xx or a broken body (Io), a 4xx or a
\* document that does not parse (Configuration).
fetch_jwks_errors == {"Io", "Configuration"}

\* JwksProvider::new: the attempt succeeded, the provider is built and its
\* background task spawned ...
FirstFetch ==
    /\ phase = "fetching"
    /\ reachable
    /\ keys' = build_keys(Documents[epoch])
    /\ phase' = "serving"
    /\ attempt' = 1 /\ error' = None
    /\ UNCHANGED <<conf, epoch, reachable, tasks, answer>>

\* Defective variants: one attempt too many; every error is retried.
GivesUpLate(e) == attempt > MaxAttempts \/ ~is_transient(e)
GivesUpOnAttempts(e) == attempt >= MaxAttempts

\* The condition on which retry_transient returns the error.
GivesUp(e) == attempt >= MaxAttempts \/ ~is_transient(e)

\* Defective variant: the last error is retried like the others.
FailedFetchRetries(e) ==
    /\ phase = "fetching"
    /\ ~reachable
    /\ error' = e
    /\ attempt' = IF GivesUp(e) THEN attempt ELSE attempt + 1
    /\ UNCHANGED <<conf, epoch, reachable, phase, keys, tasks, answer>>

\* ... or it failed, and retry_transient sleeps (for RetryPolicy::backoff, a
\* time that is not modelled) and tries again, or gives up.
FailedFetch(e) ==
    /\ phase = "fetching"
    /\ ~reachable
    /\ error' = e
    /\ \/ /\ GivesUp(e)
          /\ phase' = "failed"
          /\ UNCHANGED attempt
       \/ /\ ~GivesUp(e)
          /\ attempt' = attempt + 1
          /\ UNCHANGED phase
    /\ UNCHANGED <<conf, epoch, reachable, keys, tasks, answer>>

-----------------------------------------------------------------------------
(* Serving *)

\* The end of validate_token or verify_signature.
Answers(r, t, p, v) ==
    /\ answer' = [tok |-> t, path |-> p, verdict |-> v]
    /\ pc' = [pc EXCEPT ![r] = "idle"]
    /\ tok' = [tok EXCEPT ![r] = NoToken]
    /\ path' = [path EXCEPT ![r] = None]

\* A request enters validate_token (bearer) or verify_signature (session): a
\* token without a readable header or key id is invalid; a cached key decides;
\* an unknown one calls for a refresh.
Lookup(r, t, p) ==
    /\ phase = "serving"
    /\ pc[r] = "idle"
    /\ \/ /\ t.kid = NoKid
          /\ Answers(r, t, p, "Invalid")
       \/ /\ t.kid # NoKid
          /\ t.kid \in DOMAIN keys
          /\ Answers(r, t, p, Decoded(t, p, keys[t.kid]))
       \/ /\ t.kid # NoKid
          /\ t.kid \notin DOMAIN keys
          /\ pc' = [pc EXCEPT ![r] = "fetch"]
          /\ tok' = [tok EXCEPT ![r] = t]
          /\ path' = [path EXCEPT ![r] = p]
          /\ answer' = NoAnswer
    /\ UNCHANGED <<conf, epoch, reachable, startup, keys, got>>

\* The interval of the background task ticks.
Tick ==
    /\ phase = "serving"
    /\ pc[Refresher] = "idle"
    /\ pc' = [pc EXCEPT ![Refresher] = "fetch"]
    /\ answer' = NoAnswer
    /\ UNCHANGED <<conf, epoch, reachable, startup, keys, tok, path, got>>

\* refresh, first half: the issuer answers with the document of the moment ...
Fetch(t) ==
    /\ pc[t] = "fetch"
    /\ reachable
    /\ pc' = [pc EXCEPT ![t] = "store"]
    /\ got' = [got EXCEPT ![t] = epoch]
    /\ answer' = NoAnswer
    /\ UNCHANGED <<conf, epoch, reachable, startup, keys, tok, path>>

\* ... or the fetch fails: the background task waits for its next tick, a
\* request is over.
FetchFails(t) ==
    /\ pc[t] = "fetch"
    /\ ~reachable
    /\ \/ /\ t = Refresher
          /\ pc' = [pc EXCEPT ![t] = "idle"]
          /\ answer' = NoAnswer
          /\ UNCHANGED <<tok, path>>
       \/ /\ t # Refresher
          /\ Answers(t, tok[t], path[t], Unrefreshed(path[t]))
    /\ UNCHANGED <<conf, epoch, reachable, startup, keys, got>>

\* Defective variant: the fetched keys are added to the old ones.
RefreshMerges(t) ==
    /\ pc[t] = "store"
    /\ LET new == build_keys(Documents[got[t]])
       IN  keys' = [k \in DOMAIN keys \cup DOMAIN new |->
                        IF k \in DOMAIN new THEN new[k] ELSE keys[k]]
    /\ got' = [got EXCEPT ![t] = 0]
    /\ pc' = [pc EXCEPT ![t] = IF t = Refresher THEN "idle" ELSE "again"]
    /\ answer' = NoAnswer
    /\ UNCHANGED <<conf, epoch, reachable, startup, tok, path>>

\* refresh, second half: the map is replaced as a whole, whoever wrote it last.
refresh(t) ==
    /\ pc[t] = "store"
    /\ keys' = build_keys(Documents[got[t]])
    /\ got' = [got EXCEPT ![t] = 0]
    /\ pc' = [pc EXCEPT ![t] = IF t = Refresher THEN "idle" ELSE "again"]
    /\ answer' = NoAnswer
    /\ UNCHANGED <<conf, epoch, reachable, startup, tok, path>>

\* The second lookup decides, with whatever map is there by then.
LookupAgain(r) ==
    /\ pc[r] = "again"
    /\ LET kid == tok[r].kid
       IN  Answers(r, tok[r], path[r],
                   IF kid \in DOMAIN keys THEN Decoded(tok[r], path[r], keys[kid])
                   ELSE NotFound(path[r]))
    /\ UNCHANGED <<conf, epoch, reachable, startup, keys, got>>

-----------------------------------------------------------------------------
(* Environment: the issuer rotates its keys, and fetches fail for a while. *)

Rotate ==
    /\ epoch < Len(Documents)
    /\ epoch' = epoch + 1
    /\ answer' = NoAnswer
    /\ UNCHANGED <<conf, reachable, startup, keys, tasks>>

Outage ==
    /\ reachable' = ~reachable
    /\ answer' = NoAnswer
    /\ UNCHANGED <<conf, epoch, startup, keys, tasks>>

Next ==
    \/ FirstFetch
    \/ \E e \in fetch_jwks_errors : FailedFetch(e)
    \/ \E r \in Requests :
         \/ \E t \in Tokens, p \in {"bearer", "session"} : Lookup(r, t, p)
         \/ LookupAgain(r)
    \/ Tick
    \/ \E t \in Tasks : Fetch(t) \/ FetchFails(t) \/ refresh(t)
    \/ Rotate
    \/ Outage

Spec == Init /\ [][Next]_vars

\* The background task is scheduled and its interval ticks.  Requests need not
\* come, nor go on once they wait; the issuer need not rotate.
Fairness == WF_vars(Tick) /\ WF_vars(refresh(Refresher))

FairSpec == Spec /\ Fairness

\* The first fetch and those of the background task come to an end.  The HTTP
\* client has no timeout, so this is up to the issuer and the network.
Responds ==
    /\ WF_vars(FirstFetch \/ \E e \in fetch_jwks_errors : FailedFetch(e))
    /\ WF_vars(Fetch(Refresher) \/ FetchFails(Refresher))
-----------------------------------------------------------------------------
(* Properties *)

Verdicts ==
    {"identity", "anonymous", "Valid", "Invalid", "KeyNotFound", "Unverifiable"}

\* Type invariant of the provider, its start-up and its tasks.
TypeOK ==
    /\ conf \in [audiences: SUBSET Audiences, is_production: BOOLEAN]
    /\ epoch \in DOMAIN Documents
    /\ reachable \in BOOLEAN
    /\ phase \in {"fetching", "serving", "failed"}
    /\ attempt \in 1 .. MaxAttempts
    /\ error \in {None} \cup fetch_jwks_errors
    /\ \A k \in DOMAIN keys : k # NoKid /\ keys[k].alg \in Algorithms
    /\ pc \in [Tasks -> {"idle", "fetch", "store", "again"}]
    /\ tok \in [Requests -> {NoToken} \cup Tokens]
    /\ path \in [Requests -> {None, "bearer", "session"}]
    /\ got \in [Tasks -> {0} \cup DOMAIN Documents]
    /\ answer \in {NoAnswer} \cup
          [tok: Tokens, path: {"bearer", "session"},
           verdict: Verdicts]

\* The JWKs that ever named a key id, up to now.
Published(kid) ==
    {j \in UNION {Documents[n] : n \in 1 .. epoch} : j.kid = kid}

\* A token of the issuer whose key the issuer has published, always under this
\* key id, and declared well enough to be used.
Genuine(t) ==
    /\ t.iss \in {Issuer, Absent} /\ t.exp # Absent
    /\ t.kid # NoKid
    /\ Published(t.kid) # {}
    /\ \A j \in Published(t.kid) :
          j.parses /\ j.key = t.key /\ jwk_signing_algorithm(j) = t.alg

\* verify_signature answers Invalid, on which the caller ends the session, only
\* for a token that is not the issuer's: never because of an outage, a rotation
\* the cache has not seen, or a late document that overwrote a newer one.
NoFalseAlarm ==
    answer # NoAnswer /\ answer.path = "session" /\ answer.verdict = "Invalid"
        => ~Genuine(answer.tok)

\* What speaks for a bearer token: a document published so far names its key and
\* its algorithm, it is not past the leeway of its expiry, and the issuer and
\* audience it names, if it names any, are the configured ones; in production
\* audiences are configured.
Supported(t) ==
    /\ \E j \in Published(t.kid) :
          j.parses /\ j.key = t.key /\ jwk_signing_algorithm(j) = t.alg
    /\ t.exp \notin {"past", Absent}
    /\ t.iss \in {Issuer, Absent}
    /\ IF conf.audiences = {} THEN ~conf.is_production
       ELSE t.aud \in conf.audiences \cup {Absent}

Accepted == answer # NoAnswer /\ answer.verdict \in {"identity", "anonymous"}

\* validate_token accepts a bearer token only for cause, whichever document the
\* cache holds and whatever replaced it between the two lookups.
AcceptedForCause == Accepted => Supported(answer.tok)

\* Start-up fails only on an error that another attempt cannot cure or after
\* exactly max_attempts attempts, and an error that cannot be cured is never
\* retried.
GivesUpForCause ==
    /\ attempt <= MaxAttempts
    /\ phase = "failed" => attempt = MaxAttempts \/ error = "Configuration"
    /\ phase = "fetching" => error # "Configuration"

-----------------------------------------------------------------------------
\* The inductive invariant.  Every cached key stands in a document published so
\* far, whichever refresh stored it; the document a task holds is one of them; a
\* request under way knows its token and its caller.
CachedForCause ==
    /\ \A k \in DOMAIN keys :
          /\ k # NoKid
          /\ \E j \in Published(k) :
                j.parses /\ keys[k] = [key |-> j.key, alg |-> jwk_signing_algorithm(j)]
    /\ conf.audiences = {} /\ conf.is_production => DOMAIN keys = {}

UnderWay ==
    /\ \A t \in Tasks : got[t] <= epoch /\ (pc[t] = "store" => got[t] # 0)
    /\ \A r \in Requests :
          pc[r] # "idle" => tok[r] \in Tokens /\ path[r] \in {"bearer", "session"}

IInv ==
    /\ TypeOK /\ CachedForCause /\ UnderWay
    /\ NoFalseAlarm /\ AcceptedForCause /\ GivesUpForCause

-----------------------------------------------------------------------------
\* Start-up ends, however the issuer comes and goes, as long as each attempt ends.
StartupEnds == Responds => <>(phase # "fetching")

\* Once the issuer stays reachable, the cache ends up as its current document
\* and stays so: a late answer that overwrote a newer one is itself replaced,
\* and a withdrawn key does not come back, though requests may hang for ever
\* with an old document in hand.
CacheCatchesUp ==
    Responds /\ <>[]reachable =>
        <>(phase = "failed") \/ <>[](keys = build_keys(Documents[epoch]))
=============================================================================
