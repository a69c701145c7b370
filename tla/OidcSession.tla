---------------------------- MODULE OidcSession ----------------------------
(***************************************************************************)
(* The browser side of OpenID Connect (src/src/fluent/oidc_flow.rs,        *)
(* browser_redirect.rs, session_store.rs): login, callback, logout and the *)
(* session_to_identity middleware, run by concurrent requests of one       *)
(* browser on one session.                                                 *)
(*                                                                         *)
(* A request loads the session record once, works on a copy, and writes    *)
(* the whole copy back when it answers (tower-sessions, external): the     *)
(* last writer wins.  Between the load and the write it may call the       *)
(* provider, which spends authorization codes and, when it rotates them,   *)
(* refresh tokens.  A crash loses the requests in progress and keeps what  *)
(* they spent.  Every access to an external store may fail: a handler      *)
(* discards the error of a write into the record, and the record, loaded   *)
(* lazily, is asked for again by the next.                                 *)
(*                                                                         *)
(* Secrets are numbers: the n-th login has verifier, state and nonce n, and *)
(* the g-th answer of the token endpoint has access, ID and refresh token  *)
(* g.  0 is "not in the record".                                           *)
(***************************************************************************)
EXTENDS Integers, Sequences, FiniteSets

CONSTANTS
    Requests,       \* concurrent requests of the browser
    Ids,            \* session ids
    NoId,           \* no session id
    Keys,           \* session_signing_key of successive deployments
    External,       \* Postgres or Redis store; otherwise MemoryStore
    Html,           \* do page requests accept text/html (a browser, not an API client)?
    MaxLogins,      \* bound: logins started
    MaxTokens       \* bound: answers of the token endpoint

ASSUME SessionAssumption ==
    /\ NoId \notin Ids
    /\ Keys # {}
    /\ Html \in BOOLEAN /\ External \in BOOLEAN
    /\ MaxLogins \in Nat /\ MaxTokens \in Nat

VARIABLES
    store,      \* the session store: per id, the record, its seal and its expiry
    cookie,     \* the browser's session cookie
    key,        \* the signing key of this deployment
    req,        \* the requests in progress
    codes,      \* provider: authorization code of each login, issued when the user signs in
    grants,     \* provider: the login behind each answer of the token endpoint
    refreshable,\* provider: refresh tokens it still honours
    stale,      \* access tokens within 30 s of their recorded expiry, or past it
    distrusted, \* ID tokens whose signature check answers Invalid
    offline,    \* history: did the answers to logins have a refresh token?
    torn,       \* history: logins of which a part was not written
    completed   \* history: logins whose callback found all of their parts

provider == <<codes, grants, refreshable>>
clocks == <<stale, distrusted>>
history == <<offline, torn, completed>>
vars == <<store, cookie, key, req, provider, clocks, history>>

Logins == 1 .. MaxLogins
LoginOrNone == {0} \cup Logins
Issued == 1 .. Len(grants)

\* The keys of the session record.
Empty == [pkce |-> 0, csrf |-> 0, nonce |-> 0, access |-> 0, refresh |-> 0,
          id_token |-> 0, expiry |-> 0, return_url |-> FALSE]

Records == [pkce: 0 .. MaxLogins, csrf: 0 .. MaxLogins, nonce: 0 .. MaxLogins,
            access: 0 .. MaxTokens, refresh: 0 .. MaxTokens,
            id_token: 0 .. MaxTokens, expiry: 0 .. MaxTokens, return_url: BOOLEAN]

Absent == [rec |-> Empty, seal |-> NoId, expired |-> FALSE]

Idle == [pc |-> "idle", kind |-> "none", n |-> 0, sent |-> FALSE, id |-> NoId,
         rec |-> Empty, modified |-> FALSE, out |-> "none", who |-> 0]
-----------------------------------------------------------------------------
(* The session store *)

\* seal: the HMAC tag is the key it was made with.  A save is an upsert.
save(rec) == [rec |-> rec, seal |-> key, expired |-> FALSE]

\* load finds a record: it is there, has not expired (the WHERE clause, EXAT)
\* and its tag verifies under this key (open).
loads(i) == i # NoId /\ store[i].seal = key /\ ~store[i].expired

\* A request's own view of the session: an id that does not load is dropped.
Loaded(i) ==
    IF loads(i) THEN [id |-> i, rec |-> store[i].rec]
    ELSE [id |-> NoId, rec |-> Empty]
-----------------------------------------------------------------------------
(* What the handlers write into the record. *)

\* Defective variant: the nonce is drawn again after the url was built.
LoginRedrawsNonce(rec, n, lost) ==
    [rec EXCEPT !.pkce = n, !.csrf = n, !.nonce = IF lost < 3 THEN n + 1 ELSE @]

\* login_handler: verifier, state and nonce, in this order.  The first `lost`
\* writes fail because the record cannot be loaded; once it is, none does.
LoginWritten(rec, n, lost) ==
    [rec EXCEPT !.pkce = IF lost < 1 THEN n ELSE @,
                !.csrf = IF lost < 2 THEN n ELSE @,
                !.nonce = IF lost < 3 THEN n ELSE @]

\* Defective variant: the login's state outlives the callback.
CallbackKeepsNonce(rec, g, with_refresh) ==
    [rec EXCEPT !.access = g, !.refresh = IF with_refresh THEN g ELSE @,
                !.id_token = g, !.expiry = g,
                !.pkce = 0, !.csrf = 0, !.return_url = FALSE]

\* callback_handler: the tokens in (the refresh token only if the answer has
\* one), the login's state and the return url out.
CallbackWritten(rec, g, with_refresh) ==
    [rec EXCEPT !.access = g, !.refresh = IF with_refresh THEN g ELSE @,
                !.id_token = g, !.expiry = g,
                !.pkce = 0, !.csrf = 0, !.nonce = 0, !.return_url = FALSE]

\* Defective variant: the new expiry is not stored.
RefreshKeepsExpiry(rec, g, with_refresh, with_id) ==
    [rec EXCEPT !.access = g, !.refresh = IF with_refresh THEN g ELSE @,
                !.id_token = IF with_id THEN g ELSE @]

\* session_to_identity after refresh_tokens: the answer may leave out the refresh
\* token (it is not rotated) and the ID token.
RefreshWritten(rec, g, with_refresh, with_id) ==
    [rec EXCEPT !.access = g, !.refresh = IF with_refresh THEN g ELSE @,
                !.id_token = IF with_id THEN g ELSE @, !.expiry = g]

\* Defective variant: the ID token's nonce is not looked at.
AnyNonce(rec, n) == TRUE

\* id_token.claims: the nonce of the n-th login's ID token is the record's.
NonceMatches(rec, n) == rec.nonce = n

\* is_expired: a record without an expiry never is.
is_expired(rec) == rec.expiry # 0 /\ rec.expiry \in stale

-----------------------------------------------------------------------------
(* Steps of a request.  Its cookie and the record it names are read when it    *)
(* arrives: nothing of the request happens in between.                         *)

Step(r, f) == req' = [req EXCEPT ![r] = f]

\* browser_redirect_middleware: an anonymous page request of a browser leaves
\* the url to come back to; an API client's goes on to the handler.
Anonymous(q, out) ==
    IF Html THEN [q EXCEPT !.pc = "respond", !.out = out, !.modified = TRUE,
                           !.rec = [@ EXCEPT !.return_url = TRUE]]
    ELSE [q EXCEPT !.pc = "respond", !.out = out]

\* session_to_identity after the expiry check: the ID token is read, if there is
\* one, and its signature check awaited.
Checking(q) == IF q.rec.id_token = 0 THEN Anonymous(q, "anonymous")
               ELSE [q EXCEPT !.pc = "verify"]

\* A request arrives with the browser's cookie, and loads its record.
Arriving(kind, n) ==
    [Idle EXCEPT !.kind = kind, !.n = n, !.sent = cookie # NoId,
                 !.id = Loaded(cookie).id, !.rec = Loaded(cookie).rec]

\* A request whose record could not be loaded keeps its id.
Unloaded(kind, n) == [Idle EXCEPT !.kind = kind, !.n = n, !.sent = TRUE, !.id = cookie]

\* Only a request with a cookie asks the store, and MemoryStore always answers.
MayFail == External /\ cookie # NoId

\* login_handler: a new login, and a redirect to the provider whatever could be
\* written.
Login(r) ==
    /\ req[r] = Idle
    /\ \E n \in Logins, lost \in 0 .. 3 :
         /\ codes[n] = "none"
         /\ \A l \in Logins : l < n => codes[l] # "none"
         /\ lost > 0 => MayFail
         /\ LET q == IF lost = 3 THEN Unloaded("login", 0) ELSE Arriving("login", 0)
            IN  Step(r, [q EXCEPT !.pc = "respond", !.out = "authorize",
                                  !.modified = lost < 3,
                                  !.rec = LoginWritten(@, n, lost)])
         /\ codes' = [codes EXCEPT ![n] = "issued"]
         /\ torn' = IF lost = 0 THEN torn ELSE torn \cup {n}
    /\ UNCHANGED <<store, cookie, key, grants, refreshable, clocks, offline, completed>>

\* callback_handler up to the exchange.  The user has signed in, and the provider's
\* redirect brings the code and the state of the login, perhaps again: state,
\* verifier and nonce must be there and the state must match; otherwise 401 and
\* nothing is written.
Callback(r, n) ==
    /\ req[r] = Idle
    /\ codes[n] \in {"issued", "used"}
    /\ LET q == Arriving("callback", n)
           matches == q.rec.csrf = n /\ q.rec.pkce # 0 /\ q.rec.nonce # 0
       IN  Step(r, [q EXCEPT !.pc = IF matches THEN "exchange" ELSE "respond",
                             !.out = IF matches THEN "none" ELSE "401"])
    /\ UNCHANGED <<store, cookie, key, provider, clocks, history>>

\* The exchange succeeds: the code is fresh and the verifier the login's own, and
\* the ID token carries the nonce of the record (or the handler answers 401).
Exchange(r) ==
    /\ req[r].pc = "exchange"
    /\ codes[req[r].n] = "issued"
    /\ req[r].rec.pkce = req[r].n
    /\ Len(grants) < MaxTokens
    /\ grants' = Append(grants, req[r].n)
    /\ \E with_refresh \in BOOLEAN :
         LET g == Len(grants) + 1
         IN  /\ refreshable' = IF with_refresh THEN refreshable \cup {g} ELSE refreshable
             /\ offline' = offline \cup {with_refresh}
             /\ Step(r, IF NonceMatches(req[r].rec, req[r].n)
                        THEN [req[r] EXCEPT !.pc = "respond", !.out = "redirect",
                                            !.modified = TRUE,
                                            !.rec = CallbackWritten(@, g, with_refresh)]
                        ELSE [req[r] EXCEPT !.pc = "respond", !.out = "401"])
    /\ codes' = [codes EXCEPT ![req[r].n] = "used"]
    /\ completed' = IF req[r].rec.nonce = req[r].n /\ req[r].rec.csrf = req[r].n
                    THEN completed \cup {req[r].n} ELSE completed
    /\ UNCHANGED <<store, cookie, key, clocks, torn>>

\* Defective variant: a failed exchange ends the session.
ExchangeFailsFlushing(r) ==
    /\ req[r].pc = "exchange"
    /\ Step(r, [req[r] EXCEPT !.pc = "flush", !.out = "401"])
    /\ UNCHANGED <<store, cookie, key, provider, clocks, history>>

\* The exchange fails: code spent, verifier wrong, provider unreachable, no ID
\* token in the answer.
ExchangeFails(r) ==
    /\ req[r].pc = "exchange"
    /\ Step(r, [req[r] EXCEPT !.pc = "respond", !.out = "401"])
    /\ UNCHANGED <<store, cookie, key, provider, clocks, history>>

\* logout_handler: load for the hint, then flush and redirect.
Logout(r) ==
    /\ req[r] = Idle
    /\ Step(r, [Arriving("logout", 0) EXCEPT !.pc = "flush", !.out = "redirect"])
    /\ UNCHANGED <<store, cookie, key, provider, clocks, history>>

\* session_to_identity up to its first await of the issuer.
Page(r) ==
    /\ req[r] = Idle
    /\ LET q == Arriving("page", 0)
       IN  Step(r, CASE q.rec.access = 0 -> Anonymous(q, "anonymous")
                     [] q.rec.access # 0 /\ ~is_expired(q.rec) -> Checking(q)
                     [] OTHER -> [q EXCEPT !.pc = IF q.rec.refresh # 0 THEN "refresh"
                                                  ELSE "flush",
                                           !.out = "expired"])
    /\ UNCHANGED <<store, cookie, key, provider, clocks, history>>

\* The store does not answer a request's first read: a callback is refused, a
\* logout goes on without the hint, a page request without identity, and the
\* return url is written if the store answers by then.
LoadFails(r) ==
    /\ req[r] = Idle
    /\ MayFail
    /\ \/ \E n \in Logins :
            /\ codes[n] \in {"issued", "used"}
            /\ Step(r, [Unloaded("callback", n) EXCEPT !.pc = "respond", !.out = "401"])
       \/ Step(r, [Unloaded("logout", 0) EXCEPT !.pc = "flush", !.out = "redirect"])
       \/ Step(r, [Unloaded("page", 0) EXCEPT !.pc = "respond", !.out = "anonymous"])
       \/ Html /\ Step(r, Anonymous(Arriving("page", 0), "anonymous"))
    /\ UNCHANGED <<store, cookie, key, provider, clocks, history>>

\* refresh_tokens succeeds: the provider honours the refresh token, and spends it
\* if its answer has a new one.
Refresh(r) ==
    /\ req[r].pc = "refresh"
    /\ req[r].rec.refresh \in refreshable
    /\ Len(grants) < MaxTokens
    /\ grants' = Append(grants, grants[req[r].rec.refresh])
    /\ \E with_refresh \in BOOLEAN, with_id \in BOOLEAN :
         LET g == Len(grants) + 1
             spent == req[r].rec.refresh
         IN  /\ refreshable' = IF with_refresh THEN (refreshable \ {spent}) \cup {g}
                               ELSE refreshable
             /\ Step(r, Checking([req[r] EXCEPT !.modified = TRUE, !.out = "none",
                             !.rec = RefreshWritten(@, g, with_refresh, with_id)]))
    /\ UNCHANGED <<store, cookie, key, codes, clocks, history>>

\* The answer of the signature check, which the request awaited since it looked at
\* the expiry: a forged token ends the session, any other makes the identity.
Verify(r) ==
    /\ req[r].pc = "verify"
    /\ Step(r, IF req[r].rec.id_token \in distrusted
               THEN [req[r] EXCEPT !.pc = "flush", !.out = "forged"]
               ELSE [req[r] EXCEPT !.pc = "respond", !.out = "identity",
                                   !.who = grants[req[r].rec.id_token]])
    /\ UNCHANGED <<store, cookie, key, provider, clocks, history>>

\* refresh_tokens fails: token spent or provider unreachable.
RefreshFails(r) ==
    /\ req[r].pc = "refresh"
    /\ Step(r, [req[r] EXCEPT !.pc = "flush", !.out = "refresh_failed"])
    /\ UNCHANGED <<store, cookie, key, provider, clocks, history>>

\* Session::flush: the record is emptied, deleted from the store and loses its
\* id, which it keeps when the store refuses; a page request goes on without an
\* identity.
flush(r) ==
    /\ req[r].pc = "flush"
    /\ \E deleted \in BOOLEAN :
         /\ ~deleted => External /\ req[r].id # NoId
         /\ store' = IF deleted /\ req[r].id # NoId
                     THEN [store EXCEPT ![req[r].id] = Absent] ELSE store
         /\ LET q == [req[r] EXCEPT !.rec = Empty, !.modified = TRUE,
                                    !.id = IF deleted THEN NoId ELSE @]
            IN  Step(r, IF q.kind = "page" THEN Anonymous(q, q.out)
                        ELSE [q EXCEPT !.pc = "respond"])
    /\ UNCHANGED <<cookie, key, provider, clocks, history>>

\* is_empty
Emptied(q) == q.id = NoId /\ q.rec = Empty

\* The session layer on the way out (tower-sessions): an empty session removes
\* the cookie; a modified one is saved, under a new id if it has none, unless
\* the handler failed (5xx).  When the save fails the answer is a 500.
Respond(r, failed) ==
    /\ req[r].pc = "respond"
    /\ failed => req[r].kind = "page" \/ External
    /\ \/ /\ Emptied(req[r])
          /\ cookie' = IF req[r].sent THEN NoId ELSE cookie
          /\ UNCHANGED store
       \/ /\ ~Emptied(req[r]) /\ (~req[r].modified \/ failed)
          /\ UNCHANGED <<store, cookie>>
       \/ /\ ~Emptied(req[r]) /\ req[r].modified /\ ~failed
          /\ \E i \in Ids :
               /\ IF req[r].id # NoId THEN i = req[r].id
                  ELSE /\ store[i] = Absent
                       /\ cookie # i
                       /\ \A p \in Requests : req[p].id # i
               /\ store' = [store EXCEPT ![i] = save(req[r].rec)]
               /\ cookie' = i
    /\ Step(r, Idle)
    /\ UNCHANGED <<key, provider, clocks, history>>
-----------------------------------------------------------------------------
(* Time, the provider, the deployment *)

\* An access token comes within 30 s of its expiry; the provider grants every
\* token the same lifetime, so the older ones have.
Expire(g) ==
    /\ g \notin stale
    /\ \A e \in Issued : e < g => e \in stale
    /\ stale' = stale \cup {g}
    /\ UNCHANGED <<store, cookie, key, req, provider, distrusted, history>>

\* The issuer replaces the key behind a key id: ID tokens signed with the old
\* one no longer verify.
Distrust ==
    /\ distrusted = {}
    /\ distrusted' = Issued
    /\ Issued # {}
    /\ UNCHANGED <<store, cookie, key, req, provider, stale, history>>

\* A record is not used for an hour.  A request that has loaded it is over by
\* then, for the request timeout is shorter.
Lapse(i) ==
    /\ \A r \in Requests : req[r] = Idle
    /\ store[i] # Absent /\ ~store[i].expired
    /\ store' = [store EXCEPT ![i].expired = TRUE]
    /\ UNCHANGED <<cookie, key, req, provider, clocks, history>>

\* The cleanup task of the Postgres store; Redis and MemoryStore do it themselves.
delete_expired ==
    /\ \E i \in Ids : store[i].expired
    /\ store' = [i \in Ids |-> IF store[i].expired THEN Absent ELSE store[i]]
    /\ UNCHANGED <<cookie, key, req, provider, clocks, history>>

\* The server crashes and is deployed again, perhaps with another signing key.
Restart(k) ==
    /\ key' = k
    /\ req' = [r \in Requests |-> Idle]
    /\ store' = IF External THEN store ELSE [i \in Ids |-> Absent]
    /\ UNCHANGED <<cookie, provider, clocks, history>>

Init ==
    /\ store = [i \in Ids |-> Absent]
    /\ cookie = NoId
    /\ key \in Keys
    /\ req = [r \in Requests |-> Idle]
    /\ codes = [n \in Logins |-> "none"]
    /\ grants = << >>
    /\ refreshable = {}
    /\ stale = {}
    /\ distrusted = {}
    /\ offline = {} /\ torn = {} /\ completed = {}

Handle(r) ==
    \/ Exchange(r) \/ ExchangeFails(r)
    \/ Refresh(r) \/ RefreshFails(r) \/ Verify(r) \/ flush(r)
    \/ \E failed \in BOOLEAN : Respond(r, failed)

Next ==
    \/ \E r \in Requests :
         \/ Login(r) \/ Logout(r) \/ Page(r) \/ LoadFails(r)
         \/ \E n \in Logins : Callback(r, n)
         \/ Handle(r)
    \/ \E g \in Issued : Expire(g)
    \/ Distrust
    \/ \E i \in Ids : Lapse(i)
    \/ delete_expired
    \/ \E k \in Keys : Restart(k)

Spec == Init /\ [][Next]_vars

-----------------------------------------------------------------------------
(* Properties *)

\* Every record there is: stored, or the copy of a request in progress.
AllRecords == {store[i].rec : i \in Ids} \cup {req[r].rec : r \in Requests}

Kinds == {"none", "login", "callback", "logout", "page"}

Outcomes == {"none", "authorize", "401", "redirect", "anonymous", "identity",
             "expired", "forged", "refresh_failed"}

Progress == [pc: {"idle", "exchange", "refresh", "verify", "flush", "respond"},
             kind: Kinds,
             n: LoginOrNone, sent: BOOLEAN, id: Ids \cup {NoId}, rec: Records,
             modified: BOOLEAN,
             out: Outcomes,
             who: LoginOrNone]

\* Type invariant of the session store, the requests and the provider.
TypeOK ==
    /\ store \in [Ids -> [rec: Records, seal: Keys \cup {NoId}, expired: BOOLEAN]]
    /\ cookie \in Ids \cup {NoId}
    /\ key \in Keys
    /\ req \in [Requests -> Progress]
    /\ codes \in [Logins -> {"none", "issued", "used"}]
    /\ grants \in Seq(Logins) /\ Len(grants) <= MaxTokens
    /\ refreshable \subseteq Issued /\ stale \subseteq Issued
    /\ distrusted \subseteq Issued
    /\ offline \subseteq BOOLEAN /\ torn \subseteq Logins /\ completed \subseteq Logins

\* Verifier, state and nonce of a record come from one login, whatever logins and
\* callbacks overlap and whichever writes last, and are gone together once a
\* callback has used them; unless the store failed in the midst of the login that
\* wrote last.
LoginIsWhole ==
    \A rec \in AllRecords :
        rec.nonce \notin torn => rec.pkce = rec.csrf /\ rec.csrf = rec.nonce

\* The provider treats all logins alike: each gets a refresh token, or none does.
Uniform == offline # BOOLEAN

\* The tokens of a record belong together: the expiry is the access token's, and
\* access, refresh and ID token were granted to one login, if the provider treats
\* all logins alike.
OneGrant ==
    \A rec \in AllRecords :
        /\ rec.access = rec.expiry
        /\ rec.access # 0 => rec.id_token # 0
        /\ \A t \in {rec.refresh, rec.id_token} \ {0} :
              Uniform => grants[t] = grants[rec.access]

\* An identity is given only to a user who signed in through this browser: some
\* callback found that login's verifier, state and nonce together in the record,
\* whatever was torn, overwritten or refreshed since, and the access token that
\* goes with the identity is the same user's if the provider treats all logins
\* alike.
IdentityForCause ==
    [][\A r \in Requests :
        req'[r].out = "identity" /\ req[r].out # "identity" =>
            /\ req'[r].who \in completed
            /\ Uniform => grants[req'[r].rec.access] = req'[r].who]_vars

\* A callback that fails -- a second delivery of the same redirect, a stale tab,
\* a spent code -- leaves the store as it is: its own steps cannot undo the login
\* that another callback completed, though it loaded an older record.
FailedCallbackIsHarmless ==
    [][\A r \in Requests :
        req[r].kind = "callback" /\ req[r].out = "401" /\ Handle(r) => store' = store]_vars

\* "Expired access tokens are automatically refreshed using the refresh token": a
\* session does not end because its own server spent the refresh token first.
RefreshIsTransparent ==
    \A r \in Requests :
        req[r].out = "refresh_failed" /\ req[r].pc = "flush"
            => req[r].rec.refresh \in refreshable

-----------------------------------------------------------------------------
\* The inductive invariant.  A record that is stored or in hand has the parts of
\* one login, and tokens that the provider granted to completed logins; to one, if
\* it treats all logins alike.
Past == [grants |-> grants, offline |-> offline, torn |-> torn, completed |-> completed]

SoundRecord(rec, past) ==
    /\ rec.nonce \notin past.torn => rec.pkce = rec.csrf /\ rec.csrf = rec.nonce
    /\ rec.access = rec.expiry
    /\ {rec.access, rec.refresh, rec.id_token} \subseteq 0 .. Len(past.grants)
    /\ rec.access = 0 => rec.id_token = 0 /\ rec.refresh = 0
    /\ rec.access # 0 =>
          /\ rec.id_token # 0 /\ past.grants[rec.id_token] \in past.completed
          /\ past.offline # BOOLEAN => past.grants[rec.id_token] = past.grants[rec.access]
    /\ rec.refresh # 0 =>
          /\ TRUE \in past.offline /\ past.grants[rec.refresh] \in past.completed
          /\ past.offline # BOOLEAN => past.grants[rec.refresh] = past.grants[rec.access]

\* A callback has nothing to write until its exchange succeeds, and an ID token
\* under verification comes with an access token.
ProperRequest(q, past) ==
    /\ SoundRecord(q.rec, past)
    /\ q.pc = "exchange" =>
          /\ q.kind = "callback" /\ q.n \in Logins /\ q.rec.csrf = q.n
          /\ q.out = "none" /\ q.modified = FALSE
    /\ q.pc = "verify" => q.rec.access # 0
    /\ q.pc \in {"refresh", "verify", "flush"} => q.kind # "callback"
    /\ q.kind = "callback" /\ q.out = "401" => q.modified = FALSE

IInv ==
    /\ TypeOK
    /\ \A i \in Ids : SoundRecord(store[i].rec, Past)
    /\ \A r \in Requests : ProperRequest(req[r], Past)
=============================================================================
