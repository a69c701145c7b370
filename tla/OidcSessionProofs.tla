-------------------------- MODULE OidcSessionProofs --------------------------
(***************************************************************************)
(* Proofs about the browser's sessions, for any number of requests and     *)
(* session ids, any provider and any number of logins and tokens.          *)
(***************************************************************************)
EXTENDS OidcSession, SequenceTheorems, TLAPS

Pasts == [grants: Seq(Logins), offline: SUBSET BOOLEAN, torn: SUBSET Logins,
          completed: SUBSET Logins]

\* What was granted and seen stays so.
Grown(old, new) ==
    /\ Len(old.grants) <= Len(new.grants)
    /\ \A g \in 1 .. Len(old.grants) : new.grants[g] = old.grants[g]
    /\ old.offline \subseteq new.offline /\ old.torn \subseteq new.torn
    /\ old.completed \subseteq new.completed

-----------------------------------------------------------------------------
(* Records *)

\* The empty record is typed, and sound whatever was granted.
LEMMA EmptyRecord ==
    ASSUME NEW past \in Pasts
    PROVE  Empty \in Records /\ SoundRecord(Empty, past)
  <1>1. Len(past.grants) \in Nat
    BY LenProperties DEF Pasts
  <1>2. QED
    BY <1>1, SessionAssumption DEF Empty, Records, SoundRecord

\* The request that is not there.
LEMMA IdleRequest ==
    ASSUME NEW past \in Pasts
    PROVE  Idle \in Progress /\ ProperRequest(Idle, past) /\ Idle.out = "none"
  <1>1. Idle \in Progress
    BY EmptyRecord, SessionAssumption DEF Idle, Progress, Kinds, Outcomes, LoginOrNone
  <1>2. QED
    BY <1>1, EmptyRecord DEF Idle, ProperRequest

\* login_handler replaces the three secrets of a login together, or the login is
\* known to be torn.
LEMMA LoginKeeps ==
    ASSUME NEW rec \in Records, NEW n \in Logins, NEW lost \in 0 .. 3,
           NEW past \in Pasts, SoundRecord(rec, past), lost # 0 => n \in past.torn
    PROVE  /\ LoginWritten(rec, n, lost) \in Records
           /\ SoundRecord(LoginWritten(rec, n, lost), past)
  <1>1. n \in 0 .. MaxLogins
    BY SessionAssumption DEF Logins
  <1>2. PICK p, c, h :
          /\ LoginWritten(rec, n, lost) = [rec EXCEPT !.pkce = p, !.csrf = c, !.nonce = h]
          /\ p \in {n, rec.pkce} /\ c \in {n, rec.csrf} /\ h \in {n, rec.nonce}
          /\ \/ p = n /\ c = n /\ h = n
             \/ n \in past.torn /\ h = n
             \/ p = rec.pkce /\ c = rec.csrf /\ h = rec.nonce
    <2> DEFINE p == IF lost < 1 THEN n ELSE rec.pkce
               c == IF lost < 2 THEN n ELSE rec.csrf
               h == IF lost < 3 THEN n ELSE rec.nonce
    <2>1. LoginWritten(rec, n, lost) = [rec EXCEPT !.pkce = p, !.csrf = c, !.nonce = h]
      BY DEF LoginWritten
    <2>2. p \in {n, rec.pkce} /\ c \in {n, rec.csrf} /\ h \in {n, rec.nonce}
      OBVIOUS
    <2>3. \/ p = n /\ c = n /\ h = n
          \/ n \in past.torn /\ h = n
          \/ p = rec.pkce /\ c = rec.csrf /\ h = rec.nonce
      OBVIOUS
    <2> HIDE DEF p, c, h
    <2>4. QED
      BY <2>1, <2>2, <2>3
  <1>3. LoginWritten(rec, n, lost) \in Records
    BY <1>1, <1>2 DEF Records
  <1> DEFINE w == LoginWritten(rec, n, lost)
  <1>4. /\ w.pkce = p /\ w.csrf = c /\ w.nonce = h
        /\ w.access = rec.access /\ w.refresh = rec.refresh /\ w.id_token = rec.id_token
        /\ w.expiry = rec.expiry
    BY <1>2 DEF Records
  <1> HIDE DEF w
  <1>5. w.nonce \notin past.torn => w.pkce = w.csrf /\ w.csrf = w.nonce
    BY <1>2, <1>4 DEF SoundRecord
  <1>6. SoundRecord(w, past)
    BY <1>4, <1>5 DEF SoundRecord
  <1>7. QED
    BY <1>3, <1>6 DEF w

\* browser_redirect_middleware keeps the secrets and tokens of a record.
LEMMA AnonymousKeeps ==
    ASSUME NEW q \in Progress, q.kind # "callback", NEW out \in Outcomes,
           NEW past \in Pasts, ProperRequest(q, past)
    PROVE  /\ Anonymous(q, out) \in Progress /\ ProperRequest(Anonymous(q, out), past)
           /\ Anonymous(q, out).out = out
  <1>1. CASE Html
    <2> DEFINE rec == [q.rec EXCEPT !.return_url = TRUE]
    <2>1. rec \in Records /\ SoundRecord(rec, past)
      BY DEF Progress, Records, ProperRequest, SoundRecord
    <2>2. Anonymous(q, out) = [q EXCEPT !.pc = "respond", !.out = out, !.modified = TRUE,
                                        !.rec = rec]
      BY <1>1 DEF Anonymous
    <2> HIDE DEF rec
    <2>3. Anonymous(q, out) \in Progress
      BY <2>1, <2>2 DEF Progress
    <2>4. QED
      BY <2>1, <2>2, <2>3 DEF Progress, ProperRequest
  <1>2. CASE ~Html
    <2>1. Anonymous(q, out) = [q EXCEPT !.pc = "respond", !.out = out]
      BY <1>2 DEF Anonymous
    <2>2. Anonymous(q, out) \in Progress
      BY <2>1 DEF Progress
    <2>3. QED
      BY <2>1, <2>2 DEF Progress, ProperRequest
  <1>3. QED
    BY <1>1, <1>2

\* Before the signature check nothing is decided.
LEMMA CheckingKeeps ==
    ASSUME NEW q \in Progress, q.kind # "callback", q.out # "identity", q.rec.access # 0,
           NEW past \in Pasts, ProperRequest(q, past)
    PROVE  /\ Checking(q) \in Progress /\ ProperRequest(Checking(q), past)
           /\ Checking(q).out # "identity"
  <1>1. CASE q.rec.id_token = 0
    <2>1. Checking(q) = Anonymous(q, "anonymous") /\ "anonymous" \in Outcomes
      BY <1>1 DEF Checking, Outcomes
    <2>2. QED
      BY <2>1, AnonymousKeeps
  <1>2. CASE q.rec.id_token # 0
    <2>1. Checking(q) = [q EXCEPT !.pc = "verify"]
      BY <1>2 DEF Checking
    <2>2. Checking(q) \in Progress
      BY <2>1 DEF Progress
    <2>3. QED
      BY <2>1, <2>2 DEF Progress, ProperRequest
  <1>3. QED
    BY <1>1, <1>2

\* What was sound stays sound.
LEMMA StaysSound ==
    ASSUME NEW old \in Pasts, NEW new \in Pasts, Grown(old, new),
           NEW rec \in Records, SoundRecord(rec, old)
    PROVE  SoundRecord(rec, new)
  <1>1. Len(old.grants) \in Nat /\ Len(new.grants) \in Nat
    BY LenProperties DEF Pasts
  <1>2. new.offline # BOOLEAN => old.offline # BOOLEAN
    BY DEF Grown, Pasts
  <1>3. {rec.access, rec.refresh, rec.id_token} \subseteq 0 .. Len(new.grants)
    BY <1>1 DEF Grown, SoundRecord
  <1>4. \A t \in {rec.access, rec.refresh, rec.id_token} :
            t # 0 => new.grants[t] = old.grants[t]
    BY <1>1 DEF Grown, SoundRecord
  <1>5. rec.nonce \notin new.torn => rec.nonce \notin old.torn
    BY DEF Grown
  <1>6. \A l \in old.completed : l \in new.completed
    BY DEF Grown
  <1>7. TRUE \in old.offline => TRUE \in new.offline
    BY DEF Grown
  <1>8. rec.refresh # 0 => rec.access # 0
    BY DEF SoundRecord
  <1>9. QED
    BY <1>2, <1>3, <1>4, <1>5, <1>6, <1>7, <1>8 DEF SoundRecord

\* callback_handler stores the tokens of one answer and forgets the login.
LEMMA CallbackKeeps ==
    ASSUME NEW rec \in Records, NEW past \in Pasts, NEW g \in 1 .. Len(past.grants),
           Len(past.grants) <= MaxTokens, SoundRecord(rec, past),
           NEW with_refresh \in BOOLEAN, with_refresh \in past.offline,
           past.grants[g] \in past.completed
    PROVE  /\ CallbackWritten(rec, g, with_refresh) \in Records
           /\ SoundRecord(CallbackWritten(rec, g, with_refresh), past)
  <1>0. Len(past.grants) \in Nat
    BY LenProperties DEF Pasts
  <1>1. g \in 0 .. MaxTokens /\ g \in 0 .. Len(past.grants) /\ g # 0
    BY <1>0, SessionAssumption
  <1>2. PICK f : /\ CallbackWritten(rec, g, with_refresh) =
                       [rec EXCEPT !.access = g, !.refresh = f, !.id_token = g, !.expiry = g,
                                   !.pkce = 0, !.csrf = 0, !.nonce = 0, !.return_url = FALSE]
                 /\ f = IF with_refresh THEN g ELSE rec.refresh
    BY DEF CallbackWritten
  <1>3. f \in 0 .. MaxTokens /\ 0 \in 0 .. MaxLogins /\ FALSE \in BOOLEAN
    BY <1>1, <1>2, SessionAssumption DEF Records
  <1> DEFINE w == CallbackWritten(rec, g, with_refresh)
  <1>4. w \in Records
    <2>1. w = [rec EXCEPT !.access = g, !.refresh = f, !.id_token = g, !.expiry = g,
                        !.pkce = 0, !.csrf = 0, !.nonce = 0, !.return_url = FALSE]
      BY <1>2
    <2>2. QED
      BY <1>1, <1>3, <2>1 DEF Records
  <1>5. /\ w.access = g /\ w.refresh = f /\ w.id_token = g /\ w.expiry = g
        /\ w.pkce = 0 /\ w.csrf = 0 /\ w.nonce = 0
    BY <1>2 DEF Records
  <1> HIDE DEF w
  <1>6. f \in 0 .. Len(past.grants)
    BY <1>1, <1>2 DEF SoundRecord
  <1>7. f # 0 => /\ TRUE \in past.offline /\ past.grants[f] \in past.completed
                 /\ past.offline # BOOLEAN => past.grants[f] = past.grants[g]
    <2>1. CASE with_refresh
      BY <1>2, <2>1
    <2>2. CASE ~with_refresh /\ f # 0
      <3>1. f = rec.refresh /\ FALSE \in past.offline
        BY <1>2, <2>2
      <3>2. TRUE \in past.offline /\ past.grants[f] \in past.completed
        BY <2>2, <3>1 DEF SoundRecord
      <3>3. past.offline = BOOLEAN
        BY <3>1, <3>2 DEF Pasts
      <3>4. QED
        BY <3>2, <3>3
    <2>3. QED
      BY <2>1, <2>2
  <1>8. SoundRecord(w, past)
    BY <1>1, <1>5, <1>6, <1>7 DEF SoundRecord
  <1>9. QED
    BY <1>4, <1>8 DEF w

\* A refresh replaces tokens by tokens of the login of the refresh token.
LEMMA RefreshKeeps ==
    ASSUME NEW rec \in Records, NEW past \in Pasts, NEW g \in 1 .. Len(past.grants),
           Len(past.grants) <= MaxTokens, SoundRecord(rec, past),
           NEW with_refresh \in BOOLEAN, NEW with_id \in BOOLEAN,
           rec.refresh # 0, past.grants[g] = past.grants[rec.refresh]
    PROVE  /\ RefreshWritten(rec, g, with_refresh, with_id) \in Records
           /\ SoundRecord(RefreshWritten(rec, g, with_refresh, with_id), past)
           /\ RefreshWritten(rec, g, with_refresh, with_id).access = g
  <1>0. Len(past.grants) \in Nat
    BY LenProperties DEF Pasts
  <1>1. g \in 0 .. MaxTokens /\ g \in 0 .. Len(past.grants) /\ g # 0
    BY <1>0, SessionAssumption
  <1> DEFINE w == RefreshWritten(rec, g, with_refresh, with_id)
  <1>2. PICK f, i : /\ w = [rec EXCEPT !.access = g, !.refresh = f, !.id_token = i, !.expiry = g]
                    /\ f \in {g, rec.refresh} /\ i \in {g, rec.id_token}
    BY DEF RefreshWritten
  <1>3. f \in 0 .. MaxTokens /\ i \in 0 .. MaxTokens
    BY <1>1, <1>2 DEF Records
  <1>4. w \in Records
    BY <1>1, <1>2, <1>3 DEF Records
  <1>5. /\ w.access = g /\ w.refresh = f /\ w.id_token = i /\ w.expiry = g
        /\ w.pkce = rec.pkce /\ w.csrf = rec.csrf /\ w.nonce = rec.nonce
    BY <1>2 DEF Records
  <1> HIDE DEF w
  <1>6. /\ rec.access # 0 /\ rec.id_token # 0 /\ TRUE \in past.offline
        /\ f \in 0 .. Len(past.grants) /\ i \in 0 .. Len(past.grants)
    BY <1>1, <1>2 DEF SoundRecord
  <1>7. /\ past.grants[g] \in past.completed /\ past.grants[i] \in past.completed
        /\ past.grants[f] = past.grants[g]
        /\ past.offline # BOOLEAN => past.grants[i] = past.grants[g]
    BY <1>2, <1>6 DEF SoundRecord
  <1>8. i # 0 /\ f # 0
    BY <1>1, <1>2, <1>6
  <1>9. SoundRecord(w, past)
    BY <1>1, <1>5, <1>6, <1>7, <1>8 DEF SoundRecord
  <1>10. QED
    BY <1>4, <1>5, <1>9 DEF w
-----------------------------------------------------------------------------
(* Steps *)

\* What was granted and seen is typed.
LEMMA PastTyped ==
    ASSUME TypeOK
    PROVE  /\ Past \in Pasts /\ Len(grants) \in Nat
           /\ Past.grants = grants /\ Past.torn = torn
           /\ Past.offline = offline /\ Past.completed = completed
  BY LenProperties DEF TypeOK, Past, Pasts

\* The initial state.
LEMMA InitIInv == Init => IInv
  <1> SUFFICES ASSUME Init PROVE IInv
    OBVIOUS
  <1>1. grants \in Seq(Logins) /\ Len(grants) = 0
    BY DEF Init
  <1>0. Past \in Pasts
    BY <1>1 DEF Init, Past, Pasts
  <1>2. Empty \in Records /\ SoundRecord(Empty, Past)
    BY <1>0, EmptyRecord
  <1>3. Idle \in Progress /\ ProperRequest(Idle, Past)
    BY <1>0, IdleRequest
  <1>4. Absent \in [rec: Records, seal: Keys \cup {NoId}, expired: BOOLEAN] /\ Absent.rec = Empty
    BY <1>2 DEF Absent
  <1>5. /\ store \in [Ids -> [rec: Records, seal: Keys \cup {NoId}, expired: BOOLEAN]]
        /\ \A i \in Ids : store[i].rec = Empty
    BY <1>4 DEF Init
  <1>6. req \in [Requests -> Progress] /\ \A r \in Requests : req[r] = Idle
    BY <1>3 DEF Init
  <1>7. TypeOK
    BY <1>1, <1>5, <1>6, SessionAssumption DEF Init, TypeOK
  <1>8. QED
    BY <1>2, <1>3, <1>5, <1>6, <1>7 DEF IInv

\* A request that arrives has a sound copy of the record, or none.
LEMMA ArrivingProper ==
    ASSUME IInv, NEW kind \in Kinds, NEW n \in LoginOrNone
    PROVE  /\ Arriving(kind, n) \in Progress /\ ProperRequest(Arriving(kind, n), Past)
           /\ Arriving(kind, n).kind = kind /\ Arriving(kind, n).out = "none"
  <1>1. Past \in Pasts
    BY PastTyped DEF IInv
  <1>2. Loaded(cookie).id \in Ids \cup {NoId}
    BY DEF Loaded, loads, IInv, TypeOK
  <1>3. Loaded(cookie).rec \in Records /\ SoundRecord(Loaded(cookie).rec, Past)
    <2>1. CASE loads(cookie)
      <3>1. cookie \in Ids /\ Loaded(cookie).rec = store[cookie].rec
        BY <2>1 DEF Loaded, loads, IInv, TypeOK
      <3>2. QED
        BY <3>1 DEF IInv, TypeOK
    <2>2. CASE ~loads(cookie)
      <3>1. Loaded(cookie).rec = Empty
        BY <2>2 DEF Loaded
      <3>2. QED
        BY <1>1, <3>1, EmptyRecord
    <2>3. QED
      BY <2>1, <2>2
  <1>4. (cookie # NoId) \in BOOLEAN
    OBVIOUS
  <1>5. Idle \in Progress
    BY <1>1, IdleRequest
  <1>6. Arriving(kind, n) \in Progress
    BY <1>2, <1>3, <1>4, <1>5 DEF Arriving, Progress
  <1>7. /\ Arriving(kind, n).rec = Loaded(cookie).rec
        /\ Arriving(kind, n).pc = "idle" /\ Arriving(kind, n).kind = kind
        /\ Arriving(kind, n).modified = FALSE /\ Arriving(kind, n).out = "none"
    BY DEF Arriving, Idle
  <1>8. QED
    BY <1>3, <1>6, <1>7 DEF ProperRequest

\* A request whose record cannot be loaded has none.
LEMMA UnloadedProper ==
    ASSUME IInv, NEW kind \in Kinds, NEW n \in LoginOrNone
    PROVE  /\ Unloaded(kind, n) \in Progress /\ ProperRequest(Unloaded(kind, n), Past)
           /\ Unloaded(kind, n).kind = kind /\ Unloaded(kind, n).out = "none"
           /\ Unloaded(kind, n).modified = FALSE
  <1>1. Past \in Pasts
    BY PastTyped DEF IInv
  <1>2. Idle \in Progress /\ SoundRecord(Idle.rec, Past)
    BY <1>1, IdleRequest DEF ProperRequest
  <1>3. Unloaded(kind, n) \in Progress
    BY <1>2 DEF Unloaded, Progress, IInv, TypeOK
  <1>4. /\ Unloaded(kind, n).rec = Idle.rec
        /\ Unloaded(kind, n).pc = "idle" /\ Unloaded(kind, n).kind = kind
        /\ Unloaded(kind, n).modified = FALSE /\ Unloaded(kind, n).out = "none"
    BY DEF Unloaded, Idle
  <1>5. QED
    BY <1>2, <1>3, <1>4 DEF ProperRequest

\* A request moves; what the others hold stays sound.
LEMMA OwnStep ==
    ASSUME IInv, NEW r \in Requests, NEW f \in Progress, Step(r, f),
           ProperRequest(f, Past'),
           \A rec \in Records : SoundRecord(rec, Past) => SoundRecord(rec, Past')
    PROVE  /\ req' \in [Requests -> Progress] /\ req'[r] = f
           /\ \A p \in Requests : ProperRequest(req'[p], Past')
  <1>1. req \in [Requests -> Progress] /\ req' = [req EXCEPT ![r] = f]
    BY DEF IInv, TypeOK, Step
  <1>2. req' \in [Requests -> Progress] /\ req'[r] = f
        /\ \A p \in Requests : p # r => req'[p] = req[p]
    BY <1>1
  <1>3. ASSUME NEW p \in Requests PROVE ProperRequest(req[p], Past')
    <2>1. ProperRequest(req[p], Past) /\ req[p].rec \in Records
      BY <1>1 DEF IInv, Progress
    <2>2. QED
      BY <2>1 DEF ProperRequest
  <1>4. QED
    BY <1>2, <1>3

\* Requests and the store change, the provider does not.
LEMMA StoreStep ==
    ASSUME IInv, UNCHANGED <<provider, clocks, history>>,
           cookie' \in Ids \cup {NoId}, key' \in Keys,
           req' \in [Requests -> Progress],
           \A r \in Requests : ProperRequest(req'[r], Past),
           store' \in [Ids -> [rec: Records, seal: Keys \cup {NoId}, expired: BOOLEAN]],
           \A i \in Ids : SoundRecord(store'[i].rec, Past)
    PROVE  IInv'
  <1>1. UNCHANGED <<codes, grants, refreshable, stale, distrusted, offline, torn, completed>>
    BY DEF provider, clocks, history
  <1>2. TypeOK'
    BY <1>1 DEF IInv, TypeOK, Issued
  <1>3. Past' = Past
    BY <1>1 DEF Past
  <1>4. QED
    BY <1>2, <1>3 DEF IInv

\* A request moves and nothing else changes.
LEMMA QuietStep ==
    ASSUME IInv, NEW r \in Requests, NEW f \in Progress, Step(r, f), ProperRequest(f, Past),
           UNCHANGED <<store, cookie, key, provider, clocks, history>>
    PROVE  IInv' /\ req'[r] = f
  <1>1. Past' = Past
    BY DEF provider, history, Past
  <1>2. /\ req' \in [Requests -> Progress] /\ req'[r] = f
        /\ \A p \in Requests : ProperRequest(req'[p], Past)
    BY <1>1, OwnStep
  <1>3. QED
    BY <1>2, StoreStep DEF IInv, TypeOK

\* login_handler
LEMMA LoginStep ==
    ASSUME IInv, NEW r \in Requests, Login(r)
    PROVE  IInv' /\ req'[r].out = "authorize"
  <1>1. PICK n \in Logins, lost \in 0 .. 3 :
          LET q == IF lost = 3 THEN Unloaded("login", 0) ELSE Arriving("login", 0)
          IN  /\ Step(r, [q EXCEPT !.pc = "respond", !.out = "authorize", !.modified = lost < 3,
                                   !.rec = LoginWritten(@, n, lost)])
              /\ codes' = [codes EXCEPT ![n] = "issued"]
              /\ torn' = IF lost = 0 THEN torn ELSE torn \cup {n}
    BY DEF Login
  <1>2. UNCHANGED <<store, cookie, key, grants, refreshable, stale, distrusted, offline, completed>>
    BY DEF Login, clocks
  <1>3. PICK q \in Progress :
          /\ ProperRequest(q, Past) /\ q.kind = "login"
          /\ Step(r, [q EXCEPT !.pc = "respond", !.out = "authorize", !.modified = lost < 3,
                               !.rec = LoginWritten(q.rec, n, lost)])
    <2>1. "login" \in Kinds /\ 0 \in LoginOrNone
      BY DEF Kinds, LoginOrNone
    <2>2. /\ Arriving("login", 0) \in Progress /\ ProperRequest(Arriving("login", 0), Past)
          /\ Arriving("login", 0).kind = "login"
      BY <2>1, ArrivingProper, Zenon
    <2>3. /\ Unloaded("login", 0) \in Progress /\ ProperRequest(Unloaded("login", 0), Past)
          /\ Unloaded("login", 0).kind = "login"
      BY <2>1, UnloadedProper, Zenon
    <2>4. CASE lost = 3
      BY <1>1, <2>3, <2>4
    <2>5. CASE lost # 3
      BY <1>1, <2>2, <2>5
    <2>6. QED
      BY <2>4, <2>5
  <1>4. torn \subseteq torn' /\ torn' \subseteq Logins /\ (lost # 0 => n \in torn')
    BY <1>1 DEF IInv, TypeOK
  <1>5. Past \in Pasts /\ Past' \in Pasts /\ Past'.torn = torn' /\ Grown(Past, Past')
    <2>1. TypeOK
      BY DEF IInv
    <2>2. Past \in Pasts /\ Len(grants) \in Nat
      BY <2>1, PastTyped
    <2>3. Past' = [grants |-> grants, offline |-> offline, torn |-> torn', completed |-> completed]
      BY <1>2 DEF Past
    <2>4. Past = [grants |-> grants, offline |-> offline, torn |-> torn, completed |-> completed]
      BY DEF Past
    <2>5. Past' \in Pasts
      BY <1>4, <2>1, <2>3 DEF Pasts, TypeOK
    <2>6. Grown(Past, Past')
      BY <1>4, <2>2, <2>3, <2>4 DEF Grown
    <2>7. QED
      BY <2>2, <2>3, <2>5, <2>6
  <1>6. \A x \in Records : SoundRecord(x, Past) => SoundRecord(x, Past')
    BY <1>5, StaysSound
  <1>7. PICK w : w = LoginWritten(q.rec, n, lost)
    OBVIOUS
  <1>8. w \in Records /\ SoundRecord(w, Past')
    <2>1. q.rec \in Records /\ SoundRecord(q.rec, Past')
      BY <1>3, <1>6 DEF Progress, ProperRequest
    <2>2. QED
      BY <1>4, <1>5, <1>7, <2>1, LoginKeeps
  <1>9. PICK m \in BOOLEAN : m = (lost < 3)
    <2>1. (lost < 3) \in BOOLEAN
      OBVIOUS
    <2>2. QED
      BY <2>1, Zenon
  <1>10. PICK f : f = [q EXCEPT !.pc = "respond", !.out = "authorize", !.modified = m, !.rec = w]
    OBVIOUS
  <1>11. Step(r, f)
    BY <1>3, <1>7, <1>9, <1>10
  <1>12. f \in Progress /\ f.out = "authorize" /\ f.rec = w /\ f.kind = "login" /\ f.pc = "respond"
    BY <1>3, <1>8, <1>9, <1>10 DEF Progress, Outcomes
  <1>13. ProperRequest(f, Past')
    BY <1>8, <1>12 DEF ProperRequest
  <1>14. /\ req' \in [Requests -> Progress] /\ req'[r] = f
         /\ \A p \in Requests : ProperRequest(req'[p], Past')
    BY <1>6, <1>11, <1>12, <1>13, OwnStep
  <1>15. codes' \in [Logins -> {"none", "issued", "used"}]
    BY <1>1 DEF IInv, TypeOK
  <1>16. TypeOK'
    BY <1>2, <1>4, <1>14, <1>15 DEF IInv, TypeOK, Issued
  <1>17. \A i \in Ids : SoundRecord(store'[i].rec, Past')
    BY <1>2, <1>6 DEF IInv, TypeOK
  <1>18. QED
    BY <1>12, <1>14, <1>16, <1>17 DEF IInv

\* callback_handler up to the exchange
LEMMA CallbackStep ==
    ASSUME IInv, NEW r \in Requests, NEW n \in Logins, Callback(r, n)
    PROVE  IInv' /\ req'[r].out # "identity"
  <1> DEFINE q == Arriving("callback", n)
             matches == q.rec.csrf = n /\ q.rec.pkce # 0 /\ q.rec.nonce # 0
             f == [q EXCEPT !.pc = IF matches THEN "exchange" ELSE "respond",
                            !.out = IF matches THEN "none" ELSE "401"]
  <1>1. Step(r, f) /\ UNCHANGED <<store, cookie, key, provider, clocks, history>>
    BY DEF Callback
  <1>2. q \in Progress /\ ProperRequest(q, Past) /\ q.kind = "callback"
        /\ q.n = n /\ q.out = "none" /\ q.modified = FALSE
    <2>1. "callback" \in Kinds /\ n \in LoginOrNone
      BY DEF Kinds, LoginOrNone
    <2>2. q \in Progress /\ ProperRequest(q, Past) /\ q.kind = "callback"
      BY <2>1, ArrivingProper, Zenon
    <2>3. q.n = n /\ q.out = "none" /\ q.modified = FALSE
      BY DEF Arriving, Idle
    <2>4. QED
      BY <2>2, <2>3
  <1>3. \/ f = [q EXCEPT !.pc = "exchange", !.out = "none"] /\ q.rec.csrf = n
        \/ f = [q EXCEPT !.pc = "respond", !.out = "401"]
    OBVIOUS
  <1> HIDE DEF q, f
  <1>4. f \in Progress /\ ProperRequest(f, Past) /\ f.out # "identity"
    <2>1. f \in Progress
      BY <1>2, <1>3 DEF Progress, Outcomes
    <2>2. QED
      BY <1>2, <1>3, <2>1 DEF Progress, ProperRequest
  <1>5. QED
    BY <1>1, <1>4, QuietStep

\* The exchange fails.
LEMMA ExchangeFailsStep ==
    ASSUME IInv, NEW r \in Requests, ExchangeFails(r)
    PROVE  IInv' /\ req'[r].out = "401"
  <1> DEFINE f == [req[r] EXCEPT !.pc = "respond", !.out = "401"]
  <1>1. req[r] \in Progress /\ ProperRequest(req[r], Past) /\ req[r].pc = "exchange"
    BY DEF IInv, TypeOK, ExchangeFails
  <1>2. f \in Progress /\ f.out = "401"
    BY <1>1 DEF Progress, Outcomes
  <1>3. ProperRequest(f, Past)
    BY <1>1, <1>2 DEF Progress, ProperRequest
  <1>4. Step(r, f) /\ UNCHANGED <<store, cookie, key, provider, clocks, history>>
    BY DEF ExchangeFails
  <1> HIDE DEF f
  <1>5. QED
    BY <1>2, <1>3, <1>4, QuietStep

\* The exchange succeeds, and stores tokens only if the parts of the login were
\* found together.
LEMMA ExchangeStep ==
    ASSUME IInv, NEW r \in Requests, Exchange(r)
    PROVE  IInv' /\ req'[r].out # "identity"
  <1>1. PICK q, n, g : q = req[r] /\ n = q.n /\ g = Len(grants) + 1
    OBVIOUS
  <1>2. PICK b \in BOOLEAN :
          /\ refreshable' = IF b THEN refreshable \cup {g} ELSE refreshable
          /\ offline' = offline \cup {b}
          /\ Step(r, IF q.rec.nonce = n
                     THEN [q EXCEPT !.pc = "respond", !.out = "redirect", !.modified = TRUE,
                                    !.rec = CallbackWritten(q.rec, g, b)]
                     ELSE [q EXCEPT !.pc = "respond", !.out = "401"])
    BY <1>1 DEF Exchange, NonceMatches
  <1>3. /\ q.pc = "exchange" /\ Len(grants) < MaxTokens
        /\ grants' = Append(grants, n)
        /\ codes' = [codes EXCEPT ![n] = "used"]
        /\ completed' = IF q.rec.nonce = n /\ q.rec.csrf = n
                        THEN completed \cup {n} ELSE completed
        /\ UNCHANGED <<store, cookie, key, stale, distrusted, torn>>
    BY <1>1 DEF Exchange, clocks
  <1>4. /\ q \in Progress /\ ProperRequest(q, Past) /\ q.rec \in Records
        /\ n \in Logins /\ q.kind = "callback" /\ q.modified = FALSE /\ q.rec.csrf = n
        /\ grants \in Seq(Logins) /\ Len(grants) \in Nat
    BY <1>1, <1>3, LenProperties DEF IInv, TypeOK, ProperRequest, Progress
  <1>5. /\ grants' \in Seq(Logins) /\ Len(grants') = g /\ grants'[g] = n /\ g \in Nat
        /\ \A e \in 1 .. Len(grants) : grants'[e] = grants[e]
    BY <1>1, <1>3, <1>4, AppendProperties
  <1>6. g \in 1 .. Len(grants') /\ Len(grants') <= MaxTokens /\ Len(grants) <= Len(grants')
    BY <1>1, <1>3, <1>4, <1>5, SessionAssumption
  <1>7. /\ offline \subseteq offline' /\ offline' \subseteq BOOLEAN /\ b \in offline'
        /\ completed \subseteq completed' /\ completed' \subseteq Logins
        /\ torn' = torn /\ torn \subseteq Logins
    BY <1>2, <1>3, <1>4 DEF IInv, TypeOK
  <1>8. PICK old \in Pasts, new \in Pasts :
          /\ old = Past /\ new = Past' /\ Grown(old, new)
          /\ new.grants = grants' /\ new.offline = offline' /\ new.completed = completed'
    <2>1. Past' = [grants |-> grants', offline |-> offline', torn |-> torn', completed |-> completed']
      BY DEF Past
    <2>2. Past = [grants |-> grants, offline |-> offline, torn |-> torn, completed |-> completed]
      BY DEF Past
    <2>3. Past \in Pasts
      BY PastTyped DEF IInv
    <2>4. Past' \in Pasts
      BY <1>5, <1>7, <2>1 DEF Pasts
    <2>5. Grown(Past, Past')
      BY <1>5, <1>6, <1>7, <2>1, <2>2 DEF Grown
    <2>6. QED
      BY <2>1, <2>3, <2>4, <2>5
  <1>9. \A x \in Records : SoundRecord(x, Past) => SoundRecord(x, Past')
    BY <1>8, StaysSound
  <1>10. SoundRecord(q.rec, Past')
    BY <1>4, <1>9 DEF ProperRequest
  <1>11. PICK f \in Progress : Step(r, f) /\ ProperRequest(f, Past') /\ f.out # "identity"
    <2>1. CASE q.rec.nonce = n
      <3>1. PICK w : w = CallbackWritten(q.rec, g, b)
        OBVIOUS
      <3>2. n \in completed'
        BY <1>3, <1>4, <2>1
      <3>3. w \in Records /\ SoundRecord(w, Past')
        BY <1>4, <1>5, <1>6, <1>7, <1>8, <1>10, <3>1, <3>2, CallbackKeeps
      <3>4. PICK f : f = [q EXCEPT !.pc = "respond", !.out = "redirect", !.modified = TRUE,
                                   !.rec = w]
        OBVIOUS
      <3>5. f \in Progress /\ f.out = "redirect" /\ f.rec = w /\ f.pc = "respond"
        BY <1>4, <3>3, <3>4 DEF Progress, Outcomes
      <3>6. Step(r, f)
        BY <1>2, <2>1, <3>1, <3>4
      <3>7. QED
        BY <3>3, <3>5, <3>6 DEF ProperRequest
    <2>2. CASE q.rec.nonce # n
      <3>1. PICK f : f = [q EXCEPT !.pc = "respond", !.out = "401"]
        OBVIOUS
      <3>2. /\ f \in Progress /\ f.out = "401" /\ f.rec = q.rec /\ f.pc = "respond"
            /\ f.modified = FALSE
        BY <1>4, <3>1 DEF Progress, Outcomes
      <3>3. Step(r, f)
        BY <1>2, <2>2, <3>1
      <3>4. QED
        BY <1>10, <3>2, <3>3 DEF ProperRequest
    <2>3. QED
      BY <2>1, <2>2
  <1>12. /\ req' \in [Requests -> Progress] /\ req'[r] = f
         /\ \A p \in Requests : ProperRequest(req'[p], Past')
    BY <1>9, <1>11, OwnStep
  <1>13. \A i \in Ids : SoundRecord(store'[i].rec, Past')
    BY <1>3, <1>9 DEF IInv, TypeOK
  <1>14. codes' \in [Logins -> {"none", "issued", "used"}]
    BY <1>3, <1>4 DEF IInv, TypeOK
  <1>15. Issued' = Issued \cup {g}
    BY <1>1, <1>4, <1>5 DEF Issued
  <1>16. /\ refreshable' \subseteq Issued' /\ stale' \subseteq Issued' /\ distrusted' \subseteq Issued'
    BY <1>2, <1>3, <1>15 DEF IInv, TypeOK
  <1>17. TypeOK'
    BY <1>3, <1>5, <1>6, <1>7, <1>12, <1>14, <1>16 DEF IInv, TypeOK
  <1>18. QED
    BY <1>11, <1>12, <1>13, <1>17 DEF IInv

\* logout_handler
LEMMA LogoutStep ==
    ASSUME IInv, NEW r \in Requests, Logout(r)
    PROVE  IInv' /\ req'[r].out = "redirect"
  <1>1. PICK q : q = Arriving("logout", 0)
    OBVIOUS
  <1>2. PICK f : f = [q EXCEPT !.pc = "flush", !.out = "redirect"]
    OBVIOUS
  <1>3. Step(r, f) /\ UNCHANGED <<store, cookie, key, provider, clocks, history>>
    BY <1>1, <1>2 DEF Logout
  <1>4. q \in Progress /\ ProperRequest(q, Past) /\ q.kind = "logout"
    <2>1. "logout" \in Kinds /\ 0 \in LoginOrNone
      BY DEF Kinds, LoginOrNone
    <2>2. QED
      BY <1>1, <2>1, ArrivingProper, Zenon
  <1>5. f \in Progress /\ f.out = "redirect"
    BY <1>2, <1>4 DEF Progress, Outcomes
  <1>6. ProperRequest(f, Past)
    BY <1>2, <1>4, <1>5 DEF Progress, ProperRequest
  <1>7. QED
    BY <1>3, <1>5, <1>6, QuietStep

\* session_to_identity answers from the record, or goes on to the signature check,
\* to a refresh or to a flush.
LEMMA PageStep ==
    ASSUME IInv, NEW r \in Requests, Page(r)
    PROVE  IInv' /\ req'[r].out # "identity"
  <1>1. PICK q : q = Arriving("page", 0)
    OBVIOUS
  <1>2. "page" \in Kinds /\ 0 \in LoginOrNone /\ "anonymous" \in Outcomes
    BY DEF Kinds, LoginOrNone, Outcomes
  <1>3. q \in Progress /\ ProperRequest(q, Past) /\ q.kind = "page" /\ q.out = "none"
    BY <1>1, <1>2, ArrivingProper, Zenon
  <1>4. Past \in Pasts
    BY PastTyped DEF IInv
  <1>5. PICK f \in Progress : Step(r, f) /\ ProperRequest(f, Past) /\ f.out # "identity"
    <2>1. CASE q.rec.access = 0
      <3>1. Step(r, Anonymous(q, "anonymous"))
        BY <1>1, <2>1 DEF Page
      <3>2. /\ Anonymous(q, "anonymous") \in Progress
            /\ ProperRequest(Anonymous(q, "anonymous"), Past)
            /\ Anonymous(q, "anonymous").out = "anonymous"
        BY <1>2, <1>3, <1>4, AnonymousKeeps
      <3>3. QED
        BY <3>1, <3>2
    <2>2. CASE q.rec.access # 0 /\ ~is_expired(q.rec)
      <3>1. Step(r, Checking(q))
        BY <1>1, <2>2 DEF Page
      <3>2. /\ Checking(q) \in Progress /\ ProperRequest(Checking(q), Past)
            /\ Checking(q).out # "identity"
        BY <1>3, <1>4, <2>2, CheckingKeeps
      <3>3. QED
        BY <3>1, <3>2
    <2>3. CASE q.rec.access # 0 /\ is_expired(q.rec)
      <3>1. PICK to \in {"refresh", "flush"} : to = IF q.rec.refresh # 0 THEN "refresh" ELSE "flush"
        OBVIOUS
      <3>2. PICK f : f = [q EXCEPT !.pc = to, !.out = "expired"]
        OBVIOUS
      <3>3. Step(r, f)
        BY <1>1, <2>3, <3>1, <3>2 DEF Page
      <3>4. f \in Progress /\ f.out = "expired" /\ f.pc = to /\ f.kind = "page" /\ f.rec = q.rec
        BY <1>3, <3>1, <3>2 DEF Progress, Outcomes
      <3>5. ProperRequest(f, Past)
        BY <1>3, <3>1, <3>4 DEF ProperRequest
      <3>6. QED
        BY <3>3, <3>4, <3>5
    <2>4. QED
      BY <2>1, <2>2, <2>3
  <1>6. UNCHANGED <<store, cookie, key, provider, clocks, history>>
    BY DEF Page
  <1>7. QED
    BY <1>5, <1>6, QuietStep

\* The first read fails.
LEMMA LoadFailsStep ==
    ASSUME IInv, NEW r \in Requests, LoadFails(r)
    PROVE  IInv' /\ req'[r].out # "identity"
  <1>1. UNCHANGED <<store, cookie, key, provider, clocks, history>>
    BY DEF LoadFails
  <1>2. /\ {"callback", "logout", "page"} \subseteq Kinds
        /\ {"401", "redirect", "anonymous"} \subseteq Outcomes
        /\ 0 \in LoginOrNone /\ Logins \subseteq LoginOrNone
    BY DEF Kinds, LoginOrNone, Outcomes
  <1>3. ASSUME NEW kind \in {"callback", "logout", "page"}, NEW n \in LoginOrNone,
               NEW pc \in {"respond", "flush"}, NEW out \in {"401", "redirect", "anonymous"},
               pc = "flush" => kind # "callback",
               Step(r, [Unloaded(kind, n) EXCEPT !.pc = pc, !.out = out])
        PROVE  IInv' /\ req'[r].out # "identity"
    <2>1. PICK q : q = Unloaded(kind, n)
      OBVIOUS
    <2>2. kind \in Kinds
      BY <1>2
    <2>3. q \in Progress /\ ProperRequest(q, Past) /\ q.kind = kind /\ q.modified = FALSE
      BY <2>1, <2>2, UnloadedProper
    <2>4. PICK f : f = [q EXCEPT !.pc = pc, !.out = out]
      OBVIOUS
    <2>5. /\ f \in Progress /\ f.out = out /\ f.pc = pc /\ f.kind = kind
          /\ f.modified = FALSE /\ f.rec = q.rec
      BY <1>2, <2>3, <2>4 DEF Progress
    <2>6. ProperRequest(f, Past)
      BY <1>3, <2>3, <2>5 DEF ProperRequest
    <2>7. Step(r, f)
      BY <1>3, <2>1, <2>4
    <2>8. QED
      BY <1>1, <2>5, <2>6, <2>7, QuietStep
  <1>4. CASE Step(r, Anonymous(Arriving("page", 0), "anonymous"))
    <2>1. PICK q : q = Arriving("page", 0)
      OBVIOUS
    <2>2. "page" \in Kinds
      BY <1>2
    <2>3. q \in Progress /\ ProperRequest(q, Past) /\ q.kind = "page"
      BY <1>2, <2>1, <2>2, ArrivingProper, Zenon
    <2>4. Past \in Pasts /\ "anonymous" \in Outcomes
      BY <1>2, PastTyped DEF IInv
    <2>5. /\ Anonymous(q, "anonymous") \in Progress
          /\ ProperRequest(Anonymous(q, "anonymous"), Past)
          /\ Anonymous(q, "anonymous").out = "anonymous"
      BY <2>3, <2>4, AnonymousKeeps
    <2>6. QED
      BY <1>1, <1>4, <2>1, <2>5, QuietStep
  <1>5. CASE \E n \in Logins :
               Step(r, [Unloaded("callback", n) EXCEPT !.pc = "respond", !.out = "401"])
    BY <1>2, <1>3, <1>5
  <1>6. CASE Step(r, [Unloaded("logout", 0) EXCEPT !.pc = "flush", !.out = "redirect"])
    BY <1>2, <1>3, <1>6
  <1>7. CASE Step(r, [Unloaded("page", 0) EXCEPT !.pc = "respond", !.out = "anonymous"])
    BY <1>2, <1>3, <1>7
  <1>8. QED
    BY <1>4, <1>5, <1>6, <1>7 DEF LoadFails

\* A successful refresh is a further answer for the login of the refresh token.
LEMMA RefreshStep ==
    ASSUME IInv, NEW r \in Requests, Refresh(r)
    PROVE  IInv' /\ req'[r].out # "identity"
  <1>1. PICK q, spent, g, l :
          q = req[r] /\ spent = q.rec.refresh /\ g = Len(grants) + 1 /\ l = grants[spent]
    OBVIOUS
  <1>2. /\ q.pc = "refresh" /\ spent \in refreshable /\ Len(grants) < MaxTokens
        /\ grants' = Append(grants, l)
        /\ UNCHANGED <<store, cookie, key, codes, stale, distrusted, offline, torn, completed>>
    BY <1>1 DEF Refresh, clocks, history
  <1>3. PICK b \in BOOLEAN, with_id \in BOOLEAN :
          /\ refreshable' = IF b THEN (refreshable \ {spent}) \cup {g} ELSE refreshable
          /\ Step(r, Checking([q EXCEPT !.modified = TRUE, !.out = "none",
                                        !.rec = RefreshWritten(q.rec, g, b, with_id)]))
    BY <1>1 DEF Refresh
  <1>4. /\ q \in Progress /\ ProperRequest(q, Past) /\ q.rec \in Records
        /\ q.kind # "callback"
        /\ grants \in Seq(Logins) /\ Len(grants) \in Nat
    BY <1>1, <1>2, LenProperties DEF IInv, TypeOK, ProperRequest, Progress
  <1>5. spent \in 1 .. Len(grants) /\ l \in Logins
    BY <1>1, <1>2, <1>4, ElementOfSeq DEF IInv, TypeOK, Issued
  <1>6. /\ grants' \in Seq(Logins) /\ Len(grants') = g /\ grants'[g] = l /\ g \in Nat
        /\ \A e \in 1 .. Len(grants) : grants'[e] = grants[e]
    BY <1>1, <1>2, <1>4, <1>5, AppendProperties
  <1>7. /\ g \in 1 .. Len(grants') /\ Len(grants') <= MaxTokens /\ Len(grants) <= Len(grants')
        /\ spent # 0 /\ grants'[g] = grants'[spent]
    BY <1>1, <1>2, <1>4, <1>5, <1>6, SessionAssumption
  <1>8. PICK old \in Pasts, new \in Pasts :
          /\ old = Past /\ new = Past' /\ Grown(old, new) /\ new.grants = grants'
    <2>1. Past' = [grants |-> grants', offline |-> offline, torn |-> torn, completed |-> completed]
      BY <1>2 DEF Past
    <2>2. Past = [grants |-> grants, offline |-> offline, torn |-> torn, completed |-> completed]
      BY DEF Past
    <2>3. Past \in Pasts
      BY PastTyped DEF IInv
    <2>4. Past' \in Pasts
      BY <1>6, <2>1 DEF Pasts, IInv, TypeOK
    <2>5. Grown(Past, Past')
      BY <1>6, <1>7, <2>1, <2>2 DEF Grown
    <2>6. QED
      BY <2>1, <2>3, <2>4, <2>5
  <1>9. \A x \in Records : SoundRecord(x, Past) => SoundRecord(x, Past')
    BY <1>8, StaysSound
  <1>10. SoundRecord(q.rec, Past')
    BY <1>4, <1>9 DEF ProperRequest
  <1>11. PICK w : w = RefreshWritten(q.rec, g, b, with_id)
    OBVIOUS
  <1>12. w \in Records /\ SoundRecord(w, Past') /\ w.access = g
    BY <1>1, <1>4, <1>7, <1>8, <1>10, <1>11, RefreshKeeps
  <1>13. PICK h : h = [q EXCEPT !.modified = TRUE, !.out = "none", !.rec = w]
    OBVIOUS
  <1>14. /\ h \in Progress /\ h.kind = q.kind /\ h.pc = "refresh" /\ h.rec = w
         /\ h.out = "none"
    BY <1>2, <1>4, <1>12, <1>13 DEF Progress, Outcomes
  <1>15. ProperRequest(h, Past') /\ h.rec.access # 0
    BY <1>4, <1>7, <1>12, <1>14 DEF ProperRequest
  <1>16. PICK f : f = Checking(h)
    OBVIOUS
  <1>17. f \in Progress /\ ProperRequest(f, Past') /\ f.out # "identity"
    BY <1>4, <1>8, <1>14, <1>15, <1>16, CheckingKeeps
  <1>18. Step(r, f)
    BY <1>3, <1>11, <1>13, <1>16
  <1>19. /\ req' \in [Requests -> Progress] /\ req'[r] = f
         /\ \A p \in Requests : ProperRequest(req'[p], Past')
    BY <1>9, <1>17, <1>18, OwnStep
  <1>20. \A i \in Ids : SoundRecord(store'[i].rec, Past')
    BY <1>2, <1>9 DEF IInv, TypeOK
  <1>21. Issued' = Issued \cup {g}
    BY <1>1, <1>4, <1>6 DEF Issued
  <1>22. /\ refreshable' \subseteq Issued' /\ stale' \subseteq Issued' /\ distrusted' \subseteq Issued'
    BY <1>2, <1>3, <1>21 DEF IInv, TypeOK
  <1>23. TypeOK'
    BY <1>2, <1>6, <1>7, <1>19, <1>22 DEF IInv, TypeOK
  <1>24. QED
    BY <1>17, <1>19, <1>20, <1>23 DEF IInv

\* The refresh fails.
LEMMA RefreshFailsStep ==
    ASSUME IInv, NEW r \in Requests, RefreshFails(r)
    PROVE  IInv' /\ req'[r].out = "refresh_failed"
  <1> DEFINE f == [req[r] EXCEPT !.pc = "flush", !.out = "refresh_failed"]
  <1>1. req[r] \in Progress /\ ProperRequest(req[r], Past) /\ req[r].pc = "refresh"
    BY DEF IInv, TypeOK, RefreshFails
  <1>2. f \in Progress /\ f.out = "refresh_failed"
    BY <1>1 DEF Progress, Outcomes
  <1>3. ProperRequest(f, Past)
    BY <1>1, <1>2 DEF Progress, ProperRequest
  <1>4. Step(r, f) /\ UNCHANGED <<store, cookie, key, provider, clocks, history>>
    BY DEF RefreshFails
  <1> HIDE DEF f
  <1>5. QED
    BY <1>2, <1>3, <1>4, QuietStep

\* The signature check answers: the identity is that of a completed login, and of
\* the access token's if all logins are alike.
LEMMA VerifyStep ==
    ASSUME IInv, NEW r \in Requests, Verify(r)
    PROVE  /\ IInv'
           /\ req'[r].out = "identity" =>
                 /\ req'[r].who \in completed
                 /\ Uniform => grants[req'[r].rec.access] = req'[r].who
  <1>1. PICK q, t : q = req[r] /\ t = q.rec.id_token
    OBVIOUS
  <1>2. /\ q \in Progress /\ ProperRequest(q, Past) /\ q.kind # "callback" /\ q.rec.access # 0
        /\ q.pc = "verify"
    BY <1>1 DEF IInv, TypeOK, ProperRequest, Verify
  <1>3. Past.grants = grants /\ Past.offline = offline /\ Past.completed = completed
    BY DEF Past
  <1>4. grants[t] \in completed /\ (Uniform => grants[t] = grants[q.rec.access])
    BY <1>1, <1>2, <1>3 DEF ProperRequest, SoundRecord, Uniform
  <1>5. grants[t] \in LoginOrNone
    BY <1>4 DEF IInv, TypeOK, LoginOrNone
  <1>6. UNCHANGED <<store, cookie, key, provider, clocks, history>>
    BY DEF Verify
  <1>7. CASE t \in distrusted
    <2>1. PICK f : f = [q EXCEPT !.pc = "flush", !.out = "forged"]
      OBVIOUS
    <2>2. f \in Progress /\ f.out = "forged" /\ f.pc = "flush" /\ f.rec = q.rec /\ f.kind = q.kind
      BY <1>2, <2>1 DEF Progress, Outcomes
    <2>3. ProperRequest(f, Past)
      BY <1>2, <2>2 DEF ProperRequest
    <2>4. Step(r, f)
      BY <1>1, <1>7, <2>1 DEF Verify
    <2>5. QED
      BY <1>6, <2>2, <2>3, <2>4, QuietStep
  <1>8. CASE t \notin distrusted
    <2>1. PICK f : f = [q EXCEPT !.pc = "respond", !.out = "identity", !.who = grants[t]]
      OBVIOUS
    <2>2. /\ f \in Progress /\ f.out = "identity" /\ f.pc = "respond" /\ f.rec = q.rec
          /\ f.kind = q.kind /\ f.who = grants[t]
      BY <1>2, <1>5, <2>1 DEF Progress, Outcomes
    <2>3. ProperRequest(f, Past)
      BY <1>2, <2>2 DEF ProperRequest
    <2>4. Step(r, f)
      BY <1>1, <1>8, <2>1 DEF Verify
    <2>5. IInv' /\ req'[r] = f
      BY <1>6, <2>2, <2>3, <2>4, QuietStep
    <2>6. QED
      BY <1>4, <2>2, <2>5
  <1>9. QED
    BY <1>7, <1>8

\* What may stand in the store.
LEMMA Stored ==
    ASSUME IInv
    PROVE  /\ Past \in Pasts
           /\ Absent \in [rec: Records, seal: Keys \cup {NoId}, expired: BOOLEAN]
           /\ SoundRecord(Absent.rec, Past)
           /\ \A rec \in Records :
                 /\ save(rec) \in [rec: Records, seal: Keys \cup {NoId}, expired: BOOLEAN]
                 /\ save(rec).rec = rec
  <1>1. Past \in Pasts
    BY PastTyped DEF IInv
  <1>2. Empty \in Records /\ SoundRecord(Empty, Past)
    BY <1>1, EmptyRecord
  <1>3. QED
    BY <1>1, <1>2 DEF Absent, save, IInv, TypeOK

\* Session::flush
LEMMA FlushStep ==
    ASSUME IInv, NEW r \in Requests, flush(r)
    PROVE  IInv' /\ req'[r].out = req[r].out
  <1>1. PICK deleted \in BOOLEAN : \E p, q :
          /\ p = req[r] /\ p.pc = "flush"
          /\ store' = IF deleted /\ p.id # NoId THEN [store EXCEPT ![p.id] = Absent] ELSE store
          /\ q = [p EXCEPT !.rec = Empty, !.modified = TRUE,
                          !.id = IF deleted THEN NoId ELSE p.id]
          /\ Step(r, IF q.kind = "page" THEN Anonymous(q, q.out)
                     ELSE [q EXCEPT !.pc = "respond"])
    BY DEF flush
  <1>0. PICK p, q :
          /\ p = req[r] /\ p.pc = "flush"
          /\ store' = IF deleted /\ p.id # NoId THEN [store EXCEPT ![p.id] = Absent] ELSE store
          /\ q = [p EXCEPT !.rec = Empty, !.modified = TRUE,
                          !.id = IF deleted THEN NoId ELSE p.id]
          /\ Step(r, IF q.kind = "page" THEN Anonymous(q, q.out)
                     ELSE [q EXCEPT !.pc = "respond"])
    BY <1>1
  <1>2. UNCHANGED <<cookie, key, provider, clocks, history>>
    BY DEF flush
  <1>3. /\ p \in Progress /\ ProperRequest(p, Past) /\ p.kind # "callback"
        /\ Past \in Pasts
    BY <1>0, Stored DEF IInv, TypeOK, ProperRequest
  <1>4. Empty \in Records /\ SoundRecord(Empty, Past)
    BY <1>3, EmptyRecord
  <1>5. PICK i \in Ids \cup {NoId} : i = IF deleted THEN NoId ELSE p.id
    BY <1>3 DEF Progress
  <1>6. /\ q \in Progress /\ q.kind = p.kind /\ q.out = p.out /\ q.rec = Empty
        /\ q.pc = "flush"
    <2>1. q = [p EXCEPT !.rec = Empty, !.modified = TRUE, !.id = i]
      BY <1>0, <1>5
    <2>2. QED
      BY <1>0, <1>3, <1>4, <2>1 DEF Progress
  <1>7. ProperRequest(q, Past) /\ q.out \in Outcomes
    BY <1>3, <1>4, <1>6 DEF ProperRequest, Progress
  <1>8. PICK f \in Progress : Step(r, f) /\ ProperRequest(f, Past) /\ f.out = p.out
    <2>1. CASE q.kind = "page"
      <3>1. Step(r, Anonymous(q, q.out))
        BY <1>0, <2>1
      <3>2. /\ Anonymous(q, q.out) \in Progress /\ ProperRequest(Anonymous(q, q.out), Past)
            /\ Anonymous(q, q.out).out = p.out
        BY <1>3, <1>6, <1>7, AnonymousKeeps
      <3>3. QED
        BY <3>1, <3>2
    <2>2. CASE q.kind # "page"
      <3>1. PICK f : f = [q EXCEPT !.pc = "respond"]
        OBVIOUS
      <3>2. /\ f \in Progress /\ f.out = p.out /\ f.rec = q.rec /\ f.kind = q.kind
            /\ f.pc = "respond"
        BY <1>6, <3>1 DEF Progress
      <3>3. Step(r, f)
        BY <1>0, <2>2, <3>1
      <3>4. ProperRequest(f, Past)
        BY <1>3, <1>6, <1>7, <3>2 DEF ProperRequest
      <3>5. QED
        BY <3>2, <3>3, <3>4
    <2>3. QED
      BY <2>1, <2>2
  <1>9. Past' = Past
    BY <1>2 DEF Past, provider, history
  <1>10. /\ req' \in [Requests -> Progress] /\ req'[r] = f
         /\ \A a \in Requests : ProperRequest(req'[a], Past)
    BY <1>8, <1>9, OwnStep
  <1>11. /\ store' \in [Ids -> [rec: Records, seal: Keys \cup {NoId}, expired: BOOLEAN]]
         /\ \A j \in Ids : SoundRecord(store'[j].rec, Past)
    <2>1. CASE store' = store
      BY <2>1 DEF IInv, TypeOK
    <2>2. CASE p.id # NoId /\ store' = [store EXCEPT ![p.id] = Absent]
      BY <2>2, Stored DEF IInv, TypeOK
    <2>3. QED
      BY <1>0, <2>1, <2>2
  <1>12. IInv'
    BY <1>2, <1>10, <1>11, StoreStep DEF IInv, TypeOK
  <1>13. QED
    BY <1>0, <1>8, <1>10, <1>12

\* The session layer on the way out.  An unmodified copy is not written.
LEMMA RespondStep ==
    ASSUME IInv, NEW r \in Requests, NEW failed \in BOOLEAN, Respond(r, failed)
    PROVE  /\ IInv' /\ req'[r].out = "none"
           /\ req[r].modified = FALSE => store' = store
  <1>1. Step(r, Idle) /\ UNCHANGED <<key, provider, clocks, history>>
    BY DEF Respond
  <1>2. Past' = Past
    BY <1>1 DEF Past, provider, history
  <1>3. Idle \in Progress /\ ProperRequest(Idle, Past)
    BY IdleRequest, Stored
  <1>4. /\ req' \in [Requests -> Progress] /\ req'[r].out = "none"
        /\ \A a \in Requests : ProperRequest(req'[a], Past)
    BY <1>1, <1>2, <1>3, OwnStep, IdleRequest, Stored
  <1>5. req[r] \in Progress /\ req[r].rec \in Records /\ SoundRecord(req[r].rec, Past)
    BY DEF IInv, TypeOK, Progress, ProperRequest
  <1>6. CASE store' = store /\ cookie' \in Ids \cup {NoId}
    BY <1>1, <1>4, <1>6, StoreStep DEF IInv, TypeOK
  <1>7. CASE req[r].modified /\ \E i \in Ids : store' = [store EXCEPT ![i] = save(req[r].rec)] /\ cookie' = i
    <2>1. PICK i \in Ids : store' = [store EXCEPT ![i] = save(req[r].rec)] /\ cookie' = i
      BY <1>7
    <2>2. /\ store' \in [Ids -> [rec: Records, seal: Keys \cup {NoId}, expired: BOOLEAN]]
          /\ \A j \in Ids : SoundRecord(store'[j].rec, Past)
      BY <1>5, <2>1, Stored DEF IInv, TypeOK
    <2>3. IInv'
      BY <1>1, <1>4, <2>1, <2>2, StoreStep DEF IInv, TypeOK
    <2>4. QED
      BY <1>4, <1>7, <2>3
  <1>8. QED
    BY <1>6, <1>7 DEF Respond, IInv, TypeOK

\* The store is swept or lapses, the server restarts.
LEMMA StoreOnlyStep ==
    ASSUME IInv, (\E i \in Ids : Lapse(i)) \/ delete_expired \/ (\E k \in Keys : Restart(k))
    PROVE  IInv'
  <1> DEFINE Entries == [rec: Records, seal: Keys \cup {NoId}, expired: BOOLEAN]
  <1>0. /\ store \in [Ids -> Entries] /\ \A i \in Ids : SoundRecord(store[i].rec, Past)
        /\ Absent \in Entries /\ SoundRecord(Absent.rec, Past)
        /\ cookie \in Ids \cup {NoId} /\ key \in Keys
        /\ req \in [Requests -> Progress] /\ \A r \in Requests : ProperRequest(req[r], Past)
    BY Stored DEF IInv, TypeOK
  <1>1. ASSUME NEW i \in Ids, Lapse(i) PROVE IInv'
    <2>1. UNCHANGED <<cookie, key, req, provider, clocks, history>>
      BY <1>1 DEF Lapse
    <2>2. /\ store' \in [Ids -> Entries]
          /\ \A j \in Ids : store'[j].rec = store[j].rec
      BY <1>0, <1>1 DEF Lapse
    <2> HIDE DEF Entries
    <2>3. QED
      BY <1>0, <2>1, <2>2, StoreStep DEF Entries
  <1>2. CASE delete_expired
    <2>1. UNCHANGED <<cookie, key, req, provider, clocks, history>>
      BY <1>2 DEF delete_expired
    <2>2. /\ store' \in [Ids -> Entries]
          /\ \A j \in Ids : store'[j] \in {Absent, store[j]}
      BY <1>0, <1>2 DEF delete_expired
    <2>3. \A j \in Ids : SoundRecord(store'[j].rec, Past)
      BY <1>0, <2>2
    <2>4. QED
      BY <1>0, <2>1, <2>2, <2>3, StoreStep
  <1>3. ASSUME NEW k \in Keys, Restart(k) PROVE IInv'
    <2>1. UNCHANGED <<cookie, provider, clocks, history>> /\ key' = k
      BY <1>3 DEF Restart
    <2>2. Idle \in Progress /\ ProperRequest(Idle, Past)
      BY IdleRequest, Stored
    <2>3. /\ req' \in [Requests -> Progress]
          /\ \A r \in Requests : ProperRequest(req'[r], Past)
      BY <1>3, <2>2 DEF Restart
    <2>4. /\ store' \in [Ids -> Entries]
          /\ \A j \in Ids : store'[j] \in {Absent, store[j]}
      BY <1>0, <1>3 DEF Restart
    <2>5. \A j \in Ids : SoundRecord(store'[j].rec, Past)
      BY <1>0, <2>4
    <2>6. QED
      BY <1>0, <2>1, <2>3, <2>4, <2>5, StoreStep
  <1>4. QED
    BY <1>1, <1>2, <1>3

\* Tokens age, the issuer replaces a key.
LEMMA OutsideStep ==
    ASSUME IInv, (\E g \in Issued : Expire(g)) \/ Distrust
    PROVE  IInv'
  <1>1. UNCHANGED <<store, cookie, key, req, codes, grants, refreshable, offline, torn, completed>>
    BY DEF Expire, Distrust, provider, history
  <1>2. stale' \subseteq Issued /\ distrusted' \subseteq Issued
    BY DEF Expire, Distrust, IInv, TypeOK
  <1>3. TypeOK'
    BY <1>1, <1>2 DEF IInv, TypeOK, Issued
  <1>4. Past' = Past
    BY <1>1 DEF Past
  <1>5. QED
    BY <1>1, <1>3, <1>4 DEF IInv

\* Every step keeps the inductive invariant.
LEMMA NextIInv == IInv /\ [Next]_vars => IInv'
  <1> SUFFICES ASSUME IInv, [Next]_vars PROVE IInv'
    OBVIOUS
  <1>1. ASSUME NEW r \in Requests, Login(r) \/ Logout(r) \/ Page(r) \/ LoadFails(r) PROVE IInv'
    BY <1>1, LoginStep, LogoutStep, PageStep, LoadFailsStep
  <1>2. ASSUME NEW r \in Requests, NEW n \in Logins, Callback(r, n) PROVE IInv'
    BY <1>2, CallbackStep
  <1>3. ASSUME NEW r \in Requests, Handle(r) PROVE IInv'
    BY <1>3, ExchangeStep, ExchangeFailsStep, RefreshStep, RefreshFailsStep, VerifyStep,
       FlushStep, RespondStep DEF Handle
  <1>4. CASE (\E g \in Issued : Expire(g)) \/ Distrust
    BY <1>4, OutsideStep
  <1>5. CASE (\E i \in Ids : Lapse(i)) \/ delete_expired \/ (\E k \in Keys : Restart(k))
    BY <1>5, StoreOnlyStep
  <1>6. CASE UNCHANGED vars
    BY <1>6 DEF vars, provider, clocks, history, IInv, TypeOK, Issued, Past
  <1>7. QED
    BY <1>1, <1>2, <1>3, <1>4, <1>5, <1>6 DEF Next

-----------------------------------------------------------------------------
\* The inductive invariant holds in every reachable state: of every record, its
\* verifier, state and nonce, its tokens' logins and the logins those callbacks
\* completed.
THEOREM InvariantHolds == Spec => []IInv
  BY InitIInv, NextIInv, PTL DEF Spec

\* Type correctness of the store, the requests in progress and the provider.
THEOREM TypeCorrect == Spec => []TypeOK
  <1>1. IInv => TypeOK
    BY DEF IInv
  <1>2. QED
    BY <1>1, InvariantHolds, PTL

\* Verifier, state and nonce of every record come from one login, however many
\* logins and callbacks overlap and whichever writes last, but for logins whose
\* writes failed in part.
THEOREM LoginIsWholeHolds == Spec => []LoginIsWhole
  <1>1. ASSUME IInv PROVE LoginIsWhole
    <2>1. ASSUME NEW rec \in AllRecords PROVE SoundRecord(rec, Past)
      BY <1>1 DEF IInv, AllRecords, ProperRequest
    <2>2. QED
      BY <2>1 DEF LoginIsWhole, SoundRecord, Past
  <1>2. QED
    BY <1>1, InvariantHolds, PTL

\* The expiry of every record is the access token's, and its tokens were granted
\* to one login by a provider that treats all logins alike, whatever callbacks
\* and refreshes overwrite each other.
THEOREM OneGrantHolds == Spec => []OneGrant
  <1>1. ASSUME IInv PROVE OneGrant
    <2>1. ASSUME NEW rec \in AllRecords
          PROVE  /\ rec.access = rec.expiry
                 /\ rec.access # 0 => rec.id_token # 0
                 /\ \A t \in {rec.refresh, rec.id_token} \ {0} :
                       Uniform => grants[t] = grants[rec.access]
      <3>1. SoundRecord(rec, Past)
        BY <1>1 DEF IInv, AllRecords, ProperRequest
      <3>2. Past.grants = grants /\ Past.offline = offline
        BY DEF Past
      <3>3. QED
        BY <3>1, <3>2 DEF SoundRecord, Uniform
    <2>2. QED
      BY <2>1 DEF OneGrant
  <1>2. QED
    BY <1>1, InvariantHolds, PTL

\* Only the answer of a signature check makes an identity.
LEMMA IdentityStep ==
    ASSUME IInv, [Next]_vars, NEW r \in Requests,
           req'[r].out = "identity", req[r].out # "identity"
    PROVE  /\ req'[r].who \in completed
           /\ Uniform => grants[req'[r].rec.access] = req'[r].who
  <1>0. req \in [Requests -> Progress]
    BY DEF IInv, TypeOK
  <1>1. ASSUME NEW p \in Requests, req'[p].out # "identity", req' = [req EXCEPT ![p] = req'[p]]
        PROVE  FALSE
    BY <1>0, <1>1
  <1>2. ASSUME NEW p \in Requests, NEW f, Step(p, f) PROVE req' = [req EXCEPT ![p] = req'[p]]
    BY <1>0, <1>2 DEF Step
  <1>3. ASSUME NEW p \in Requests, Login(p) PROVE FALSE
    <2>1. PICK f : Step(p, f)
      BY <1>3 DEF Login
    <2>2. QED
      BY <1>1, <1>2, <1>3, <2>1, LoginStep
  <1>4. ASSUME NEW p \in Requests, Logout(p) PROVE FALSE
    <2>1. PICK f : Step(p, f)
      BY <1>4 DEF Logout
    <2>2. QED
      BY <1>1, <1>2, <1>4, <2>1, LogoutStep
  <1>5. ASSUME NEW p \in Requests, Page(p) PROVE FALSE
    <2>1. PICK f : Step(p, f)
      BY <1>5 DEF Page
    <2>2. QED
      BY <1>1, <1>2, <1>5, <2>1, PageStep
  <1>6. ASSUME NEW p \in Requests, LoadFails(p) PROVE FALSE
    <2>1. PICK f : Step(p, f)
      BY <1>6 DEF LoadFails
    <2>2. QED
      BY <1>1, <1>2, <1>6, <2>1, LoadFailsStep
  <1>7. ASSUME NEW p \in Requests, NEW n \in Logins, Callback(p, n) PROVE FALSE
    <2>1. PICK f : Step(p, f)
      BY <1>7 DEF Callback
    <2>2. QED
      BY <1>1, <1>2, <1>7, <2>1, CallbackStep
  <1>8. ASSUME NEW p \in Requests, Exchange(p) PROVE FALSE
    <2>1. PICK f : Step(p, f)
      BY <1>8 DEF Exchange
    <2>2. QED
      BY <1>1, <1>2, <1>8, <2>1, ExchangeStep
  <1>9. ASSUME NEW p \in Requests, ExchangeFails(p) PROVE FALSE
    <2>1. PICK f : Step(p, f)
      BY <1>9 DEF ExchangeFails
    <2>2. QED
      BY <1>1, <1>2, <1>9, <2>1, ExchangeFailsStep
  <1>10. ASSUME NEW p \in Requests, Refresh(p) PROVE FALSE
    <2>1. PICK f : Step(p, f)
      BY <1>10 DEF Refresh
    <2>2. QED
      BY <1>1, <1>2, <1>10, <2>1, RefreshStep
  <1>11. ASSUME NEW p \in Requests, RefreshFails(p) PROVE FALSE
    <2>1. PICK f : Step(p, f)
      BY <1>11 DEF RefreshFails
    <2>2. QED
      BY <1>1, <1>2, <1>11, <2>1, RefreshFailsStep
  <1>12. ASSUME NEW p \in Requests, flush(p) PROVE FALSE
    <2>1. PICK f : Step(p, f)
      BY <1>12 DEF flush
    <2>2. req'[p].out = req[p].out /\ req' = [req EXCEPT ![p] = req'[p]]
      BY <1>2, <1>12, <2>1, FlushStep
    <2>3. QED
      BY <1>0, <2>2
  <1>13. ASSUME NEW p \in Requests, NEW failed \in BOOLEAN, Respond(p, failed) PROVE FALSE
    <2>1. PICK f : Step(p, f)
      BY <1>13 DEF Respond
    <2>2. QED
      BY <1>1, <1>2, <1>13, <2>1, RespondStep
  <1>14. ASSUME NEW p \in Requests, Verify(p) PROVE p = r
    <2>1. PICK f : Step(p, f)
      BY <1>14 DEF Verify
    <2>2. QED
      BY <1>0, <1>2, <2>1
  <1>15. ASSUME NEW k \in Keys, Restart(k) PROVE FALSE
    BY <1>15 DEF Restart, Idle
  <1>16. req' # req
    OBVIOUS
  <1>17. Verify(r)
    BY <1>3, <1>4, <1>5, <1>6, <1>7, <1>8, <1>9, <1>10, <1>11, <1>12, <1>13, <1>14, <1>15, <1>16
       DEF Next, Handle, Expire, Distrust, Lapse, delete_expired, vars
  <1>18. QED
    BY <1>17, VerifyStep

\* An identity is given only to a user whose login a callback completed in this
\* browser, with that user's access token if the provider treats all logins
\* alike.
THEOREM IdentityForCauseHolds == Spec => IdentityForCause
  <1>1. IInv /\ [Next]_vars =>
          [\A r \in Requests :
            req'[r].out = "identity" /\ req[r].out # "identity" =>
                /\ req'[r].who \in completed
                /\ Uniform => grants[req'[r].rec.access] = req'[r].who]_vars
    BY IdentityStep
  <1>2. QED
    BY <1>1, InvariantHolds, PTL DEF Spec, IdentityForCause

\* A callback that fails writes nothing to the store.
THEOREM FailedCallbackHarmless == Spec => FailedCallbackIsHarmless
  <1>1. ASSUME IInv, NEW r \in Requests, req[r].kind = "callback", req[r].out = "401", Handle(r)
        PROVE  store' = store
    <2>1. ProperRequest(req[r], Past) /\ req[r].modified = FALSE
      BY <1>1 DEF IInv, ProperRequest
    <2>2. ~Exchange(r) /\ ~ExchangeFails(r)
      BY <1>1, <2>1 DEF ProperRequest, Exchange, ExchangeFails
    <2>3. ~Refresh(r) /\ ~RefreshFails(r) /\ ~flush(r) /\ ~Verify(r)
      BY <1>1, <2>1 DEF ProperRequest, Refresh, RefreshFails, flush, Verify
    <2>4. QED
      BY <1>1, <2>1, <2>2, <2>3, RespondStep DEF Handle
  <1>2. IInv => [\A r \in Requests :
                   req[r].kind = "callback" /\ req[r].out = "401" /\ Handle(r) => store' = store]_vars
    BY <1>1
  <1>3. QED
    BY <1>2, InvariantHolds, PTL DEF Spec, FailedCallbackIsHarmless
=============================================================================
