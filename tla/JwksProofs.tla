----------------------------- MODULE JwksProofs -----------------------------
(***************************************************************************)
(* Proofs about the key cache, for any key documents and tokens, any       *)
(* number of requests and any number of attempts at start-up.              *)
(***************************************************************************)
EXTENDS Jwks, SequenceTheorems, TLAPS

-----------------------------------------------------------------------------
(* The pure parts *)

\* The documents are numbered from 1.
LEMMA Numbered ==
    /\ Len(Documents) \in Nat /\ Len(Documents) > 0
    /\ DOMAIN Documents = 1 .. Len(Documents)
  BY DocumentsAssumption, LenProperties

\* A key's algorithm is one that jsonwebtoken knows.
LEMMA AlgorithmKnown == \A j : jwk_signing_algorithm(j) \in Algorithms
  BY DEF jwk_signing_algorithm, Algorithms

\* build_keys keeps only keys of the document, each under its own key id, and
\* none at all in production without audiences.
LEMMA BuiltFromDocument ==
    ASSUME NEW doc
    PROVE  /\ \A k \in DOMAIN build_keys(doc) :
                 /\ k # NoKid
                 /\ \E j \in doc : /\ j.kid = k /\ j.parses
                                   /\ build_keys(doc)[k] =
                                        [key |-> j.key, alg |-> jwk_signing_algorithm(j)]
           /\ conf.audiences = {} /\ conf.is_production => DOMAIN build_keys(doc) = {}
  <1> DEFINE usable == {j \in doc : j.kid # NoKid /\ j.parses}
             chosen(k) == CHOOSE j \in usable : j.kid = k
  <1>1. CASE conf.audiences = {} /\ conf.is_production
    <2>1. build_keys(doc) = << >>
      BY <1>1 DEF build_keys
    <2>2. QED
      BY <2>1
  <1>2. CASE ~(conf.audiences = {} /\ conf.is_production)
    <2>1. build_keys(doc) = [k \in {j.kid : j \in usable} |->
                               [key |-> chosen(k).key, alg |-> jwk_signing_algorithm(chosen(k))]]
      BY <1>2 DEF build_keys
    <2>2. ASSUME NEW k \in {j.kid : j \in usable}
          PROVE  chosen(k) \in usable /\ chosen(k).kid = k
      OBVIOUS
    <2> HIDE DEF chosen
    <2>3. ASSUME NEW k \in DOMAIN build_keys(doc)
          PROVE  /\ chosen(k) \in doc /\ chosen(k).kid = k /\ k # NoKid /\ chosen(k).parses
                 /\ build_keys(doc)[k] =
                      [key |-> chosen(k).key, alg |-> jwk_signing_algorithm(chosen(k))]
      <3>1. k \in {j.kid : j \in usable}
        BY <2>1
      <3>2. QED
        BY <2>1, <2>2, <3>1
    <2>4. QED
      BY <1>2, <2>3
  <1>3. QED
    BY <1>1, <1>2

\* What is published stays published.
LEMMA PublishedGrows ==
    ASSUME epoch \in Nat, epoch' \in Nat, epoch <= epoch', NEW k
    PROVE  Published(k) \subseteq Published(k)'
  BY DEF Published

\* A map built from a document published so far is a good cache.
LEMMA BuiltForCause ==
    ASSUME epoch \in DOMAIN Documents, NEW n \in 1 .. epoch,
           keys' = build_keys(Documents[n]), UNCHANGED <<conf, epoch>>
    PROVE  CachedForCause' /\ \A k \in DOMAIN keys' : k # NoKid /\ keys'[k].alg \in Algorithms
  <1>1. ASSUME NEW k \in DOMAIN keys'
        PROVE  /\ k # NoKid /\ keys'[k].alg \in Algorithms
               /\ \E j \in Published(k)' :
                     j.parses /\ keys'[k] = [key |-> j.key, alg |-> jwk_signing_algorithm(j)]
    <2>1. PICK j \in Documents[n] :
             /\ k # NoKid /\ j.kid = k /\ j.parses
             /\ keys'[k] = [key |-> j.key, alg |-> jwk_signing_algorithm(j)]
      BY BuiltFromDocument, <1>1
    <2>2. j \in Published(k)'
      BY <2>1 DEF Published
    <2>3. keys'[k].alg \in Algorithms
      BY <2>1, AlgorithmKnown
    <2>4. QED
      BY <2>1, <2>2, <2>3
  <1>2. conf'.audiences = {} /\ conf'.is_production => DOMAIN keys' = {}
    BY BuiltFromDocument
  <1>3. QED
    BY <1>1, <1>2 DEF CachedForCause

\* A cached key decides only for cause: it rejects no genuine token of a session
\* and accepts no bearer token that nothing published supports.
LEMMA DecodedForCause ==
    ASSUME IInv, NEW t \in Tokens, t.kid \in DOMAIN keys, NEW p \in {"bearer", "session"},
           NEW v, v = Decoded(t, p, keys[t.kid])
    PROVE  /\ v \in Verdicts
           /\ p = "session" /\ v = "Invalid" => ~Genuine(t)
           /\ v \in {"identity", "anonymous"} => Supported(t)
  <1> DEFINE cached == keys[t.kid]
  <1>1. PICK j \in Published(t.kid) :
          j.parses /\ cached.key = j.key /\ cached.alg = jwk_signing_algorithm(j)
    BY DEF IInv, CachedForCause
  <1>2. ~(conf.audiences = {} /\ conf.is_production)
    BY DEF IInv, CachedForCause
  <1>3. Genuine(t) => Signed(t, cached)
    BY <1>1 DEF Genuine, Signed
  <1> HIDE DEF cached
  <1>4. CASE p = "bearer"
    <2>1. v = IF decodes(t, cached) THEN claims_to_identity(t) ELSE "Invalid"
      BY <1>4 DEF Decoded, cached
    <2>2. CASE decodes(t, cached)
      <3>1. v \in {"identity", "anonymous"}
        BY <2>1, <2>2 DEF claims_to_identity
      <3>2. /\ t.key = cached.key /\ t.alg = cached.alg
            /\ t.exp \notin {"past", Absent} /\ t.iss \in {Issuer, Absent}
            /\ conf.audiences = {} \/ t.aud \in conf.audiences \cup {Absent}
        BY <2>2 DEF decodes, Signed
      <3>3. Supported(t)
        BY <1>1, <1>2, <3>2 DEF Supported
      <3>4. QED
        BY <1>4, <3>1, <3>3 DEF Verdicts
    <2>3. CASE ~decodes(t, cached)
      BY <1>4, <2>1, <2>3 DEF Verdicts
    <2>4. QED
      BY <2>2, <2>3
  <1>5. CASE p = "session"
    <2>1. v = IF Signed(t, cached) THEN "Valid" ELSE "Invalid"
      BY <1>5 DEF Decoded, cached
    <2>2. QED
      BY <1>3, <2>1 DEF Verdicts
  <1>6. QED
    BY <1>4, <1>5
-----------------------------------------------------------------------------
(* Steps *)

\* The initial states.
LEMMA InitIInv == Init => IInv
  <1> SUFFICES ASSUME Init PROVE IInv
    OBVIOUS
  <1>1. DOMAIN keys = {} /\ answer = NoAnswer
    BY DEF Init
  <1>2. reachable \in BOOLEAN /\ error = "none" /\ attempt = 1 /\ phase = "fetching"
    BY DEF Init, None
  <1>3. conf \in [audiences: SUBSET Audiences, is_production: BOOLEAN]
    BY DEF Init
  <1>4. epoch = 1 /\ epoch \in DOMAIN Documents /\ epoch \in Nat
    BY Numbered DEF Init
  <1>5. /\ pc \in [Tasks -> {"idle", "fetch", "store", "again"}]
        /\ tok \in [Requests -> {NoToken} \cup Tokens]
        /\ path \in [Requests -> {None, "bearer", "session"}]
        /\ got \in [Tasks -> {0} \cup DOMAIN Documents]
    BY DEF Init
  <1>6. TypeOK
    BY <1>1, <1>2, <1>3, <1>4, <1>5, PolicyAssumption DEF TypeOK, None
  <1>7. CachedForCause
    BY <1>1 DEF CachedForCause
  <1>8. UnderWay
    BY <1>4 DEF Init, UnderWay, Tasks
  <1>9. NoFalseAlarm /\ AcceptedForCause
    BY <1>1 DEF NoFalseAlarm, AcceptedForCause, Accepted
  <1>10. GivesUpForCause
    BY <1>2, PolicyAssumption DEF GivesUpForCause
  <1>11. QED
    BY <1>6, <1>7, <1>8, <1>9, <1>10 DEF IInv

\* What IInv says of the numbers.
LEMMA Counted ==
    ASSUME IInv
    PROVE  /\ epoch \in Nat /\ epoch \in 1 .. Len(Documents)
           /\ \A t \in Tasks : got[t] \in 0 .. epoch /\ (pc[t] = "store" => got[t] \in 1 .. epoch)
  BY Numbered DEF IInv, TypeOK, UnderWay

\* The end of validate_token or verify_signature, with a verdict for cause.
LEMMA AnswersStep ==
    ASSUME IInv, NEW r \in Requests, NEW t \in Tokens, NEW p \in {"bearer", "session"},
           NEW v \in Verdicts, Answers(r, t, p, v),
           p = "session" /\ v = "Invalid" => ~Genuine(t),
           v \in {"identity", "anonymous"}  => Supported(t),
           UNCHANGED <<conf, epoch, reachable, startup, keys, got>>
    PROVE  IInv'
  <1>1. UNCHANGED <<conf, epoch, reachable, phase, attempt, error, keys, got>>
    BY DEF startup
  <1>2. answer' = [tok |-> t, path |-> p, verdict |-> v]
    BY DEF Answers
  <1>3. /\ pc' \in [Tasks -> {"idle", "fetch", "store", "again"}]
        /\ \A u \in Tasks : pc'[u] # "idle" => u # r /\ pc'[u] = pc[u]
    BY DEF Answers, IInv, TypeOK, Tasks
  <1>4. /\ tok' \in [Requests -> {NoToken} \cup Tokens]
        /\ path' \in [Requests -> {None, "bearer", "session"}]
        /\ \A u \in Requests : u # r => tok'[u] = tok[u] /\ path'[u] = path[u]
    BY DEF Answers, IInv, TypeOK
  <1>5. answer' \in [tok: Tokens, path: {"bearer", "session"}, verdict: Verdicts]
    BY <1>2
  <1>6. TypeOK'
    BY <1>1, <1>3, <1>4, <1>5 DEF IInv, TypeOK
  <1>7. CachedForCause' /\ GivesUpForCause'
    BY <1>1 DEF IInv, CachedForCause, GivesUpForCause, Published
  <1>8. UnderWay'
    BY <1>1, <1>3, <1>4 DEF IInv, UnderWay, Tasks
  <1>9. answer'.tok = t /\ answer'.path = p /\ answer'.verdict = v
    BY <1>2
  <1>10. NoFalseAlarm'
    <2>1. Genuine(t)' = Genuine(t)
      BY <1>1 DEF Genuine, Published
    <2>2. QED
      BY <1>9, <2>1 DEF NoFalseAlarm, Genuine, Published
  <1>11. AcceptedForCause'
    <2>1. \A k : Published(k)' = Published(k)
      BY <1>1 DEF Published
    <2>2. Supported(t)' = Supported(t)
      BY <1>1, <2>1 DEF Supported
    <2>3. QED
      BY <1>9, <2>2 DEF AcceptedForCause, Accepted
  <1>12. QED
    BY <1>6, <1>7, <1>8, <1>10, <1>11 DEF IInv

\* A step that answers nothing and leaves the start-up and the cache alone.
LEMMA SilentStep ==
    ASSUME IInv, answer' = NoAnswer, UNCHANGED <<conf, startup, keys>>,
           reachable' \in BOOLEAN, epoch' \in DOMAIN Documents, epoch <= epoch',
           pc' \in [Tasks -> {"idle", "fetch", "store", "again"}],
           tok' \in [Requests -> {NoToken} \cup Tokens],
           path' \in [Requests -> {None, "bearer", "session"}],
           got' \in [Tasks -> {0} \cup DOMAIN Documents],
           UnderWay'
    PROVE  IInv'
  <1>1. UNCHANGED <<conf, phase, attempt, error, keys>>
    BY DEF startup
  <1>2. TypeOK'
    BY <1>1 DEF IInv, TypeOK
  <1>3. \A k : Published(k) \subseteq Published(k)'
    BY Counted, Numbered, PublishedGrows
  <1>4. CachedForCause'
    <2>1. ASSUME NEW k \in DOMAIN keys'
          PROVE  /\ k # NoKid
                 /\ \E j \in Published(k)' :
                       j.parses /\ keys'[k] = [key |-> j.key, alg |-> jwk_signing_algorithm(j)]
      BY <1>1, <1>3, <2>1 DEF IInv, CachedForCause
    <2>2. conf'.audiences = {} /\ conf'.is_production => DOMAIN keys' = {}
      BY <1>1 DEF IInv, CachedForCause
    <2>3. QED
      BY <2>1, <2>2 DEF CachedForCause
  <1>5. GivesUpForCause'
    BY <1>1 DEF IInv, GivesUpForCause
  <1>6. NoFalseAlarm' /\ AcceptedForCause'
    BY DEF NoFalseAlarm, AcceptedForCause, Accepted
  <1>7. QED
    BY <1>2, <1>4, <1>5, <1>6 DEF IInv

\* The first fetch succeeds.
LEMMA FirstFetchStep ==
    ASSUME IInv, FirstFetch
    PROVE  IInv'
  <1>1. /\ keys' = build_keys(Documents[epoch]) /\ phase' = "serving"
        /\ attempt' = 1 /\ error' = None
        /\ UNCHANGED <<conf, epoch, reachable, pc, tok, path, got, answer>>
    BY DEF FirstFetch, tasks
  <1>2. CachedForCause' /\ \A k \in DOMAIN keys' : k # NoKid /\ keys'[k].alg \in Algorithms
    BY <1>1, Counted, Numbered, BuiltForCause
  <1>3. TypeOK'
    BY <1>1, <1>2, PolicyAssumption DEF IInv, TypeOK
  <1>4. UnderWay' /\ NoFalseAlarm' /\ AcceptedForCause'
    BY <1>1 DEF IInv, UnderWay, NoFalseAlarm, AcceptedForCause, Accepted, Supported, Genuine, Published
  <1>5. GivesUpForCause'
    BY <1>1, PolicyAssumption DEF GivesUpForCause
  <1>6. QED
    BY <1>2, <1>3, <1>4, <1>5 DEF IInv

\* An attempt fails: retry_transient tries again or gives up.
LEMMA FailedFetchStep ==
    ASSUME IInv, NEW e \in fetch_jwks_errors, FailedFetch(e)
    PROVE  IInv'
  <1>1. /\ phase = "fetching" /\ error' = e
        /\ UNCHANGED <<conf, epoch, reachable, keys, pc, tok, path, got, answer>>
        /\ \/ GivesUp(e) /\ phase' = "failed" /\ attempt' = attempt
           \/ ~GivesUp(e) /\ attempt' = attempt + 1 /\ phase' = phase
    BY DEF FailedFetch, tasks
  <1>2. e \in {"Io", "Configuration"} /\ attempt \in 1 .. MaxAttempts /\ MaxAttempts \in Nat
    BY PolicyAssumption DEF fetch_jwks_errors, IInv, TypeOK
  <1>3. attempt' \in 1 .. MaxAttempts /\ phase' \in {"fetching", "serving", "failed"}
    BY <1>1, <1>2 DEF GivesUp
  <1>4. TypeOK'
    BY <1>1, <1>3 DEF IInv, TypeOK
  <1>5. GivesUpForCause'
    BY <1>1, <1>2 DEF GivesUp, is_transient, GivesUpForCause
  <1>6. CachedForCause' /\ UnderWay' /\ NoFalseAlarm' /\ AcceptedForCause'
    BY <1>1 DEF IInv, CachedForCause, UnderWay, NoFalseAlarm, AcceptedForCause, Accepted, Supported, Genuine, Published
  <1>7. QED
    BY <1>4, <1>5, <1>6 DEF IInv

\* A request enters validate_token or verify_signature.
LEMMA LookupStep ==
    ASSUME IInv, NEW r \in Requests, NEW t \in Tokens, NEW p \in {"bearer", "session"},
           Lookup(r, t, p)
    PROVE  IInv'
  <1>1. UNCHANGED <<conf, epoch, reachable, startup, keys, got>>
    BY DEF Lookup
  <1>2. CASE t.kid = NoKid /\ Answers(r, t, p, "Invalid")
    <2>1. ~Genuine(t) /\ "Invalid" \in Verdicts
      BY <1>2 DEF Genuine, Verdicts
    <2>2. QED
      BY <1>1, <1>2, <2>1, AnswersStep
  <1>3. CASE t.kid \in DOMAIN keys /\ Answers(r, t, p, Decoded(t, p, keys[t.kid]))
    <2>1. PICK v : v = Decoded(t, p, keys[t.kid])
      OBVIOUS
    <2>2. /\ v \in Verdicts
          /\ p = "session" /\ v = "Invalid" => ~Genuine(t)
          /\ v \in {"identity", "anonymous"}  => Supported(t)
      BY <1>3, <2>1, DecodedForCause
    <2>3. QED
      BY <1>1, <1>3, <2>1, <2>2, AnswersStep
  <1>4. CASE /\ pc' = [pc EXCEPT ![r] = "fetch"]
             /\ tok' = [tok EXCEPT ![r] = t]
             /\ path' = [path EXCEPT ![r] = p]
             /\ answer' = NoAnswer
    <2>1. /\ pc' \in [Tasks -> {"idle", "fetch", "store", "again"}]
          /\ pc'[r] = "fetch" /\ \A u \in Tasks : u # r => pc'[u] = pc[u]
      BY <1>4 DEF IInv, TypeOK, Tasks
    <2>2. /\ tok' \in [Requests -> {NoToken} \cup Tokens]
          /\ tok'[r] = t /\ \A u \in Requests : u # r => tok'[u] = tok[u]
      BY <1>4 DEF IInv, TypeOK
    <2>3. /\ path' \in [Requests -> {None, "bearer", "session"}]
          /\ path'[r] = p /\ \A u \in Requests : u # r => path'[u] = path[u]
      BY <1>4 DEF IInv, TypeOK
    <2>4. UnderWay'
      <3>1. \A u \in Tasks : got'[u] <= epoch' /\ (pc'[u] = "store" => got'[u] # 0)
        BY <1>1, <2>1 DEF IInv, UnderWay
      <3>2. \A u \in Requests :
              pc'[u] # "idle" => tok'[u] \in Tokens /\ path'[u] \in {"bearer", "session"}
        BY <2>1, <2>2, <2>3 DEF IInv, UnderWay, Tasks
      <3>3. QED
        BY <3>1, <3>2 DEF UnderWay
    <2>5. epoch <= epoch' /\ epoch' \in DOMAIN Documents /\ reachable' \in BOOLEAN
      BY <1>1, Counted DEF IInv, TypeOK
    <2>6. got' \in [Tasks -> {0} \cup DOMAIN Documents]
      BY <1>1 DEF IInv, TypeOK
    <2>7. QED
      BY <1>1, <1>4, <2>1, <2>2, <2>3, <2>4, <2>5, <2>6, SilentStep
  <1>5. QED
    BY <1>2, <1>3, <1>4 DEF Lookup

\* The second lookup decides, with whatever map is there by then.
LEMMA LookupAgainStep ==
    ASSUME IInv, NEW r \in Requests, LookupAgain(r)
    PROVE  IInv'
  <1> DEFINE t == tok[r]
             p == path[r]
  <1>1. /\ pc[r] = "again"
        /\ Answers(r, t, p, IF t.kid \in DOMAIN keys THEN Decoded(t, p, keys[t.kid])
                            ELSE NotFound(p))
        /\ UNCHANGED <<conf, epoch, reachable, startup, keys, got>>
    BY DEF LookupAgain
  <1>2. t \in Tokens /\ p \in {"bearer", "session"}
    BY <1>1 DEF IInv, UnderWay
  <1> HIDE DEF t, p
  <1>3. CASE t.kid \in DOMAIN keys
    <2>1. PICK v : v = Decoded(t, p, keys[t.kid])
      OBVIOUS
    <2>2. /\ v \in Verdicts
          /\ p = "session" /\ v = "Invalid" => ~Genuine(t)
          /\ v \in {"identity", "anonymous"}  => Supported(t)
      BY <1>2, <1>3, <2>1, DecodedForCause
    <2>3. Answers(r, t, p, v)
      BY <1>1, <1>3, <2>1
    <2>4. QED
      BY <1>1, <1>2, <2>2, <2>3, AnswersStep
  <1>4. CASE t.kid \notin DOMAIN keys
    <2>1. PICK v : v = NotFound(p)
      OBVIOUS
    <2>2. Answers(r, t, p, v)
      BY <1>1, <1>4, <2>1
    <2>3. v \in {"KeyNotFound", "Unverifiable"}
      BY <2>1 DEF NotFound
    <2>4. v \in Verdicts /\ v # "Invalid" /\ v \notin {"identity", "anonymous"}
      BY <2>3 DEF Verdicts
    <2>5. QED
      BY <1>1, <1>2, <2>2, <2>4, AnswersStep
  <1>5. QED
    BY <1>3, <1>4

\* A fetch fails: a request learns that its token could not be checked.
LEMMA FetchFailsStep ==
    ASSUME IInv, NEW t \in Tasks, FetchFails(t)
    PROVE  IInv'
  <1>1. pc[t] = "fetch" /\ UNCHANGED <<conf, epoch, reachable, startup, keys, got>>
    BY DEF FetchFails
  <1>2. CASE /\ t = Refresher /\ pc' = [pc EXCEPT ![t] = "idle"]
             /\ answer' = NoAnswer /\ UNCHANGED <<tok, path>>
    <2>1. /\ pc' \in [Tasks -> {"idle", "fetch", "store", "again"}]
          /\ \A u \in Tasks : pc'[u] # "idle" => pc'[u] = pc[u]
      BY <1>2 DEF IInv, TypeOK
    <2>2. UnderWay'
      BY <1>1, <1>2, <2>1 DEF IInv, UnderWay, Tasks
    <2>3. epoch <= epoch'
      BY <1>1, Counted
    <2>4. QED
      BY <1>1, <1>2, <2>1, <2>2, <2>3, SilentStep DEF IInv, TypeOK
  <1>3. CASE t # Refresher /\ Answers(t, tok[t], path[t], Unrefreshed(path[t]))
    <2>1. t \in Requests /\ tok[t] \in Tokens /\ path[t] \in {"bearer", "session"}
      BY <1>1, <1>3 DEF Tasks, IInv, UnderWay
    <2>2. PICK v : v = Unrefreshed(path[t])
      OBVIOUS
    <2>3. /\ v \in {"Invalid", "Unverifiable"} /\ (path[t] = "session" => v # "Invalid")
      BY <2>1, <2>2 DEF Unrefreshed
    <2>4. v \in Verdicts /\ v \notin {"identity", "anonymous"}
      BY <2>3 DEF Verdicts
    <2>5. QED
      BY <1>1, <1>3, <2>1, <2>2, <2>3, <2>4, AnswersStep
  <1>4. QED
    BY <1>2, <1>3 DEF FetchFails

\* The background task's tick, and the answer of the issuer to a fetch.
LEMMA FetchStep ==
    ASSUME IInv, Tick \/ \E t \in Tasks : Fetch(t)
    PROVE  IInv'
  <1>0. epoch \in Nat /\ epoch \in DOMAIN Documents /\ epoch # 0
    BY Counted DEF IInv, TypeOK
  <1>1. CASE Tick
    <2>1. /\ pc' \in [Tasks -> {"idle", "fetch", "store", "again"}]
          /\ \A u \in Tasks : u # Refresher => pc'[u] = pc[u]
          /\ pc'[Refresher] = "fetch"
      BY <1>1 DEF Tick, IInv, TypeOK, Tasks
    <2>2. UnderWay'
      BY <1>1, <2>1, PolicyAssumption DEF Tick, IInv, UnderWay, Tasks
    <2>3. QED
      BY <1>0, <1>1, <2>1, <2>2, SilentStep DEF Tick, IInv, TypeOK
  <1>2. ASSUME NEW t \in Tasks, Fetch(t) PROVE IInv'
    <2>1. /\ pc[t] = "fetch" /\ pc' = [pc EXCEPT ![t] = "store"]
          /\ got' = [got EXCEPT ![t] = epoch] /\ answer' = NoAnswer
          /\ UNCHANGED <<conf, epoch, reachable, startup, keys, tok, path>>
      BY <1>2 DEF Fetch
    <2>2. /\ pc' \in [Tasks -> {"idle", "fetch", "store", "again"}]
          /\ \A u \in Tasks : u # t => pc'[u] = pc[u]
      BY <2>1 DEF IInv, TypeOK
    <2>3. /\ got' \in [Tasks -> {0} \cup DOMAIN Documents] /\ got'[t] = epoch
          /\ \A u \in Tasks : u # t => got'[u] = got[u]
      BY <1>0, <2>1 DEF IInv, TypeOK
    <2>4. UnderWay'
      <3>1. \A u \in Tasks : got'[u] <= epoch' /\ (pc'[u] = "store" => got'[u] # 0)
        BY <1>0, <2>1, <2>2, <2>3 DEF IInv, UnderWay
      <3>2. \A u \in Requests :
              pc'[u] # "idle" => tok'[u] \in Tokens /\ path'[u] \in {"bearer", "session"}
        BY <2>1, <2>2 DEF IInv, UnderWay, Tasks
      <3>3. QED
        BY <3>1, <3>2 DEF UnderWay
    <2>5. QED
      BY <1>0, <2>1, <2>2, <2>3, <2>4, SilentStep DEF IInv, TypeOK
  <1>3. QED
    BY <1>1, <1>2

\* A refresh replaces the map, by an old document perhaps, never by anything else.
LEMMA RefreshStep ==
    ASSUME IInv, NEW t \in Tasks, refresh(t)
    PROVE  IInv'
  <1>1. /\ pc[t] = "store" /\ keys' = build_keys(Documents[got[t]])
        /\ got' = [got EXCEPT ![t] = 0] /\ answer' = NoAnswer
        /\ pc' = [pc EXCEPT ![t] = IF t = Refresher THEN "idle" ELSE "again"]
        /\ UNCHANGED <<conf, epoch, reachable, phase, attempt, error, tok, path>>
    BY DEF refresh, startup
  <1>2. got[t] \in 1 .. epoch /\ epoch \in Nat /\ epoch \in DOMAIN Documents
    BY <1>1, Counted, Numbered
  <1>3. CachedForCause' /\ \A k \in DOMAIN keys' : k # NoKid /\ keys'[k].alg \in Algorithms
    BY <1>1, <1>2, BuiltForCause
  <1>4. /\ pc' \in [Tasks -> {"idle", "fetch", "store", "again"}]
        /\ pc'[t] # "store" /\ \A u \in Tasks : u # t => pc'[u] = pc[u]
    BY <1>1 DEF IInv, TypeOK
  <1>5. /\ got' \in [Tasks -> {0} \cup DOMAIN Documents] /\ got'[t] = 0
        /\ \A u \in Tasks : u # t => got'[u] = got[u]
    BY <1>1 DEF IInv, TypeOK
  <1>6. UnderWay'
    <2>1. \A u \in Tasks : got'[u] <= epoch' /\ (pc'[u] = "store" => got'[u] # 0)
      BY <1>1, <1>2, <1>4, <1>5 DEF IInv, UnderWay
    <2>2. \A u \in Requests :
            pc'[u] # "idle" => tok'[u] \in Tokens /\ path'[u] \in {"bearer", "session"}
      BY <1>1, <1>4 DEF IInv, UnderWay, Tasks
    <2>3. QED
      BY <2>1, <2>2 DEF UnderWay
  <1>7. TypeOK'
    BY <1>1, <1>3, <1>4, <1>5 DEF IInv, TypeOK
  <1>8. NoFalseAlarm' /\ AcceptedForCause' /\ GivesUpForCause'
    BY <1>1 DEF IInv, NoFalseAlarm, AcceptedForCause, Accepted, GivesUpForCause
  <1>9. QED
    BY <1>3, <1>6, <1>7, <1>8 DEF IInv

\* The issuer rotates its keys, fetches fail for a while.
LEMMA IssuerStep ==
    ASSUME IInv, Rotate \/ Outage
    PROVE  IInv'
  <1>1. CASE Rotate
    <2>1. /\ epoch' \in DOMAIN Documents /\ epoch <= epoch' /\ epoch' \in Nat
          /\ UNCHANGED <<conf, reachable, startup, keys, pc, tok, path, got>> /\ answer' = NoAnswer
      BY <1>1, Counted, Numbered DEF Rotate, tasks
    <2>2. UnderWay'
      BY <2>1, Counted DEF IInv, UnderWay
    <2>3. QED
      BY <2>1, <2>2, SilentStep DEF IInv, TypeOK
  <1>2. CASE Outage
    <2>1. reachable' \in BOOLEAN
      BY <1>2 DEF Outage, IInv, TypeOK
    <2>2. /\ UNCHANGED <<conf, epoch, startup, keys, pc, tok, path, got>> /\ answer' = NoAnswer
          /\ epoch <= epoch'
      BY <1>2, Counted DEF Outage, tasks
    <2>3. UnderWay'
      BY <2>2 DEF IInv, UnderWay
    <2>4. QED
      BY <2>1, <2>2, <2>3, SilentStep DEF IInv, TypeOK
  <1>3. QED
    BY <1>1, <1>2

\* Every step keeps the inductive invariant.
LEMMA NextIInv == IInv /\ [Next]_vars => IInv'
  <1> SUFFICES ASSUME IInv, [Next]_vars PROVE IInv'
    OBVIOUS
  <1>1. CASE FirstFetch
    BY <1>1, FirstFetchStep
  <1>2. ASSUME NEW e \in fetch_jwks_errors, FailedFetch(e) PROVE IInv'
    BY <1>2, FailedFetchStep
  <1>3. ASSUME NEW r \in Requests, NEW t \in Tokens, NEW p \in {"bearer", "session"},
               Lookup(r, t, p)
        PROVE  IInv'
    BY <1>3, LookupStep
  <1>4. ASSUME NEW r \in Requests, LookupAgain(r) PROVE IInv'
    BY <1>4, LookupAgainStep
  <1>5. CASE Tick
    BY <1>5, FetchStep
  <1>6. ASSUME NEW t \in Tasks, Fetch(t) \/ FetchFails(t) \/ refresh(t) PROVE IInv'
    BY <1>6, FetchStep, FetchFailsStep, RefreshStep
  <1>7. CASE Rotate \/ Outage
    BY <1>7, IssuerStep
  <1>8. CASE UNCHANGED vars
    BY <1>8 DEF vars, startup, tasks, IInv, TypeOK, CachedForCause, UnderWay, NoFalseAlarm,
       AcceptedForCause, Accepted, Supported, GivesUpForCause, Genuine, Published
  <1>9. QED
    BY <1>1, <1>2, <1>3, <1>4, <1>5, <1>6, <1>7, <1>8 DEF Next

-----------------------------------------------------------------------------
\* The inductive invariant holds in every reachable state.
THEOREM InvariantHolds == Spec => []IInv
  BY InitIInv, NextIInv, PTL DEF Spec

\* Type correctness of the provider, its start-up and its tasks.
THEOREM TypeCorrect == Spec => []TypeOK
  <1>1. IInv => TypeOK
    BY DEF IInv
  <1>2. QED
    BY <1>1, InvariantHolds, PTL

\* verify_signature ends no session on a genuine token, whatever rotations,
\* outages and late documents the cache has seen.
THEOREM NoFalseAlarmHolds == Spec => []NoFalseAlarm
  <1>1. IInv => NoFalseAlarm
    BY DEF IInv
  <1>2. QED
    BY <1>1, InvariantHolds, PTL

\* validate_token accepts only what a published key signed, within the leeway of
\* its expiry, that names no other issuer and no audience but a configured one,
\* whichever document the cache holds.
THEOREM AcceptedForCauseHolds == Spec => []AcceptedForCause
  <1>1. IInv => AcceptedForCause
    BY DEF IInv
  <1>2. QED
    BY <1>1, InvariantHolds, PTL

\* retry_transient gives up after max_attempts attempts or on an error that
\* cannot be cured, and retries no such error.
THEOREM GivesUpForCauseHolds == Spec => []GivesUpForCause
  <1>1. IInv => GivesUpForCause
    BY DEF IInv
  <1>2. QED
    BY <1>1, InvariantHolds, PTL
=============================================================================
