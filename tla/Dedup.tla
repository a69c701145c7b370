-------------------------------- MODULE Dedup --------------------------------
(***************************************************************************)
(* Request deduplication (src/src/fluent/dedup.rs): concurrent requests    *)
(* that run `check_and_mark` on the shared RequestTracker, and the         *)
(* background `cleanup_task`.                                              *)
(*                                                                         *)
(* check_and_mark has no await, so a request cannot be dropped inside it,  *)
(* but it is not one step either: the tracker (a DashMap), the insertion   *)
(* index `order` (a Mutex) and the sequence counter (an atomic) are        *)
(* accessed one after the other, and worker threads interleave between     *)
(* the accesses.  Each access is one action.                               *)
(*                                                                         *)
(* A DashMap operation on one key is atomic; len and retain visit the      *)
(* shards one by one, each under its own lock.  The keys are numbered and  *)
(* each is the only key of its shard, the finest interleaving there is.    *)
(***************************************************************************)
EXTENDS Integers, Sequences, FiniteSets

CONSTANTS
    Requests,     \* request-processing threads
    NoRequest,    \* the Mutex of order is free
    NumKeys,      \* request ids are 1 .. NumKeys
    Ttl,          \* ttl, in ticks of the clock
    MaxEntries,   \* max_entries
    MaxTime,      \* bound: last tick of the clock
    MaxChecks     \* bound: calls of check_and_mark

ASSUME DedupAssumption ==
    /\ NoRequest \notin Requests
    /\ NumKeys \in Nat \ {0}
    /\ Ttl \in Nat
    /\ MaxEntries \in Nat
    /\ MaxTime \in Nat
    /\ MaxChecks \in Nat

Keys == 1 .. NumKeys

NoSeq == -1
NoEntry == [expires_at |-> 0, seq |-> NoSeq]

VARIABLES
    tracker,    \* DashMap<String, RequestEntry>
    order,      \* VecDeque<(u64, String)>
    orderLock,  \* the request that holds the Mutex of order, or NoRequest
    seq,        \* AtomicU64
    clock,      \* Instant::now()
    checks,     \* calls of check_and_mark so far
    pc, key,    \* per request: the next access, and the request id
    now,        \* per request: the Instant taken at the top of check_and_mark
    scan,       \* per request: the shard len or retain is at, and what it has
    mySeq,      \* per request: the sequence number taken from seq
    victim,     \* per request: the record evict_oldest has popped
    cleaner,    \* cleanup_task: the shard its retain is at (0: waiting), its now
    accepted,   \* history: end of the window of the last accepted request, per key
    replayed,   \* history: has a second request been accepted within a window?
    safe        \* history: end of the window of a mark made without interference

sharedVars == <<tracker, order, orderLock, seq>>
localVars == <<pc, key, now, scan, mySeq, victim>>
historyVars == <<accepted, replayed, safe>>
vars == <<sharedVars, clock, checks, localVars, cleaner, historyVars>>

-----------------------------------------------------------------------------
Live(k) == tracker[k].seq # NoSeq

Record(k, s) == [seq |-> s, key |-> k]
NoVictim == Record(0, NoSeq)

ScanAt(k, n, t) == [at |-> k, count |-> n, now |-> t]
NoScan == ScanAt(1, 0, 0)

\* Defective variant: retain drops an entry a tick early.
RetainedEarly(k, at) ==
    IF at + 1 < tracker[k].expires_at THEN tracker[k] ELSE NoEntry

\* retain(|_, v| now < v.expires_at) on the shard of key k
Retained(k, at) ==
    IF at < tracker[k].expires_at THEN tracker[k] ELSE NoEntry

Active(r) == pc[r] # "idle"

Goto(r, l) == pc' = [pc EXCEPT ![r] = l]

Init ==
    /\ tracker = [k \in Keys |-> NoEntry]
    /\ order = <<>>
    /\ orderLock = NoRequest
    /\ seq = 0
    /\ clock = 0
    /\ checks = 0
    /\ pc = [r \in Requests |-> "idle"]
    /\ key = [r \in Requests |-> 1]
    /\ now = [r \in Requests |-> 0]
    /\ scan = [r \in Requests |-> NoScan]
    /\ mySeq = [r \in Requests |-> NoSeq]
    /\ victim = [r \in Requests |-> NoVictim]
    /\ cleaner = [at |-> 0, now |-> 0]
    /\ accepted = [k \in Keys |-> 0]
    /\ replayed = FALSE
    /\ safe = [k \in Keys |-> 0]

-----------------------------------------------------------------------------
(* check_and_mark, access by access.  DeduplicationService::call answers   *)
(* 409 when it returns true and runs the inner service when it returns     *)
(* false; a request without the header never gets here.                    *)

\* let now = Instant::now()
Begin(r, k) ==
    /\ pc[r] = "idle"
    /\ checks < MaxChecks
    /\ checks' = checks + 1
    /\ Goto(r, "get")
    /\ key' = [key EXCEPT ![r] = k]
    /\ now' = [now EXCEPT ![r] = clock]
    /\ UNCHANGED <<sharedVars, clock, scan, mySeq, victim, cleaner, historyVars>>

\* tracker.get(key) and the comparison made while the reference is held
Get(r) ==
    /\ pc[r] = "get"
    /\ \/ ~Live(key[r]) /\ Goto(r, "len")
       \/ Live(key[r]) /\ now[r] < tracker[key[r]].expires_at /\ Goto(r, "idle")
       \/ Live(key[r]) /\ now[r] >= tracker[key[r]].expires_at /\ Goto(r, "remove")
    /\ UNCHANGED <<sharedVars, clock, checks, key, now, scan, mySeq, victim, cleaner,
                   historyVars>>

\* The reference is dropped, then the expired key is removed: whatever is under
\* the key by now.
Remove(r) ==
    /\ pc[r] = "remove"
    /\ tracker' = [tracker EXCEPT ![key[r]] = NoEntry]
    /\ Goto(r, "len")
    /\ UNCHANGED <<order, orderLock, seq, clock, checks, key, now, scan, mySeq,
                   victim, cleaner, historyVars>>

\* One shard of tracker.len(), before ("len") and after ("len2") cleanup_expired.
LenShard(r) ==
    LET k == scan[r].at
        n == scan[r].count + (IF Live(k) THEN 1 ELSE 0)
    IN  /\ pc[r] \in {"len", "len2"}
        /\ \/ /\ k < NumKeys
              /\ scan' = [scan EXCEPT ![r] = ScanAt(k + 1, n, scan[r].now)]
              /\ UNCHANGED pc
           \/ /\ k = NumKeys
              /\ scan' = [scan EXCEPT ![r] = NoScan]
              /\ \/ n < MaxEntries /\ Goto(r, "seq")
                 \/ n >= MaxEntries /\ pc[r] = "len" /\ Goto(r, "cleanup")
                 \/ n >= MaxEntries /\ pc[r] = "len2" /\ Goto(r, "lock")
        /\ UNCHANGED <<sharedVars, clock, checks, key, now, mySeq, victim, cleaner,
                       historyVars>>

\* cleanup_expired, called at capacity: it takes an Instant of its own ...
RetainBegin(r) ==
    /\ pc[r] = "cleanup"
    /\ scan' = [scan EXCEPT ![r] = ScanAt(1, 0, clock)]
    /\ Goto(r, "retain")
    /\ UNCHANGED <<sharedVars, clock, checks, key, now, mySeq, victim, cleaner,
                   historyVars>>

\* ... and retain visits the shards.
RetainShard(r) ==
    LET k == scan[r].at
    IN  /\ pc[r] = "retain"
        /\ tracker' = [tracker EXCEPT ![k] = Retained(k, scan[r].now)]
        /\ \/ /\ k < NumKeys
              /\ scan' = [scan EXCEPT ![r] = ScanAt(k + 1, 0, scan[r].now)]
              /\ UNCHANGED pc
           \/ /\ k = NumKeys
              /\ scan' = [scan EXCEPT ![r] = NoScan]
              /\ Goto(r, "len2")
        /\ UNCHANGED <<order, orderLock, seq, clock, checks, key, now, mySeq, victim,
                       cleaner, historyVars>>

\* evict_oldest holds the Mutex of order from its first line to its last.
EvictLock(r) ==
    /\ pc[r] = "lock"
    /\ orderLock = NoRequest
    /\ orderLock' = r
    /\ Goto(r, "evict")
    /\ UNCHANGED <<tracker, order, seq, clock, checks, key, now, scan, mySeq, victim,
                   cleaner, historyVars>>

\* pop_front and the lookup that tells a live record from a stale one.
EvictPop(r) ==
    /\ pc[r] = "evict"
    /\ order # <<>>
    /\ order' = Tail(order)
    /\ IF tracker[Head(order).key].seq = Head(order).seq
       THEN /\ victim' = [victim EXCEPT ![r] = Head(order)]
            /\ Goto(r, "evictRemove")
       ELSE UNCHANGED <<victim, pc>>
    /\ UNCHANGED <<tracker, orderLock, seq, clock, checks, key, now, scan, mySeq,
                   cleaner, historyVars>>

\* Defective variant: the Mutex is not released on the empty index.
EvictNothingKeepsLock(r) ==
    /\ pc[r] = "evict"
    /\ order = <<>>
    /\ Goto(r, "seq")
    /\ UNCHANGED <<sharedVars, clock, checks, key, now, scan, mySeq, victim, cleaner,
                   historyVars>>

\* Nothing left to evict.
EvictNothing(r) ==
    /\ pc[r] = "evict"
    /\ order = <<>>
    /\ orderLock' = NoRequest
    /\ Goto(r, "seq")
    /\ UNCHANGED <<tracker, order, seq, clock, checks, key, now, scan, mySeq, victim,
                   cleaner, historyVars>>

\* tracker.remove(&key): by key, not by sequence number.
EvictRemove(r) ==
    /\ pc[r] = "evictRemove"
    /\ tracker' = [tracker EXCEPT ![victim[r].key] = NoEntry]
    /\ safe' = [safe EXCEPT ![victim[r].key] = 0]
    /\ victim' = [victim EXCEPT ![r] = NoVictim]
    /\ orderLock' = NoRequest
    /\ Goto(r, "seq")
    /\ UNCHANGED <<order, seq, clock, checks, key, now, scan, mySeq, cleaner,
                   accepted, replayed>>

\* seq.fetch_add(1)
TakeSeq(r) ==
    /\ pc[r] = "seq"
    /\ mySeq' = [mySeq EXCEPT ![r] = seq]
    /\ seq' = seq + 1
    /\ Goto(r, "insert")
    /\ UNCHANGED <<tracker, order, orderLock, clock, checks, key, now, scan, victim,
                   cleaner, historyVars>>

\* tracker.insert: overwrites what another request may have put there meanwhile.
Insert(r) ==
    /\ pc[r] = "insert"
    /\ tracker' = [tracker EXCEPT ![key[r]] =
                     [expires_at |-> now[r] + Ttl, seq |-> mySeq[r]]]
    /\ Goto(r, "push")
    /\ safe' = [safe EXCEPT ![key[r]] =
                  IF \E o \in Requests \ {r} : Active(o) /\ key[o] = key[r]
                  THEN 0 ELSE now[r] + Ttl]
    /\ UNCHANGED <<order, orderLock, seq, clock, checks, key, now, scan, mySeq, victim,
                   cleaner, accepted, replayed>>

\* Defective variant: the record carries the latest number, not the request's own.
PushLatestSeq(r) ==
    /\ pc[r] = "push"
    /\ orderLock = NoRequest
    /\ order' = Append(order, Record(key[r], seq - 1))
    /\ Goto(r, "idle")
    /\ scan' = [scan EXCEPT ![r] = NoScan]
    /\ mySeq' = [mySeq EXCEPT ![r] = NoSeq]
    /\ replayed' = (replayed \/ now[r] < accepted[key[r]])
    /\ accepted' = [accepted EXCEPT ![key[r]] = now[r] + Ttl]
    /\ UNCHANGED <<tracker, orderLock, seq, clock, checks, key, now, victim, cleaner,
                   safe>>

\* order_lock().push_back: the request is marked and goes on to the service.
Push(r) ==
    /\ pc[r] = "push"
    /\ orderLock = NoRequest
    /\ order' = Append(order, Record(key[r], mySeq[r]))
    /\ Goto(r, "idle")
    /\ scan' = [scan EXCEPT ![r] = NoScan]
    /\ mySeq' = [mySeq EXCEPT ![r] = NoSeq]
    /\ replayed' = (replayed \/ now[r] < accepted[key[r]])
    /\ accepted' = [accepted EXCEPT ![key[r]] = now[r] + Ttl]
    /\ UNCHANGED <<tracker, orderLock, seq, clock, checks, key, now, victim, cleaner,
                   safe>>

-----------------------------------------------------------------------------
\* cleanup_task: the ticker fires and cleanup_expired takes its Instant ...
CleanupBegin ==
    /\ cleaner.at = 0
    /\ cleaner' = [at |-> 1, now |-> clock]
    /\ UNCHANGED <<sharedVars, clock, checks, localVars, historyVars>>

\* ... then visits the shards.
CleanupShard ==
    LET k == cleaner.at
    IN  /\ k # 0
        /\ tracker' = [tracker EXCEPT ![k] = Retained(k, cleaner.now)]
        /\ cleaner' = IF k < NumKeys THEN [cleaner EXCEPT !.at = k + 1]
                                     ELSE [at |-> 0, now |-> 0]
        /\ UNCHANGED <<order, orderLock, seq, clock, checks, localVars, historyVars>>

Tick ==
    /\ clock < MaxTime
    /\ clock' = clock + 1
    /\ UNCHANGED <<sharedVars, checks, localVars, cleaner, historyVars>>

Step(r) ==
    \/ Get(r) \/ Remove(r) \/ LenShard(r)
    \/ RetainBegin(r) \/ RetainShard(r)
    \/ EvictLock(r) \/ EvictPop(r) \/ EvictNothing(r) \/ EvictRemove(r)
    \/ TakeSeq(r) \/ Insert(r) \/ Push(r)

Next ==
    \/ \E r \in Requests : Step(r) \/ \E k \in Keys : Begin(r, k)
    \/ CleanupBegin
    \/ CleanupShard
    \/ Tick

Spec == Init /\ [][Next]_vars

\* A worker thread that is inside check_and_mark keeps running.
FairSpec == Spec /\ \A r \in Requests : WF_vars(Step(r))
-----------------------------------------------------------------------------
(* Properties *)

Locations == {"idle", "get", "remove", "len", "cleanup", "retain", "len2", "lock", "evict",
              "evictRemove", "seq", "insert", "push"}

Entries == [expires_at: Int, seq: Int]
Records == [seq: Int, key: Int]

IndexRecords == [seq: Nat, key: Keys]
Scans == [at: Keys, count: Nat, now: Nat]

SharedTypeOK ==
    /\ tracker \in [Keys -> Entries]
    /\ order \in Seq(IndexRecords)
    /\ orderLock \in Requests \cup {NoRequest}
    /\ seq \in Nat
    /\ clock \in Nat
    /\ checks \in Nat
    /\ cleaner.at \in 0 .. NumKeys /\ cleaner.now \in Nat

LocalTypeOK ==
    /\ pc \in [Requests -> Locations]
    /\ key \in [Requests -> Keys]
    /\ now \in [Requests -> Nat]
    /\ scan \in [Requests -> Scans]
    /\ mySeq \in [Requests -> Int]
    /\ victim \in [Requests -> Records]

HistoryTypeOK ==
    /\ accepted \in [Keys -> Nat]
    /\ replayed \in BOOLEAN
    /\ safe \in [Keys -> Nat]

\* What a location says: the Mutex is held exactly inside evict_oldest, a
\* request that inserts has its number, one that removes a victim has it.
LocationOK ==
    \A r \in Requests :
        /\ pc[r] \in {"evict", "evictRemove"} <=> orderLock = r
        /\ pc[r] \in {"insert", "push"} => mySeq[r] \in Nat
        /\ pc[r] = "evictRemove" => victim[r] \in IndexRecords

\* Type invariant.
TypeOK == SharedTypeOK /\ LocalTypeOK /\ HistoryTypeOK /\ LocationOK

\* Where the record of a live entry may be: in the index, still to be pushed by
\* the request that inserted the entry, or popped by an eviction under way.
Indexed(k) == \E i \in DOMAIN order : order[i] = Record(k, tracker[k].seq)

AboutToPush(k) ==
    \E r \in Requests : pc[r] = "push" /\ key[r] = k /\ mySeq[r] = tracker[k].seq

BeingEvicted(k) ==
    \E r \in Requests : pc[r] = "evictRemove" /\ victim[r] = Record(k, tracker[k].seq)

\* Every live entry can still be evicted.  One that lost its record would take up
\* capacity until it expired, and eviction at capacity would pass it by.
NoOrphan ==
    \A k \in Keys : Live(k) => Indexed(k) \/ AboutToPush(k) \/ BeingEvicted(k)

\* A replay is rejected for ttl from the arrival of the request it repeats: once a
\* request has marked its id with no other request on the same id inside
\* check_and_mark, the mark stays until expires_at = now + ttl, unless an eviction
\* removes it.  Neither cleanup nor a request that took its `now` long ago removes
\* or overwrites it.  (The documentation counts from the completion of the request;
\* an eviction may take a mark that is fresh.  See the README.)
MarkHeld ==
    \A k \in Keys : safe[k] > clock =>
        Live(k) /\ tracker[k].expires_at = safe[k]

\* Every call of check_and_mark returns: the eviction loop ends and the Mutex of
\* order is given back.
CheckReturns == \A r \in Requests : pc[r] # "idle" ~> pc[r] = "idle"

\* The inductive invariant behind MarkHeld: an undisturbed mark is live, and a
\* request on the same id is either about to see it or about to index it; no
\* Instant a request or the cleanup works with lies in the future.
MarkUndisturbed ==
    \A k \in Keys : safe[k] > clock =>
        /\ Live(k) /\ tracker[k].expires_at = safe[k]
        /\ \A r \in Requests : key[r] = k => pc[r] \in {"idle", "get", "push"}

InstantsPast ==
    /\ \A r \in Requests : now[r] <= clock /\ scan[r].now <= clock
    /\ cleaner.now <= clock

IInv == TypeOK /\ NoOrphan /\ MarkUndisturbed /\ InstantsPast

Quiescent == cleaner.at = 0 /\ \A r \in Requests : pc[r] = "idle"

\* "If the same x-request-id arrives twice, only one creates an order."
AtMostOnce == ~replayed

\* "A background task ... remove expired entries, preventing memory leaks": with
\* nothing in progress the index holds no more records than the cache may hold.
IndexBounded == Quiescent => Len(order) <= MaxEntries
==============================================================================
