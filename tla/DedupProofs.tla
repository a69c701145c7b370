----------------------------- MODULE DedupProofs -----------------------------
(***************************************************************************)
(* Proofs of the safety properties of Dedup for any number of requests and *)
(* ids, any capacity and any time to live.                                 *)
(***************************************************************************)
EXTENDS Dedup, SequenceTheorems, TLAPS

USE DEF NoSeq, Keys

\* Popping the front of the index loses only the front record.
LEMMA TailKeeps ==
    ASSUME NEW q \in Seq(IndexRecords), q # <<>>, NEW i \in DOMAIN q,
           q[i] # Head(q)
    PROVE  \E j \in DOMAIN Tail(q) : Tail(q)[j] = q[i]
  <1>1. i \in 1 .. Len(q) /\ i # 1
    OBVIOUS
  <1>2. Len(Tail(q)) = Len(q) - 1 /\ \A j \in 1 .. Len(q) - 1 : Tail(q)[j] = q[j + 1]
    BY HeadTailProperties
  <1>3. i - 1 \in DOMAIN Tail(q) /\ Tail(q)[i - 1] = q[i]
    BY <1>1, <1>2, HeadTailProperties
  <1>4. QED
    BY <1>3

\* Appending keeps every record and adds the new one.
LEMMA AppendKeeps ==
    ASSUME NEW q \in Seq(IndexRecords), NEW x \in IndexRecords
    PROVE  /\ \A i \in DOMAIN q : \E j \in DOMAIN Append(q, x) : Append(q, x)[j] = q[i]
           /\ \E j \in DOMAIN Append(q, x) : Append(q, x)[j] = x
  <1>1. /\ Len(Append(q, x)) = Len(q) + 1
        /\ \A i \in 1 .. Len(q) : Append(q, x)[i] = q[i]
        /\ Append(q, x)[Len(q) + 1] = x
        /\ Append(q, x) \in Seq(IndexRecords)
    BY AppendProperties
  <1>2. DOMAIN q = 1 .. Len(q) /\ DOMAIN Append(q, x) = 1 .. Len(q) + 1
    BY <1>1
  <1>3. QED
    BY <1>1, <1>2

\* The initial state satisfies the inductive invariant.
LEMMA InitIInv == Init => IInv
  <1> SUFFICES ASSUME Init PROVE IInv
    OBVIOUS
  <1> USE DedupAssumption
  <1>1. TypeOK
    <2>1. tracker \in [Keys -> Entries]
      BY DEF Init, NoEntry, Entries
    <2>2. order \in Seq(IndexRecords)
      BY DEF Init
    <2>3. SharedTypeOK
      BY <2>1, <2>2 DEF Init, SharedTypeOK
    <2>4. LocalTypeOK
      <3>1. scan \in [Requests -> Scans]
        BY DEF Init, NoScan, ScanAt, Scans
      <3>2. victim \in [Requests -> Records]
        BY DEF Init, NoVictim, Record, Records
      <3>3. QED
        BY <3>1, <3>2 DEF Init, LocalTypeOK, Locations
    <2>5. HistoryTypeOK
      BY DEF Init, HistoryTypeOK
    <2>6. LocationOK
      BY DEF Init, LocationOK
    <2>7. QED
      BY <2>3, <2>4, <2>5, <2>6 DEF TypeOK
  <1>2. \A k \in Keys : ~Live(k) /\ safe[k] = 0
    BY DEF Init, Live, NoEntry
  <1>3. NoOrphan /\ MarkUndisturbed
    BY <1>2 DEF Init, NoOrphan, MarkUndisturbed
  <1>4. InstantsPast
    BY DEF Init, InstantsPast, NoScan, ScanAt
  <1>5. QED
    BY <1>1, <1>3, <1>4 DEF IInv

\* What the shard visited by retain is left with.
LEMMA RetainedType ==
    ASSUME SharedTypeOK, NEW k \in Keys, NEW t \in Nat
    PROVE  Retained(k, t) \in Entries
  BY DEF SharedTypeOK, Retained, Entries, NoEntry

\* The shared state keeps its type, action by action.
LEMMA SharedTypeStep ==
    ASSUME TypeOK, [Next]_vars
    PROVE  SharedTypeOK'
  <1> USE DedupAssumption
  <1> USE DEF TypeOK, SharedTypeOK, sharedVars, historyVars
  <1>1. ASSUME NEW r \in Requests,
               \/ \E k \in Keys : Begin(r, k)
               \/ Get(r) \/ LenShard(r) \/ RetainBegin(r)
        PROVE  SharedTypeOK'
    BY <1>1 DEF Begin, Get, LenShard, RetainBegin
  <1>2. ASSUME NEW r \in Requests, Remove(r)
        PROVE  SharedTypeOK'
    BY <1>2 DEF Remove, LocalTypeOK, Entries, NoEntry
  <1>3. ASSUME NEW r \in Requests, RetainShard(r)
        PROVE  SharedTypeOK'
    <2>1. scan[r].at \in Keys /\ scan[r].now \in Nat
      BY DEF LocalTypeOK, Scans
    <2>2. Retained(scan[r].at, scan[r].now) \in Entries
      BY <2>1, RetainedType
    <2>3. QED
      BY <1>3, <2>1, <2>2 DEF RetainShard
  <1>4. ASSUME NEW r \in Requests, EvictLock(r) \/ EvictNothing(r)
        PROVE  SharedTypeOK'
    BY <1>4 DEF EvictLock, EvictNothing
  <1>5. ASSUME NEW r \in Requests, EvictPop(r)
        PROVE  SharedTypeOK'
    <2>1. Tail(order) \in Seq(IndexRecords)
      BY <1>5, HeadTailProperties DEF EvictPop
    <2>2. QED
      BY <1>5, <2>1 DEF EvictPop
  <1>6. ASSUME NEW r \in Requests, EvictRemove(r)
        PROVE  SharedTypeOK'
    <2>1. NoEntry \in Entries
      BY DEF NoEntry, Entries
    <2>2. tracker' \in [Keys -> Entries]
      BY <1>6, <2>1 DEF EvictRemove
    <2>3. QED
      BY <1>6, <2>2 DEF EvictRemove
  <1>7. ASSUME NEW r \in Requests, TakeSeq(r)
        PROVE  SharedTypeOK'
    BY <1>7 DEF TakeSeq
  <1>8. ASSUME NEW r \in Requests, Insert(r)
        PROVE  SharedTypeOK'
    <2>1. [expires_at |-> now[r] + Ttl, seq |-> mySeq[r]] \in Entries
      BY DEF LocalTypeOK, Entries
    <2>2. QED
      BY <1>8, <2>1 DEF Insert
  <1>9. ASSUME NEW r \in Requests, Push(r)
        PROVE  SharedTypeOK'
    <2>1. Record(key[r], mySeq[r]) \in IndexRecords
      BY <1>9 DEF Push, LocalTypeOK, LocationOK, Record, IndexRecords
    <2>2. QED
      BY <1>9, <2>1, AppendProperties DEF Push
  <1>10. CASE CleanupBegin \/ Tick
    BY <1>10 DEF CleanupBegin, Tick
  <1>11. CASE CleanupShard
    <2>1. cleaner.at \in Keys /\ Retained(cleaner.at, cleaner.now) \in Entries
      BY <1>11, RetainedType DEF CleanupShard
    <2>2. cleaner'.at \in 0 .. NumKeys /\ cleaner'.now \in Nat
      BY <1>11, <2>1 DEF CleanupShard
    <2>3. tracker' \in [Keys -> Entries]
      BY <1>11, <2>1 DEF CleanupShard
    <2>4. QED
      BY <1>11, <2>2, <2>3 DEF CleanupShard
  <1>12. CASE UNCHANGED vars
    BY <1>12 DEF vars
  <1>13. QED
    BY <1>1, <1>2, <1>3, <1>4, <1>5, <1>6, <1>7, <1>8, <1>9, <1>10, <1>11, <1>12
    DEF Next, Step

\* The locals of a request keep their types.
LEMMA LocalTypeStep ==
    ASSUME TypeOK, [Next]_vars
    PROVE  LocalTypeOK'
  <1> USE DedupAssumption
  <1> USE DEF TypeOK, LocalTypeOK, localVars, sharedVars, historyVars, Locations, Goto
  <1>0. NoScan \in Scans
    BY DEF NoScan, ScanAt, Scans, Keys
  <1>1. ASSUME NEW r \in Requests, \E k \in Keys : Begin(r, k)
        PROVE  LocalTypeOK'
    BY <1>1 DEF Begin, SharedTypeOK
  <1>2. ASSUME NEW r \in Requests,
               \/ Get(r) \/ Remove(r)
               \/ EvictLock(r) \/ EvictNothing(r) \/ Insert(r)
        PROVE  LocalTypeOK'
    BY <1>2 DEF Get, Remove, EvictLock, EvictNothing, Insert
  <1>3. ASSUME NEW r \in Requests, LenShard(r)
        PROVE  LocalTypeOK'
    <2>1. scan' \in [Requests -> Scans]
      <3> DEFINE n == scan[r].count + (IF Live(scan[r].at) THEN 1 ELSE 0)
      <3>1. scan[r].at \in Keys /\ n \in Nat /\ scan[r].now \in Nat
        BY DEF Scans
      <3> HIDE DEF n
      <3>2. CASE scan[r].at < NumKeys
        <4>1. ScanAt(scan[r].at + 1, n, scan[r].now) \in Scans
          BY <3>1, <3>2 DEF Scans, ScanAt, Keys
        <4>2. scan' = [scan EXCEPT ![r] = ScanAt(scan[r].at + 1, n, scan[r].now)]
          BY <1>3, <3>2 DEF LenShard, n
        <4>3. QED
          BY <4>1, <4>2
      <3>3. CASE scan[r].at = NumKeys
        BY <1>0, <1>3, <3>3 DEF LenShard
      <3>4. QED
        BY <3>1, <3>2, <3>3 DEF Keys
    <2>2. pc' \in [Requests -> Locations]
      BY <1>3 DEF LenShard
    <2>3. QED
      BY <1>3, <2>1, <2>2 DEF LenShard
  <1>4. ASSUME NEW r \in Requests, RetainBegin(r) \/ RetainShard(r)
        PROVE  LocalTypeOK'
    <2>1. scan' \in [Requests -> Scans]
      <3>1. scan[r].at \in Keys /\ scan[r].now \in Nat /\ clock \in Nat
        BY DEF Scans, SharedTypeOK
      <3>2. ScanAt(1, 0, clock) \in Scans
        BY <3>1 DEF Scans, ScanAt, Keys
      <3>3. scan[r].at < NumKeys => ScanAt(scan[r].at + 1, 0, scan[r].now) \in Scans
        BY <3>1 DEF Scans, ScanAt, Keys
      <3>4. QED
        BY <1>0, <1>4, <3>2, <3>3 DEF RetainBegin, RetainShard
    <2>2. pc' \in [Requests -> Locations]
      BY <1>4 DEF RetainBegin, RetainShard
    <2>3. QED
      BY <1>4, <2>1, <2>2 DEF RetainBegin, RetainShard
  <1>5. ASSUME NEW r \in Requests, EvictPop(r)
        PROVE  LocalTypeOK'
    <2>1. Head(order) \in IndexRecords
      BY <1>5, HeadTailProperties DEF EvictPop, SharedTypeOK
    <2>2. Head(order) \in Records
      BY <2>1 DEF IndexRecords, Records
    <2>3. QED
      BY <1>5, <2>2 DEF EvictPop
  <1>6. ASSUME NEW r \in Requests, EvictRemove(r)
        PROVE  LocalTypeOK'
    <2>1. NoVictim \in Records
      BY DEF NoVictim, Record, Records
    <2>2. QED
      BY <1>6, <2>1 DEF EvictRemove
  <1>7. ASSUME NEW r \in Requests, TakeSeq(r)
        PROVE  LocalTypeOK'
    <2>1. seq \in Int
      BY DEF SharedTypeOK
    <2>2. QED
      BY <1>7, <2>1 DEF TakeSeq
  <1>8. ASSUME NEW r \in Requests, Push(r)
        PROVE  LocalTypeOK'
    BY <1>0, <1>8 DEF Push
  <1>9. CASE CleanupBegin \/ CleanupShard \/ Tick \/ UNCHANGED vars
    BY <1>9 DEF CleanupBegin, CleanupShard, Tick, vars
  <1>10. QED
    BY <1>1, <1>2, <1>3, <1>4, <1>5, <1>6, <1>7, <1>8, <1>9 DEF Next, Step

\* The locations keep their meaning.
LEMMA LocationStep ==
    ASSUME TypeOK, [Next]_vars
    PROVE  LocationOK'
  <1> USE DedupAssumption
  <1> USE DEF TypeOK, LocationOK, LocalTypeOK, localVars, sharedVars, historyVars, Goto
  <1>1. ASSUME NEW r \in Requests,
               (\E k \in Keys : Begin(r, k)) \/ Get(r) \/ Remove(r)
        PROVE  LocationOK'
    BY <1>1 DEF Begin, Get, Remove
  <1>2. ASSUME NEW r \in Requests, LenShard(r)
        PROVE  LocationOK'
    BY <1>2 DEF LenShard
  <1>3. ASSUME NEW r \in Requests, RetainBegin(r) \/ RetainShard(r)
        PROVE  LocationOK'
    BY <1>3 DEF RetainBegin, RetainShard
  <1>4. ASSUME NEW r \in Requests, EvictLock(r)
        PROVE  LocationOK'
    BY <1>4 DEF EvictLock
  <1>5. ASSUME NEW r \in Requests, EvictPop(r)
        PROVE  LocationOK'
    <2>1. Head(order) \in IndexRecords
      BY <1>5, HeadTailProperties DEF EvictPop, SharedTypeOK
    <2>2. QED
      BY <1>5, <2>1 DEF EvictPop
  <1>6. ASSUME NEW r \in Requests, EvictNothing(r) \/ EvictRemove(r)
        PROVE  LocationOK'
    BY <1>6 DEF EvictNothing, EvictRemove
  <1>7. ASSUME NEW r \in Requests, TakeSeq(r)
        PROVE  LocationOK'
    BY <1>7 DEF TakeSeq, SharedTypeOK
  <1>8. ASSUME NEW r \in Requests, Insert(r)
        PROVE  LocationOK'
    BY <1>8 DEF Insert
  <1>9. ASSUME NEW r \in Requests, Push(r)
        PROVE  LocationOK'
    BY <1>9 DEF Push
  <1>10. CASE CleanupBegin \/ CleanupShard \/ Tick \/ UNCHANGED vars
    BY <1>10 DEF CleanupBegin, CleanupShard, Tick, vars
  <1>11. QED
    BY <1>1, <1>2, <1>3, <1>4, <1>5, <1>6, <1>7, <1>8, <1>9, <1>10 DEF Next, Step

\* The history keeps its type.
LEMMA HistoryTypeStep ==
    ASSUME TypeOK, [Next]_vars
    PROVE  HistoryTypeOK'
  <1> USE DedupAssumption
  <1> USE DEF TypeOK, HistoryTypeOK, LocalTypeOK, historyVars, sharedVars, localVars
  <1>1. ASSUME NEW r \in Requests, EvictRemove(r)
        PROVE  HistoryTypeOK'
    BY <1>1 DEF EvictRemove
  <1>2. ASSUME NEW r \in Requests, Insert(r)
        PROVE  HistoryTypeOK'
    <2>1. now[r] + Ttl \in Nat
      OBVIOUS
    <2>2. safe' \in [Keys -> Nat]
      BY <1>2, <2>1 DEF Insert
    <2>3. QED
      BY <1>2, <2>2 DEF Insert
  <1>3. ASSUME NEW r \in Requests, Push(r)
        PROVE  HistoryTypeOK'
    <2>1. replayed' \in BOOLEAN
      BY <1>3, Zenon DEF Push
    <2>2. accepted' \in [Keys -> Nat] /\ safe' = safe
      BY <1>3 DEF Push
    <2>3. QED
      BY <2>1, <2>2
  <1>4. ASSUME NEW r \in Requests,
               \/ \E k \in Keys : Begin(r, k)
               \/ Get(r) \/ Remove(r) \/ LenShard(r) \/ RetainBegin(r) \/ RetainShard(r)
               \/ EvictLock(r) \/ EvictPop(r) \/ EvictNothing(r) \/ TakeSeq(r)
        PROVE  UNCHANGED historyVars
    BY <1>4 DEF Begin, Get, Remove, LenShard, RetainBegin, RetainShard, EvictLock,
        EvictPop, EvictNothing, TakeSeq
  <1>5. ASSUME CleanupBegin \/ CleanupShard \/ Tick \/ UNCHANGED vars
        PROVE  UNCHANGED historyVars
    BY <1>5 DEF CleanupBegin, CleanupShard, Tick, vars
  <1>6. CASE UNCHANGED historyVars
    BY <1>6
  <1>7. QED
    BY <1>1, <1>2, <1>3, <1>4, <1>5, <1>6 DEF Next, Step

\* Type correctness.
THEOREM TypeCorrect == Spec => []TypeOK
  <1>1. Init => TypeOK
    BY InitIInv DEF IInv
  <1>2. TypeOK /\ [Next]_vars => TypeOK'
    BY SharedTypeStep, LocalTypeStep, LocationStep, HistoryTypeStep DEF TypeOK
  <1>3. QED
    BY <1>1, <1>2, PTL DEF Spec

-----------------------------------------------------------------------------
\* A step that neither changes the index nor adds an entry, and leaves alone the
\* requests that hold a record, keeps every live entry evictable.
LEMMA NoOrphanKept ==
    ASSUME NoOrphan,
           order' = order,
           \A k \in Keys : tracker'[k] = tracker[k] \/ tracker'[k] = NoEntry,
           \A r \in Requests : pc[r] \in {"push", "evictRemove"} =>
               /\ pc'[r] = pc[r]
               /\ key'[r] = key[r]
               /\ mySeq'[r] = mySeq[r]
               /\ victim'[r] = victim[r]
    PROVE  NoOrphan'
  <1> SUFFICES ASSUME NEW k \in Keys, Live(k)'
               PROVE  Indexed(k)' \/ AboutToPush(k)' \/ BeingEvicted(k)'
    BY DEF NoOrphan
  <1>1. tracker'[k] = tracker[k] /\ Live(k)
    BY DEF Live, NoEntry
  <1>2. Indexed(k) \/ AboutToPush(k) \/ BeingEvicted(k)
    BY <1>1 DEF NoOrphan
  <1>3. CASE Indexed(k)
    BY <1>1, <1>3 DEF Indexed
  <1>4. CASE AboutToPush(k)
    BY <1>1, <1>4 DEF AboutToPush
  <1>5. CASE BeingEvicted(k)
    BY <1>1, <1>5 DEF BeingEvicted
  <1>6. QED
    BY <1>2, <1>3, <1>4, <1>5

\* What retain leaves of a shard is the entry or nothing.
LEMMA RetainedKeeps ==
    ASSUME NEW k, NEW t
    PROVE  Retained(k, t) = tracker[k] \/ Retained(k, t) = NoEntry
  BY DEF Retained

\* No step makes a live entry unreachable for eviction.
LEMMA NoOrphanStep ==
    ASSUME TypeOK, NoOrphan, [Next]_vars
    PROVE  NoOrphan'
  <1> USE DedupAssumption
  <1> USE DEF TypeOK, SharedTypeOK, LocalTypeOK, localVars, sharedVars, Goto
  <1>1. ASSUME NEW r \in Requests,
               \/ \E k \in Keys : Begin(r, k)
               \/ Get(r) \/ LenShard(r) \/ RetainBegin(r)
               \/ EvictLock(r) \/ EvictNothing(r) \/ TakeSeq(r)
        PROVE  NoOrphan'
    BY <1>1, NoOrphanKept DEF Begin, Get, LenShard, RetainBegin, EvictLock,
        EvictNothing, TakeSeq
  <1>2. ASSUME NEW r \in Requests, Remove(r)
        PROVE  NoOrphan'
    BY <1>2, NoOrphanKept DEF Remove
  <1>3. ASSUME NEW r \in Requests, RetainShard(r)
        PROVE  NoOrphan'
    <2>1. \A k \in Keys : tracker'[k] = tracker[k] \/ tracker'[k] = NoEntry
      BY <1>3, RetainedKeeps DEF RetainShard
    <2>2. QED
      BY <1>3, <2>1, NoOrphanKept DEF RetainShard
  <1>4. ASSUME NEW r \in Requests, EvictPop(r)
        PROVE  NoOrphan'
    <2> SUFFICES ASSUME NEW k \in Keys, Live(k)'
                 PROVE  Indexed(k)' \/ AboutToPush(k)' \/ BeingEvicted(k)'
      BY DEF NoOrphan
    <2>1. Live(k) /\ tracker' = tracker
      BY <1>4 DEF EvictPop, Live
    <2>2. CASE Head(order) = Record(k, tracker[k].seq)
      <3>1. Head(order).key = k /\ Head(order).seq = tracker[k].seq
        BY <2>2 DEF Record
      <3>2. pc'[r] = "evictRemove" /\ victim'[r] = Head(order)
        BY <1>4, <3>1 DEF EvictPop
      <3>3. QED
        BY <2>1, <2>2, <3>2 DEF BeingEvicted
    <2>3. CASE Head(order) # Record(k, tracker[k].seq) /\ Indexed(k)
      <3>1. PICK i \in DOMAIN order : order[i] = Record(k, tracker[k].seq)
        BY <2>3 DEF Indexed
      <3>2. order \in Seq(IndexRecords) /\ order # <<>> /\ order' = Tail(order)
        BY <1>4 DEF EvictPop
      <3>3. \E j \in DOMAIN Tail(order) : Tail(order)[j] = order[i]
        BY ONLY <2>3, <3>1, <3>2, TailKeeps
      <3>4. QED
        BY <2>1, <3>1, <3>2, <3>3 DEF Indexed
    <2>4. CASE AboutToPush(k)
      BY <1>4, <2>1, <2>4 DEF EvictPop, AboutToPush
    <2>5. CASE BeingEvicted(k)
      BY <1>4, <2>1, <2>5 DEF EvictPop, BeingEvicted
    <2>6. QED
      BY <2>1, <2>2, <2>3, <2>4, <2>5 DEF NoOrphan
  <1>5. ASSUME NEW r \in Requests, EvictRemove(r)
        PROVE  NoOrphan'
    <2> SUFFICES ASSUME NEW k \in Keys, Live(k)'
                 PROVE  Indexed(k)' \/ AboutToPush(k)' \/ BeingEvicted(k)'
      BY DEF NoOrphan
    <2>1. k # victim[r].key /\ tracker'[k] = tracker[k] /\ Live(k)
      BY <1>5 DEF EvictRemove, Live, NoEntry
    <2>2. CASE Indexed(k)
      BY <1>5, <2>1, <2>2 DEF EvictRemove, Indexed
    <2>3. CASE AboutToPush(k)
      BY <1>5, <2>1, <2>3 DEF EvictRemove, AboutToPush
    <2>4. CASE BeingEvicted(k)
      BY <1>5, <2>1, <2>4 DEF EvictRemove, BeingEvicted, Record
    <2>5. QED
      BY <2>1, <2>2, <2>3, <2>4 DEF NoOrphan
  <1>6. ASSUME NEW r \in Requests, Insert(r)
        PROVE  NoOrphan'
    <2> SUFFICES ASSUME NEW k \in Keys, Live(k)'
                 PROVE  Indexed(k)' \/ AboutToPush(k)' \/ BeingEvicted(k)'
      BY DEF NoOrphan
    <2>1. CASE k = key[r]
      BY <1>6, <2>1 DEF Insert, AboutToPush
    <2>2. CASE k # key[r]
      <3>1. tracker'[k] = tracker[k] /\ Live(k)
        BY <1>6, <2>2 DEF Insert, Live
      <3>2. CASE Indexed(k)
        BY <1>6, <3>1, <3>2 DEF Insert, Indexed
      <3>3. CASE AboutToPush(k)
        BY <1>6, <3>1, <3>3 DEF Insert, AboutToPush
      <3>4. CASE BeingEvicted(k)
        BY <1>6, <3>1, <3>4 DEF Insert, BeingEvicted
      <3>5. QED
        BY <3>1, <3>2, <3>3, <3>4 DEF NoOrphan
    <2>3. QED
      BY <2>1, <2>2
  <1>7. ASSUME NEW r \in Requests, Push(r)
        PROVE  NoOrphan'
    <2> SUFFICES ASSUME NEW k \in Keys, Live(k)'
                 PROVE  Indexed(k)' \/ AboutToPush(k)' \/ BeingEvicted(k)'
      BY DEF NoOrphan
    <2>1. Live(k) /\ tracker' = tracker
      BY <1>7 DEF Push, Live
    <2>2. Record(key[r], mySeq[r]) \in IndexRecords
      BY <1>7 DEF Push, LocationOK, Record, IndexRecords
    <2>3. CASE Indexed(k)
      <3>1. PICK i \in DOMAIN order : order[i] = Record(k, tracker[k].seq)
        BY <2>3 DEF Indexed
      <3>2. order \in Seq(IndexRecords) /\ order' = Append(order, Record(key[r], mySeq[r]))
        BY <1>7 DEF Push
      <3>3. \E j \in DOMAIN order' : order'[j] = order[i]
        BY ONLY <2>2, <3>1, <3>2, AppendKeeps
      <3>4. QED
        BY <2>1, <3>1, <3>3 DEF Indexed
    <2>4. CASE key[r] = k /\ mySeq[r] = tracker[k].seq
      <3>1. order' = Append(order, Record(k, tracker[k].seq))
        BY <1>7, <2>4 DEF Push
      <3>2. Record(k, tracker[k].seq) \in IndexRecords
        BY <2>2, <2>4
      <3>5. order \in Seq(IndexRecords)
        OBVIOUS
      <3>3. \E j \in DOMAIN order' : order'[j] = Record(k, tracker[k].seq)
        BY ONLY <3>1, <3>2, <3>5, AppendKeeps
      <3>4. QED
        BY <2>1, <3>3 DEF Indexed
    <2>5. CASE AboutToPush(k) /\ ~(key[r] = k /\ mySeq[r] = tracker[k].seq)
      BY <1>7, <2>1, <2>5 DEF Push, AboutToPush
    <2>6. CASE BeingEvicted(k)
      BY <1>7, <2>1, <2>6 DEF Push, BeingEvicted
    <2>7. QED
      BY <2>1, <2>3, <2>4, <2>5, <2>6 DEF NoOrphan
  <1>8. CASE CleanupShard
    <2>1. \A k \in Keys : tracker'[k] = tracker[k] \/ tracker'[k] = NoEntry
      BY <1>8, RetainedKeeps DEF CleanupShard
    <2>2. QED
      BY <1>8, <2>1, NoOrphanKept DEF CleanupShard
  <1>9. CASE CleanupBegin \/ Tick \/ UNCHANGED vars
    BY <1>9, NoOrphanKept DEF CleanupBegin, Tick, vars
  <1>10. QED
    BY <1>1, <1>2, <1>3, <1>4, <1>5, <1>6, <1>7, <1>8, <1>9 DEF Next, Step

\* No live entry is ever lost to eviction: the record of each is in the index, or
\* in the hands of the request that inserts or evicts it.
THEOREM NoOrphanHolds == Spec => []NoOrphan
  <1>1. Init => TypeOK /\ NoOrphan
    BY InitIInv DEF IInv
  <1>2. TypeOK /\ NoOrphan /\ [Next]_vars => (TypeOK /\ NoOrphan)'
    BY SharedTypeStep, LocalTypeStep, LocationStep, HistoryTypeStep, NoOrphanStep
    DEF TypeOK
  <1>3. QED
    BY <1>1, <1>2, PTL DEF Spec

-----------------------------------------------------------------------------
\* No Instant lies in the future.
LEMMA InstantsStep ==
    ASSUME TypeOK, InstantsPast, [Next]_vars
    PROVE  InstantsPast'
  <1> USE DedupAssumption
  <1> USE DEF TypeOK, SharedTypeOK, LocalTypeOK, localVars, sharedVars, InstantsPast, Scans
  <1>1. ASSUME NEW r \in Requests, \E k \in Keys : Begin(r, k)
        PROVE  InstantsPast'
    BY <1>1 DEF Begin
  <1>2. ASSUME NEW r \in Requests,
               \/ Get(r) \/ Remove(r) \/ EvictLock(r) \/ EvictPop(r) \/ EvictNothing(r)
               \/ EvictRemove(r) \/ TakeSeq(r) \/ Insert(r)
        PROVE  InstantsPast'
    BY <1>2 DEF Get, Remove, EvictLock, EvictPop, EvictNothing, EvictRemove, TakeSeq,
        Insert
  <1>3. \A k, n, t : ScanAt(k, n, t).now = t
    BY DEF ScanAt
  <1>4. ASSUME NEW r \in Requests,
               LenShard(r) \/ RetainBegin(r) \/ RetainShard(r) \/ Push(r)
        PROVE  InstantsPast'
    <2>1. /\ now' = now /\ clock' = clock /\ cleaner' = cleaner
          /\ \A o \in Requests \ {r} : scan'[o] = scan[o]
      BY <1>4 DEF LenShard, RetainBegin, RetainShard, Push
    <2>2. \/ scan'[r] = NoScan
          \/ \E k, n : scan'[r] = ScanAt(k, n, scan[r].now)
          \/ scan'[r] = ScanAt(1, 0, clock)
      <3>1. CASE LenShard(r)
        <4> DEFINE n == scan[r].count + (IF Live(scan[r].at) THEN 1 ELSE 0)
        <4>1. \/ scan' = [scan EXCEPT ![r] = NoScan]
              \/ scan' = [scan EXCEPT ![r] = ScanAt(scan[r].at + 1, n, scan[r].now)]
          BY <3>1 DEF LenShard
        <4>2. QED
          BY <4>1
      <3>2. CASE RetainBegin(r)
        BY <3>2 DEF RetainBegin
      <3>3. CASE RetainShard(r)
        BY <3>3, Zenon DEF RetainShard
      <3>4. CASE Push(r)
        BY <3>4 DEF Push
      <3>5. QED
        BY <1>4, <3>1, <3>2, <3>3, <3>4
    <2>5. scan[r].now \in Nat /\ scan[r].now <= clock /\ clock \in Nat
      OBVIOUS
    <2>6. scan'[r].now = 0 \/ scan'[r].now = scan[r].now \/ scan'[r].now = clock
      <3>1. CASE scan'[r] = NoScan
        <4>1. NoScan.now = 0
          BY <1>3 DEF NoScan
        <4>2. QED
          BY ONLY <3>1, <4>1
      <3>2. CASE \E k, n : scan'[r] = ScanAt(k, n, scan[r].now)
        BY ONLY <1>3, <3>2
      <3>3. CASE scan'[r] = ScanAt(1, 0, clock)
        BY ONLY <1>3, <3>3
      <3>4. QED
        BY ONLY <2>2, <3>1, <3>2, <3>3
    <2>3. scan'[r].now <= clock
      BY ONLY <2>5, <2>6
    <2>4. QED
      BY <2>1, <2>3
  <1>5. CASE CleanupBegin
    BY <1>5 DEF CleanupBegin
  <1>6. CASE CleanupShard
    <2>1. cleaner'.now <= clock
      <3>1. [cleaner EXCEPT !.at = cleaner.at + 1].now = cleaner.now
        OBVIOUS
      <3>2. QED
        BY <1>6, <3>1 DEF CleanupShard
    <2>2. QED
      BY <1>6, <2>1 DEF CleanupShard
  <1>7. CASE Tick
    <2>1. \A r \in Requests : now[r] \in Nat /\ scan[r].now \in Nat
      OBVIOUS
    <2>2. clock' = clock + 1 /\ now' = now /\ scan' = scan /\ cleaner' = cleaner
      BY <1>7 DEF Tick
    <2>3. \A r \in Requests : now[r] <= clock + 1 /\ scan[r].now <= clock + 1
      BY <2>1
    <2>4. cleaner.now <= clock + 1
      OBVIOUS
    <2>5. QED
      BY ONLY <2>2, <2>3, <2>4 DEF InstantsPast
  <1>8. CASE UNCHANGED vars
    BY <1>8 DEF vars
  <1>9. QED
    BY <1>1, <1>2, <1>4, <1>5, <1>6, <1>7, <1>8 DEF Next, Step

\* retain keeps an undisturbed mark: its Instant is not past the end of the window.
LEMMA RetainedMark ==
    ASSUME TypeOK, MarkUndisturbed, NEW k \in Keys, NEW t \in Nat, t <= clock,
           safe[k] > clock
    PROVE  Retained(k, t) = tracker[k]
  BY DEF TypeOK, SharedTypeOK, HistoryTypeOK, MarkUndisturbed, Retained

\* A step that leaves the marks and the undisturbed entries alone, and puts no
\* request on such an entry's id past the lookup, keeps the marks undisturbed.
LEMMA MarkKept ==
    ASSUME MarkUndisturbed,
           safe' = safe,
           \A k \in Keys : safe[k] > clock' => safe[k] > clock,
           \A k \in Keys : safe[k] > clock => tracker'[k] = tracker[k],
           \A r \in Requests, k \in Keys :
               safe[k] > clock /\ key'[r] = k => pc'[r] \in {"idle", "get", "push"}
    PROVE  MarkUndisturbed'
  BY DEF MarkUndisturbed, Live

\* No step disturbs an undisturbed mark before its window ends.
LEMMA MarkStep ==
    ASSUME TypeOK, MarkUndisturbed, InstantsPast, [Next]_vars
    PROVE  MarkUndisturbed'
  <1> USE DedupAssumption
  <1> USE DEF TypeOK, SharedTypeOK, LocalTypeOK, HistoryTypeOK, localVars, sharedVars,
      historyVars, Goto
  <1>1. \A r \in Requests : pc[r] \notin {"idle", "get", "push"} => ~(safe[key[r]] > clock)
    BY DEF MarkUndisturbed
  <1>2. \A r \in Requests, k \in Keys :
            safe[k] > clock /\ key[r] = k => pc[r] \in {"idle", "get", "push"}
    BY DEF MarkUndisturbed
  <1>3. ASSUME NEW r \in Requests, \E k \in Keys : Begin(r, k)
        PROVE  MarkUndisturbed'
    BY <1>2, <1>3, MarkKept DEF Begin
  <1>4. ASSUME NEW r \in Requests, Get(r)
        PROVE  MarkUndisturbed'
    <2>1. safe[key[r]] > clock => pc'[r] = "idle"
      <3>1. safe[key[r]] > clock
              => Live(key[r]) /\ tracker[key[r]].expires_at = safe[key[r]]
        BY DEF MarkUndisturbed
      <3>2. safe[key[r]] > clock => now[r] < safe[key[r]]
        BY DEF InstantsPast
      <3>3. QED
        BY <1>4, <3>1, <3>2 DEF Get
    <2>2. QED
      BY <1>2, <1>4, <2>1, MarkKept DEF Get
  <1>5. ASSUME NEW r \in Requests, Remove(r)
        PROVE  MarkUndisturbed'
    BY <1>1, <1>2, <1>5, MarkKept DEF Remove
  <1>6. ASSUME NEW r \in Requests,
               LenShard(r) \/ RetainBegin(r) \/ EvictLock(r) \/ EvictPop(r)
               \/ EvictNothing(r) \/ TakeSeq(r)
        PROVE  MarkUndisturbed'
    <2>1. /\ pc[r] \notin {"idle", "get", "push"}
          /\ safe' = safe /\ clock' = clock /\ tracker' = tracker /\ key' = key
          /\ \A o \in Requests \ {r} : pc'[o] = pc[o]
      BY <1>6 DEF LenShard, RetainBegin, EvictLock, EvictPop, EvictNothing, TakeSeq
    <2>2. QED
      BY <1>1, <1>2, <2>1, MarkKept
  <1>7. ASSUME NEW r \in Requests, RetainShard(r)
        PROVE  MarkUndisturbed'
    <2>1. scan[r].at \in Keys /\ scan[r].now \in Nat /\ scan[r].now <= clock
      BY DEF Scans, InstantsPast
    <2>2. \A k \in Keys : safe[k] > clock => tracker'[k] = tracker[k]
      BY <1>7, <2>1, RetainedMark DEF RetainShard
    <2>3. /\ pc[r] \notin {"idle", "get", "push"}
          /\ safe' = safe /\ clock' = clock /\ key' = key
          /\ \A o \in Requests \ {r} : pc'[o] = pc[o]
      BY <1>7 DEF RetainShard
    <2>4. QED
      BY <1>1, <1>2, <2>2, <2>3, MarkKept
  <1>8. ASSUME NEW r \in Requests, EvictRemove(r)
        PROVE  MarkUndisturbed'
    <2> SUFFICES ASSUME NEW k \in Keys, safe'[k] > clock'
                 PROVE  /\ Live(k)' /\ tracker'[k].expires_at = safe'[k]
                        /\ \A o \in Requests :
                             key'[o] = k => pc'[o] \in {"idle", "get", "push"}
      BY DEF MarkUndisturbed
    <2>1. k # victim[r].key /\ safe[k] > clock /\ safe'[k] = safe[k]
          /\ tracker'[k] = tracker[k]
      BY <1>8 DEF EvictRemove
    <2>2. Live(k)' /\ tracker'[k].expires_at = safe'[k]
      BY <2>1 DEF MarkUndisturbed, Live
    <2>3. \A o \in Requests : key'[o] = k => pc'[o] \in {"idle", "get", "push"}
      BY <1>1, <1>2, <1>8, <2>1 DEF EvictRemove
    <2>4. QED
      BY <2>2, <2>3
  <1>9. ASSUME NEW r \in Requests, Insert(r)
        PROVE  MarkUndisturbed'
    <2> SUFFICES ASSUME NEW k \in Keys, safe'[k] > clock'
                 PROVE  /\ Live(k)' /\ tracker'[k].expires_at = safe'[k]
                        /\ \A o \in Requests :
                             key'[o] = k => pc'[o] \in {"idle", "get", "push"}
      BY DEF MarkUndisturbed
    <2>1. CASE k = key[r]
      <3>1. ~ \E o \in Requests \ {r} : Active(o) /\ key[o] = key[r]
        BY <1>9, <2>1 DEF Insert
      <3>2. safe'[k] = now[r] + Ttl
        BY <1>9, <2>1, <3>1 DEF Insert
      <3>3. Live(k)' /\ tracker'[k].expires_at = now[r] + Ttl
        BY <1>9, <2>1 DEF Insert, Live, LocationOK
      <3>4. \A o \in Requests : key'[o] = k => pc'[o] \in {"idle", "get", "push"}
        BY <1>9, <2>1, <3>1 DEF Insert, Active
      <3>5. QED
        BY <3>2, <3>3, <3>4
    <2>2. CASE k # key[r]
      <3>1. safe[k] > clock /\ safe'[k] = safe[k] /\ tracker'[k] = tracker[k]
        BY <1>9, <2>2 DEF Insert
      <3>2. Live(k)' /\ tracker'[k].expires_at = safe'[k]
        BY <3>1 DEF MarkUndisturbed, Live
      <3>3. \A o \in Requests : key'[o] = k => pc'[o] \in {"idle", "get", "push"}
        BY <1>2, <1>9, <2>2, <3>1 DEF Insert
      <3>4. QED
        BY <3>2, <3>3
    <2>3. QED
      BY <2>1, <2>2
  <1>10. ASSUME NEW r \in Requests, Push(r)
         PROVE  MarkUndisturbed'
    BY <1>2, <1>10, MarkKept DEF Push
  <1>11. CASE CleanupShard
    <2>1. cleaner.at \in Keys /\ cleaner.now \in Nat /\ cleaner.now <= clock
      BY <1>11 DEF CleanupShard, InstantsPast
    <2>2. \A k \in Keys : safe[k] > clock => tracker'[k] = tracker[k]
      BY <1>11, <2>1, RetainedMark DEF CleanupShard
    <2>3. QED
      BY <1>2, <1>11, <2>2, MarkKept DEF CleanupShard
  <1>12. CASE CleanupBegin \/ Tick \/ UNCHANGED vars
    BY <1>2, <1>12, MarkKept DEF CleanupBegin, Tick, vars
  <1>13. QED
    BY <1>3, <1>4, <1>5, <1>6, <1>7, <1>8, <1>9, <1>10, <1>11, <1>12 DEF Next, Step

\* A replay within the window of an undisturbed mark is rejected: the mark stays
\* until its window ends or it is evicted for capacity, whatever the other
\* requests and the cleanup do meanwhile.
THEOREM MarkHeldHolds == Spec => []MarkHeld
  <1> DEFINE Inv == TypeOK /\ MarkUndisturbed /\ InstantsPast
  <1>1. Init => Inv
    BY InitIInv DEF IInv
  <1>2. Inv /\ [Next]_vars => Inv'
    BY SharedTypeStep, LocalTypeStep, LocationStep, HistoryTypeStep, MarkStep, InstantsStep
    DEF TypeOK
  <1>3. Inv => MarkHeld
    BY DEF MarkUndisturbed, MarkHeld
  <1>4. QED
    BY <1>1, <1>2, <1>3, PTL DEF Spec
==============================================================================
