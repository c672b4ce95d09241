----------------------- MODULE HandshakeReplayProofs -----------------------
(***************************************************************************)
(* Proofs about ReplayCache, for every set of goroutines, agent ids and    *)
(* nonces, every retention, capacity and batch size; and then about        *)
(* HandshakeReplay, for any handlers and sweepers: the cache keeps its     *)
(* invariant in their hands, a nonce is admitted once, a refusal has a     *)
(* cause, and all of it implements NonceRegistry.                          *)
(***************************************************************************)
EXTENDS HandshakeReplay, FiniteSetTheorems, TLAPS

-----------------------------------------------------------------------------
(* The inductive invariant *)

\* A call in flight read its time in the past.
NowNotAhead == \A p \in Procs : call[p].now <= clock

\* An entry is exactly the trace of the last write of its key.
EntriesStamped ==
    \A k \in DOMAIN entries :
        /\ stamped[k] # Never
        /\ k \notin forgotten
        /\ entries[k].expiresAt = stamped[k] + Retention

\* A protected key is present.
ProtectedPresent == \A k \in Keys : Protected(k) => k \in DOMAIN entries

FiniteEntries == IsFiniteSet(DOMAIN entries)

IndInv ==
    /\ TypeOK
    /\ FiniteEntries
    /\ BoundedEntries
    /\ NowNotAhead
    /\ EntriesStamped
    /\ ProtectedPresent

-----------------------------------------------------------------------------
(* Facts about the helpers *)

\* m2 is m without some entries, all of them expired at `now'.
Swept(m2, m, now) ==
    /\ DOMAIN m2 \subseteq DOMAIN m
    /\ m2 = [k \in DOMAIN m2 |-> m[k]]
    /\ \A k \in DOMAIN m \ DOMAIN m2 : now >= m[k].expiresAt

\* Lazy eviction (replaycache.go:313-333) only drops expired entries.
LEMMA LazyEvictSweeps ==
    ASSUME NEW m, NEW now \in Nat, NEW m2 \in lazyEvict(m, now),
           m = [k \in DOMAIN m |-> m[k]]
    PROVE  Swept(m2, m, now)
<1>1. CASE m2 = m
  BY <1>1 DEF Swept
<1>2. CASE m2 # m
  <2>1. PICK B \in Batches(DOMAIN m) : m2 = Without(m, B \cap Expired(m, now))
    BY <1>2 DEF lazyEvict
  <2>2. DOMAIN m2 = DOMAIN m \ (B \cap Expired(m, now))
    BY <2>1 DEF Without
  <2>3. m2 = [k \in DOMAIN m2 |-> m[k]]
    BY <2>1, <2>2 DEF Without
  <2> QED
    BY <2>2, <2>3 DEF Swept, Expired, isExpired
<1> QED BY <1>1, <1>2

\* What is left after making room (replaycache.go:246-248 with evictLRU) is a
\* part of the map, and one more entry fits in it.
LEMMA MakeRoomFits ==
    ASSUME NEW m, NEW now \in Nat, NEW m2 \in MakeRoom(m, now),
           m = [k \in DOMAIN m |-> m[k]],
           IsFiniteSet(DOMAIN m), Cardinality(DOMAIN m) <= MaxEntries
    PROVE  /\ DOMAIN m2 \subseteq DOMAIN m
           /\ m2 = [k \in DOMAIN m2 |-> m[k]]
           /\ IsFiniteSet(DOMAIN m2)
           /\ Cardinality(DOMAIN m2) + 1 <= MaxEntries
<1>0. Cardinality(DOMAIN m) \in Nat
  BY FS_CardinalityType
<1>1. CASE Cardinality(DOMAIN m) >= MaxEntries
  <2>1. m2 \in evictLRU(m, now)
    BY <1>1 DEF MakeRoom
  <2>2. PICK k \in DOMAIN m : m2 = Without(m, {k})
    BY <2>1 DEF evictLRU, Expired, LeastRecent
  <2>3. DOMAIN m2 = DOMAIN m \ {k}
    BY <2>2 DEF Without
  <2>4. m2 = [j \in DOMAIN m2 |-> m[j]]
    BY <2>2, <2>3 DEF Without
  <2>5. /\ IsFiniteSet(DOMAIN m2)
        /\ Cardinality(DOMAIN m2) = Cardinality(DOMAIN m) - 1
    BY <2>2, <2>3, FS_RemoveElement
  <2> QED
    BY <1>0, <2>3, <2>4, <2>5, MaxEntriesAssumption
<1>2. CASE ~(Cardinality(DOMAIN m) >= MaxEntries)
  <2>1. m2 = m
    BY <1>2 DEF MakeRoom
  <2> QED
    BY <1>0, <1>2, <2>1, MaxEntriesAssumption
<1> QED BY <1>1, <1>2

\* Writing one entry adds at most one key.
LEMMA PutAddsOne ==
    ASSUME NEW m, NEW key, NEW now, IsFiniteSet(DOMAIN m),
           Cardinality(DOMAIN m) + 1 <= MaxEntries
    PROVE  /\ DOMAIN Put(m, key, now) = DOMAIN m \cup {key}
           /\ IsFiniteSet(DOMAIN m \cup {key})
           /\ Cardinality(DOMAIN m \cup {key}) <= MaxEntries
<1>1. Cardinality(DOMAIN m) \in Nat
  BY FS_CardinalityType
<1>2. DOMAIN Put(m, key, now) = DOMAIN m \cup {key}
  BY DEF Put
<1>3. /\ IsFiniteSet(DOMAIN m \cup {key})
      /\ \/ Cardinality(DOMAIN m \cup {key}) = Cardinality(DOMAIN m)
         \/ Cardinality(DOMAIN m \cup {key}) = Cardinality(DOMAIN m) + 1
  BY FS_AddElement
<1> QED BY <1>1, <1>2, <1>3, MaxEntriesAssumption

-----------------------------------------------------------------------------
(* Preservation *)

\* Returning from a call keeps the calls well formed and in the past.
LEMMA ReturnKeepsCalls ==
    ASSUME TypeOK, NowNotAhead, NEW p \in Procs, Return(p), clock' = clock
    PROVE  /\ call' \in [Procs -> Calls]
           /\ \A q \in Procs :
                 call'[q].op \in {"Check", "CheckAndInsert", "Insert"}
                     => call'[q].key \in Keys
           /\ NowNotAhead'
<1>1. Idle \in Calls
  BY DEF Idle, Calls
<1>2. /\ Idle.op = "idle"
      /\ Idle.now = 0
  BY DEF Idle
<1>3. call' = [call EXCEPT ![p] = Idle]
  BY DEF Return
<1>4. \A q \in Procs : call'[q] = IF q = p THEN Idle ELSE call[q]
  BY <1>3 DEF TypeOK
<1>5. call' \in [Procs -> Calls]
  BY <1>1, <1>3 DEF TypeOK
<1>6. \A q \in Procs :
        call'[q].op \in {"Check", "CheckAndInsert", "Insert"}
            => call'[q].key \in Keys
  BY <1>2, <1>4 DEF TypeOK
<1>7. NowNotAhead'
  BY <1>2, <1>4 DEF NowNotAhead, TypeOK
<1> QED BY <1>5, <1>6, <1>7

\* A step that only drops entries expired for the acting call, and changes no
\* expiry, preserves the invariant.
LEMMA SweepPreserves ==
    ASSUME IndInv, NEW p \in Procs,
           entries' \in [DOMAIN entries' -> Entry],
           DOMAIN entries' \subseteq DOMAIN entries,
           \A k \in DOMAIN entries' :
               entries'[k].expiresAt = entries[k].expiresAt,
           \A k \in DOMAIN entries \ DOMAIN entries' :
               call[p].now >= entries[k].expiresAt,
           Return(p), clock' = clock, stamped' = stamped,
           forgotten' = forgotten
    PROVE  IndInv'
<1>1. TypeOK'
  BY ReturnKeepsCalls DEF IndInv, TypeOK
<1>2. FiniteEntries' /\ BoundedEntries'
  <2>1. /\ IsFiniteSet(DOMAIN entries')
        /\ Cardinality(DOMAIN entries') <= Cardinality(DOMAIN entries)
    BY FS_Subset DEF IndInv, FiniteEntries
  <2>2. /\ Cardinality(DOMAIN entries') \in Nat
        /\ Cardinality(DOMAIN entries) \in Nat
    BY <2>1, FS_CardinalityType DEF IndInv, FiniteEntries
  <2> QED
    BY <2>1, <2>2, MaxEntriesAssumption
       DEF IndInv, FiniteEntries, BoundedEntries
<1>3. NowNotAhead'
  BY ReturnKeepsCalls DEF IndInv
<1>4. EntriesStamped'
  BY DEF IndInv, EntriesStamped
<1>5. ProtectedPresent'
  <2> SUFFICES ASSUME NEW k \in Keys, Protected(k)'
               PROVE  k \in DOMAIN entries'
    BY DEF ProtectedPresent
  <2>1. Protected(k)
    BY DEF Protected
  <2>2. k \in DOMAIN entries
    BY <2>1 DEF IndInv, ProtectedPresent
  <2>3. entries[k].expiresAt = stamped[k] + Retention
    BY <2>2 DEF IndInv, EntriesStamped
  <2>4. /\ call[p].now \in Nat /\ clock \in Nat
        /\ call[p].now <= clock
        /\ stamped[k] + Retention \in Int
    BY RetentionAssumption DEF IndInv, NowNotAhead, TypeOK, Calls, Never
  <2>5. ~(call[p].now >= entries[k].expiresAt)
    BY <2>1, <2>3, <2>4 DEF Protected
  <2> QED
    BY <2>2, <2>5
<1> QED BY <1>1, <1>2, <1>3, <1>4, <1>5 DEF IndInv

\* Writing `key' into what is left of the cache after dropping the key itself,
\* expired entries and the entries evicted to make room.
LEMMA InsertionPreserves ==
    ASSUME IndInv, NEW p \in Procs, NEW key \in Keys, NEW rest, NEW room,
           DOMAIN rest \subseteq DOMAIN entries,
           rest = [k \in DOMAIN rest |-> entries[k]],
           \A k \in DOMAIN entries \ DOMAIN rest :
               k = key \/ call[p].now >= entries[k].expiresAt,
           DOMAIN room \subseteq DOMAIN rest,
           room = [k \in DOMAIN room |-> rest[k]],
           IsFiniteSet(DOMAIN room),
           Cardinality(DOMAIN room) + 1 <= MaxEntries,
           entries' = Put(room, key, call[p].now),
           Stamp(key, call[p].now, DOMAIN rest \ DOMAIN room),
           Return(p), clock' = clock
    PROVE  IndInv'
<1> DEFINE now == call[p].now
<1>0. now \in Nat /\ clock \in Nat /\ now <= clock
  BY DEF IndInv, TypeOK, NowNotAhead, Calls
<1>1. DOMAIN entries' = DOMAIN room \cup {key}
  BY DEF Put
<1>2. /\ entries'[key] = [expiresAt |-> now + Retention, lastAccessed |-> now]
      /\ \A k \in DOMAIN room : k # key => entries'[k] = entries[k]
  BY DEF Put
<1>3. /\ stamped' = [stamped EXCEPT ![key] = now]
      /\ forgotten' = (forgotten \cup (DOMAIN rest \ DOMAIN room)) \ {key}
  BY DEF Stamp
<1>4. /\ stamped'[key] = now
      /\ \A k \in Keys : k # key => stamped'[k] = stamped[k]
  BY <1>3 DEF IndInv, TypeOK
<1>5. TypeOK'
  <2>1. entries' \in [DOMAIN entries' -> Entry]
    <3>1. entries' = [k \in DOMAIN entries' |-> entries'[k]]
      BY DEF Put
    <3>2. \A k \in DOMAIN entries' : entries'[k] \in Entry
      BY <1>0, <1>1, <1>2, RetentionAssumption DEF Entry, IndInv, TypeOK
    <3> QED BY <3>1, <3>2
  <2>2. stamped' \in [Keys -> Nat \cup {Never}]
    BY <1>0, <1>3 DEF IndInv, TypeOK
  <2>3. DOMAIN entries' \subseteq Keys /\ forgotten' \subseteq Keys
    BY <1>1, <1>3 DEF IndInv, TypeOK
  <2>4. clock' \in Nat
    BY <1>0
  <2> QED
    BY <2>1, <2>2, <2>3, <2>4, ReturnKeepsCalls DEF IndInv, TypeOK
<1>6. FiniteEntries' /\ BoundedEntries'
  BY <1>1, PutAddsOne DEF FiniteEntries, BoundedEntries
<1>7. NowNotAhead'
  BY ReturnKeepsCalls DEF IndInv
<1>8. EntriesStamped'
  <2> SUFFICES ASSUME NEW k \in DOMAIN entries'
               PROVE  /\ stamped'[k] # Never
                      /\ k \notin forgotten'
                      /\ entries'[k].expiresAt = stamped'[k] + Retention
    BY DEF EntriesStamped
  <2>1. CASE k = key
    BY <2>1, <1>0, <1>2, <1>3, <1>4 DEF Never
  <2>2. CASE k # key
    <3>1. k \in DOMAIN room /\ k \in DOMAIN entries /\ k \in Keys
      BY <1>1, <2>2 DEF IndInv, TypeOK
    <3> QED
      BY <2>2, <3>1, <1>2, <1>3, <1>4 DEF IndInv, EntriesStamped
  <2> QED BY <2>1, <2>2
<1>9. ProtectedPresent'
  <2> SUFFICES ASSUME NEW k \in Keys, Protected(k)', k # key
               PROVE  k \in DOMAIN entries'
    BY <1>1 DEF ProtectedPresent
  <2>1. /\ Protected(k)
        /\ k \notin DOMAIN rest \ DOMAIN room
    BY <1>3, <1>4 DEF Protected
  <2>2. k \in DOMAIN entries
    BY <2>1 DEF IndInv, ProtectedPresent
  <2>3. entries[k].expiresAt = stamped[k] + Retention
    BY <2>2 DEF IndInv, EntriesStamped
  <2>4. stamped[k] + Retention \in Int
    BY RetentionAssumption DEF IndInv, TypeOK, Never
  <2>5. ~(now >= entries[k].expiresAt)
    BY <1>0, <2>1, <2>3, <2>4 DEF Protected
  <2>6. k \in DOMAIN rest
    BY <2>2, <2>5
  <2> QED
    BY <1>1, <2>1, <2>6
<1> QED BY <1>5, <1>6, <1>7, <1>8, <1>9 DEF IndInv

\* What a locked section starts from: the map after lazy eviction.
LEMMA LockedStart ==
    ASSUME IndInv, NEW p \in Procs, NEW m \in lazyEvict(entries, call[p].now)
    PROVE  /\ call[p].now \in Nat
           /\ Swept(m, entries, call[p].now)
           /\ m \in [DOMAIN m -> Entry]
           /\ IsFiniteSet(DOMAIN m)
           /\ Cardinality(DOMAIN m) \in Nat
           /\ Cardinality(DOMAIN m) <= MaxEntries
<1>1. call[p].now \in Nat
  BY DEF IndInv, TypeOK, Calls
<1>2. Swept(m, entries, call[p].now)
  BY <1>1, LazyEvictSweeps DEF IndInv, TypeOK
<1>3. m \in [DOMAIN m -> Entry]
  BY <1>2 DEF Swept, IndInv, TypeOK
<1>4. /\ IsFiniteSet(DOMAIN m)
      /\ Cardinality(DOMAIN m) <= Cardinality(DOMAIN entries)
  BY <1>2, FS_Subset DEF Swept, IndInv, FiniteEntries
<1>5. Cardinality(DOMAIN m) \in Nat /\ Cardinality(DOMAIN entries) \in Nat
  BY <1>4, FS_CardinalityType DEF IndInv, FiniteEntries
<1> QED
  BY <1>1, <1>2, <1>3, <1>4, <1>5, MaxEntriesAssumption
     DEF IndInv, BoundedEntries

\* The part of CheckAndInsert after the reuse test: drop the key, make room.
LEMMA RestAndRoom ==
    ASSUME IndInv, NEW p \in Procs, NEW key, NEW rest,
           NEW m \in lazyEvict(entries, call[p].now),
           rest = Without(m, {key}),
           NEW room \in MakeRoom(rest, call[p].now)
    PROVE  /\ DOMAIN rest \subseteq DOMAIN entries
           /\ rest = [k \in DOMAIN rest |-> entries[k]]
           /\ \A k \in DOMAIN entries \ DOMAIN rest :
                 k = key \/ call[p].now >= entries[k].expiresAt
           /\ DOMAIN room \subseteq DOMAIN rest
           /\ room = [k \in DOMAIN room |-> rest[k]]
           /\ IsFiniteSet(DOMAIN room)
           /\ Cardinality(DOMAIN room) + 1 <= MaxEntries
<1>1. /\ call[p].now \in Nat
      /\ Swept(m, entries, call[p].now)
      /\ IsFiniteSet(DOMAIN m)
      /\ Cardinality(DOMAIN m) \in Nat
      /\ Cardinality(DOMAIN m) <= MaxEntries
  BY LockedStart
<1>2. /\ DOMAIN rest = DOMAIN m \ {key}
      /\ rest = [k \in DOMAIN rest |-> m[k]]
  BY DEF Without
<1>3. /\ DOMAIN rest \subseteq DOMAIN entries
      /\ rest = [k \in DOMAIN rest |-> entries[k]]
      /\ \A k \in DOMAIN entries \ DOMAIN rest :
            k = key \/ call[p].now >= entries[k].expiresAt
  BY <1>1, <1>2 DEF Swept
<1>4. /\ IsFiniteSet(DOMAIN rest)
      /\ Cardinality(DOMAIN rest) <= Cardinality(DOMAIN m)
  BY <1>1, <1>2, FS_Subset
<1>5. Cardinality(DOMAIN rest) \in Nat
  BY <1>4, FS_CardinalityType
<1>6. Cardinality(DOMAIN rest) <= MaxEntries
  BY <1>1, <1>4, <1>5, MaxEntriesAssumption
<1>7. rest = [k \in DOMAIN rest |-> rest[k]]
  BY <1>2
<1>8. /\ DOMAIN room \subseteq DOMAIN rest
      /\ room = [k \in DOMAIN room |-> rest[k]]
      /\ IsFiniteSet(DOMAIN room)
      /\ Cardinality(DOMAIN room) + 1 <= MaxEntries
  BY <1>1, <1>4, <1>6, <1>7, MakeRoomFits
<1> QED BY <1>3, <1>8

\* Every step preserves the inductive invariant.
LEMMA StepPreserves == IndInv /\ [Next]_vars => IndInv'
<1> SUFFICES ASSUME IndInv, [Next]_vars PROVE IndInv'
  OBVIOUS
<1>1. CASE Tick
  <2>1. clock' = clock + 1 /\ clock \in Nat /\ UNCHANGED <<entries, call, stamped, forgotten>>
    BY <1>1 DEF Tick, IndInv, TypeOK
  <2>2. TypeOK' /\ FiniteEntries' /\ BoundedEntries' /\ EntriesStamped'
    BY <2>1 DEF IndInv, TypeOK, FiniteEntries, BoundedEntries, EntriesStamped
  <2>3. NowNotAhead'
    BY <2>1 DEF IndInv, TypeOK, NowNotAhead, Calls
  <2>4. ProtectedPresent'
    <3> SUFFICES ASSUME NEW k \in Keys, Protected(k)' PROVE k \in DOMAIN entries
      BY <2>1 DEF ProtectedPresent
    <3>1. Protected(k)
      BY <2>1, RetentionAssumption DEF Protected, IndInv, TypeOK, Never
    <3> QED BY <3>1 DEF IndInv, ProtectedPresent
  <2> QED BY <2>2, <2>3, <2>4 DEF IndInv
<1>2. ASSUME NEW p \in Procs, NEW op, NEW key, Call(p, op, key),
             \/ op \in {"Check", "CheckAndInsert", "Insert"} /\ key \in Keys
             \/ op = "EvictExpired" /\ key = NoKey
      PROVE  IndInv'
  <2>1. /\ call' = [call EXCEPT ![p] = [op |-> op, key |-> key, now |-> clock]]
        /\ UNCHANGED <<entries, clock, stamped, forgotten>>
    BY <1>2 DEF Call
  <2>2. [op |-> op, key |-> key, now |-> clock] \in Calls
    BY <1>2 DEF Calls, AllOps, IndInv, TypeOK
  <2>3. \A q \in Procs : call'[q] =
          IF q = p THEN [op |-> op, key |-> key, now |-> clock] ELSE call[q]
    BY <2>1 DEF IndInv, TypeOK
  <2>4. TypeOK'
    <3>1. call' \in [Procs -> Calls]
      BY <2>1, <2>2 DEF IndInv, TypeOK
    <3>2. \A q \in Procs :
            call'[q].op \in {"Check", "CheckAndInsert", "Insert"}
                => call'[q].key \in Keys
      BY <1>2, <2>3 DEF IndInv, TypeOK
    <3> QED BY <2>1, <3>1, <3>2 DEF IndInv, TypeOK
  <2>5. NowNotAhead'
    BY <2>1, <2>3 DEF IndInv, TypeOK, NowNotAhead
  <2>6. FiniteEntries' /\ BoundedEntries' /\ EntriesStamped' /\ ProtectedPresent'
    BY <2>1 DEF IndInv, FiniteEntries, BoundedEntries, EntriesStamped,
                ProtectedPresent, Protected
  <2> QED BY <2>4, <2>5, <2>6 DEF IndInv
<1>3. ASSUME NEW p \in Procs, CheckHit(p) PROVE IndInv'
  <2>1. PICK m \in lazyEvict(entries, call[p].now) :
          /\ Live(m, call[p].key, call[p].now)
          /\ entries' = Touch(m, call[p].key, call[p].now)
    BY <1>3 DEF CheckHit
  <2>2. /\ call[p].now \in Nat
        /\ Swept(m, entries, call[p].now)
        /\ m \in [DOMAIN m -> Entry]
    BY LockedStart
  <2>3. call[p].key \in DOMAIN m
    BY <2>1 DEF Live
  <2>4. /\ entries' \in [DOMAIN entries' -> Entry]
        /\ DOMAIN entries' = DOMAIN m
        /\ \A k \in DOMAIN m : entries'[k].expiresAt = m[k].expiresAt
    BY <2>1, <2>2, <2>3 DEF Touch, Entry
  <2>5. /\ DOMAIN entries' \subseteq DOMAIN entries
        /\ \A k \in DOMAIN entries' :
              entries'[k].expiresAt = entries[k].expiresAt
        /\ \A k \in DOMAIN entries \ DOMAIN entries' :
              call[p].now >= entries[k].expiresAt
    BY <2>2, <2>4 DEF Swept
  <2> QED
    BY <1>3, <2>4, <2>5, SweepPreserves DEF CheckHit
<1>4. ASSUME NEW p \in Procs, CheckMiss(p) PROVE IndInv'
  <2>1. PICK m \in lazyEvict(entries, call[p].now) :
          /\ ~Live(m, call[p].key, call[p].now)
          /\ entries' = Without(m, {call[p].key})
    BY <1>4 DEF CheckMiss
  <2>2. /\ Swept(m, entries, call[p].now)
        /\ m \in [DOMAIN m -> Entry]
    BY LockedStart
  <2>3. /\ DOMAIN entries' = DOMAIN m \ {call[p].key}
        /\ entries' \in [DOMAIN entries' -> Entry]
        /\ \A k \in DOMAIN entries' : entries'[k] = m[k]
    BY <2>1, <2>2 DEF Without
  <2>4. \A k \in DOMAIN entries \ DOMAIN entries' :
          call[p].now >= entries[k].expiresAt
    BY <2>1, <2>2, <2>3 DEF Swept, Live, isExpired
  <2> QED
    BY <1>4, <2>2, <2>3, <2>4, SweepPreserves DEF CheckMiss, Swept
<1>5. ASSUME NEW p \in Procs, CheckAndInsertReuse(p) PROVE IndInv'
  <2>1. PICK m \in lazyEvict(entries, call[p].now) : entries' = m
    BY <1>5 DEF CheckAndInsertReuse
  <2>2. /\ Swept(m, entries, call[p].now)
        /\ m \in [DOMAIN m -> Entry]
    BY LockedStart
  <2> QED
    BY <1>5, <2>1, <2>2, SweepPreserves DEF CheckAndInsertReuse, Swept
<1>6. ASSUME NEW p \in Procs, CheckAndInsertFresh(p) PROVE IndInv'
  <2> DEFINE key == call[p].key
             now == call[p].now
  <2>1. PICK m \in lazyEvict(entries, now) :
          \E room \in MakeRoom(Without(m, {key}), now) :
             /\ entries' = Put(room, key, now)
             /\ Stamp(key, now, DOMAIN Without(m, {key}) \ DOMAIN room)
    BY <1>6 DEF CheckAndInsertFresh
  <2>2. PICK room \in MakeRoom(Without(m, {key}), now) :
             /\ entries' = Put(room, key, now)
             /\ Stamp(key, now, DOMAIN Without(m, {key}) \ DOMAIN room)
    BY <2>1
  <2>3. key \in Keys /\ Return(p) /\ clock' = clock
    BY <1>6 DEF CheckAndInsertFresh, Running, IndInv, TypeOK
  <2> DEFINE rest == Without(m, {key})
  <2>4. /\ DOMAIN rest \subseteq DOMAIN entries
        /\ rest = [k \in DOMAIN rest |-> entries[k]]
        /\ \A k \in DOMAIN entries \ DOMAIN rest :
              k = key \/ now >= entries[k].expiresAt
        /\ DOMAIN room \subseteq DOMAIN rest
        /\ room = [k \in DOMAIN room |-> rest[k]]
        /\ IsFiniteSet(DOMAIN room)
        /\ Cardinality(DOMAIN room) + 1 <= MaxEntries
    BY <2>2, RestAndRoom
  <2>5. Stamp(key, now, DOMAIN rest \ DOMAIN room)
    BY <2>2
  <2> HIDE DEF rest
  <2> QED
    BY <2>2, <2>3, <2>4, <2>5, InsertionPreserves
<1>7. ASSUME NEW p \in Procs, Insert(p) PROVE IndInv'
  <2> DEFINE key == call[p].key
             now == call[p].now
  <2>1. PICK m \in lazyEvict(entries, now) :
          \E room \in IF key \in DOMAIN m THEN {m} ELSE MakeRoom(m, now) :
             /\ entries' = Put(room, key, now)
             /\ Stamp(key, now, DOMAIN m \ DOMAIN room)
    BY <1>7 DEF Insert
  <2>2. PICK room \in IF key \in DOMAIN m THEN {m} ELSE MakeRoom(m, now) :
             /\ entries' = Put(room, key, now)
             /\ Stamp(key, now, DOMAIN m \ DOMAIN room)
    BY <2>1
  <2>3. key \in Keys /\ Return(p) /\ clock' = clock
    BY <1>7 DEF Insert, Running, IndInv, TypeOK
  <2>4. /\ now \in Nat
        /\ Swept(m, entries, now)
        /\ m \in [DOMAIN m -> Entry]
        /\ IsFiniteSet(DOMAIN m)
        /\ Cardinality(DOMAIN m) \in Nat
        /\ Cardinality(DOMAIN m) <= MaxEntries
    BY LockedStart
  <2>5. CASE key \in DOMAIN m
    <3> DEFINE rest == Without(m, {key})
    <3>1. /\ DOMAIN rest = DOMAIN m \ {key}
          /\ rest = [k \in DOMAIN rest |-> m[k]]
      BY DEF Without
    <3>2. entries' = Put(rest, key, now)
      BY <2>2, <2>5, <3>1 DEF Put
    <3>3. Stamp(key, now, DOMAIN rest \ DOMAIN rest)
      BY <2>2, <2>5 DEF Stamp
    <3>4. /\ IsFiniteSet(DOMAIN rest)
          /\ Cardinality(DOMAIN rest) + 1 <= MaxEntries
      <4>1. /\ IsFiniteSet(DOMAIN m \ {key})
            /\ Cardinality(DOMAIN m \ {key}) = Cardinality(DOMAIN m) - 1
        BY <2>4, <2>5, FS_RemoveElement
      <4> QED BY <2>4, <3>1, <4>1, MaxEntriesAssumption
    <3>5. /\ DOMAIN rest \subseteq DOMAIN entries
          /\ rest = [k \in DOMAIN rest |-> entries[k]]
          /\ \A k \in DOMAIN entries \ DOMAIN rest :
                k = key \/ now >= entries[k].expiresAt
      BY <2>4, <3>1 DEF Swept
    <3>6. rest = [k \in DOMAIN rest |-> rest[k]]
      BY <3>1
    <3> HIDE DEF rest
    <3> QED
      BY <2>3, <3>2, <3>3, <3>4, <3>5, <3>6, InsertionPreserves
  <2>6. CASE key \notin DOMAIN m
    <3>1. room \in MakeRoom(m, now)
      BY <2>6
    <3>2. /\ DOMAIN room \subseteq DOMAIN m
          /\ room = [k \in DOMAIN room |-> m[k]]
          /\ IsFiniteSet(DOMAIN room)
          /\ Cardinality(DOMAIN room) + 1 <= MaxEntries
      BY <2>4, <3>1, MakeRoomFits
    <3>3. /\ DOMAIN m \subseteq DOMAIN entries
          /\ m = [k \in DOMAIN m |-> entries[k]]
          /\ \A k \in DOMAIN entries \ DOMAIN m :
                k = key \/ now >= entries[k].expiresAt
      BY <2>4 DEF Swept
    <3> QED
      BY <2>2, <2>3, <3>2, <3>3, InsertionPreserves
  <2> QED BY <2>5, <2>6
<1>8. ASSUME NEW p \in Procs, EvictExpired(p) PROVE IndInv'
  <2>1. /\ entries' = Without(entries, Expired(entries, call[p].now))
        /\ Return(p) /\ UNCHANGED <<clock, stamped, forgotten>>
    BY <1>8 DEF EvictExpired
  <2>2. DOMAIN entries' = DOMAIN entries \ Expired(entries, call[p].now)
    BY <2>1 DEF Without
  <2>3. /\ entries' \in [DOMAIN entries' -> Entry]
        /\ \A k \in DOMAIN entries' : entries'[k] = entries[k]
    BY <2>1, <2>2 DEF Without, IndInv, TypeOK
  <2>4. \A k \in DOMAIN entries \ DOMAIN entries' :
          call[p].now >= entries[k].expiresAt
    BY <2>2 DEF Expired, isExpired
  <2> QED
    BY <2>1, <2>2, <2>3, <2>4, SweepPreserves
<1>9. ASSUME NEW p \in Procs, Clear(p) PROVE IndInv'
  <2>1. /\ entries' = [k \in {} |-> 0]
        /\ forgotten' = forgotten \cup DOMAIN entries
        /\ UNCHANGED <<clock, call, stamped>>
    BY <1>9 DEF Clear
  <2>2. DOMAIN entries' = {}
    BY <2>1
  <2>3. TypeOK'
    BY <2>1, <2>2 DEF IndInv, TypeOK
  <2>4. FiniteEntries' /\ BoundedEntries'
    BY <2>2, FS_EmptySet, MaxEntriesAssumption DEF FiniteEntries, BoundedEntries
  <2>5. NowNotAhead' /\ EntriesStamped'
    BY <2>1, <2>2 DEF IndInv, NowNotAhead, EntriesStamped
  <2>6. ProtectedPresent'
    BY <2>1 DEF IndInv, ProtectedPresent, Protected
  <2> QED BY <2>3, <2>4, <2>5, <2>6 DEF IndInv
<1>10. CASE UNCHANGED vars
  BY <1>10 DEF vars, IndInv, TypeOK, FiniteEntries, BoundedEntries, NowNotAhead,
               EntriesStamped, ProtectedPresent, Protected
<1>11. ASSUME NEW p \in Procs, NEW op \in Ops, NEW a \in AgentIDs,
              NEW n \in GoodNonces, CallWithNonce(p, op, a, n)
       PROVE  IndInv'
  BY <1>2, <1>11 DEF CallWithNonce, Keys
<1>12. ASSUME NEW p \in Procs, CallEvictExpired(p) PROVE IndInv'
  BY <1>2, <1>12 DEF CallEvictExpired
<1>13. ASSUME NEW p \in Procs, NEW op \in Ops, BadNonce(p, op) PROVE IndInv'
  BY <1>10, <1>13 DEF BadNonce
<1> QED
  BY <1>1, <1>3, <1>4, <1>5, <1>6, <1>7, <1>8, <1>9, <1>10, <1>11, <1>12, <1>13
     DEF Next, Locked

\* A new cache satisfies the invariant.
LEMMA InitEstablishes == Init => IndInv
<1> SUFFICES ASSUME Init PROVE IndInv
  OBVIOUS
<1>1. DOMAIN entries = {} /\ clock = 0
  BY DEF Init
<1>2. \A p \in Procs : call[p] = Idle
  BY DEF Init
<1>3. Idle \in Calls /\ Idle.op = "idle" /\ Idle.now = 0
  BY DEF Idle, Calls
<1>4. \A k \in Keys : stamped[k] = Never
  BY DEF Init
<1>5. TypeOK
  BY <1>1, <1>2, <1>3 DEF Init, TypeOK
<1>6. FiniteEntries /\ BoundedEntries
  BY <1>1, FS_EmptySet, MaxEntriesAssumption DEF FiniteEntries, BoundedEntries
<1>7. NowNotAhead /\ EntriesStamped /\ ProtectedPresent
  BY <1>1, <1>2, <1>3, <1>4
     DEF NowNotAhead, EntriesStamped, ProtectedPresent, Protected
<1> QED BY <1>5, <1>6, <1>7 DEF IndInv

-----------------------------------------------------------------------------
(* What the locked sections answer and drop *)

\* CheckAndInsert answers nil only for a key that is not protected
\* (replaycache.go:236-244).
LEMMA FreshMeansUnprotected ==
    ASSUME IndInv, NEW p \in Procs, CheckAndInsertFresh(p)
    PROVE  ~Protected(call[p].key)
<1> DEFINE key == call[p].key
           now == call[p].now
<1> SUFFICES ASSUME Protected(key) PROVE FALSE
  OBVIOUS
<1>1. PICK m \in lazyEvict(entries, now) : ~Live(m, key, now)
  BY DEF CheckAndInsertFresh
<1>2. now \in Nat /\ now <= clock /\ clock \in Nat /\ Swept(m, entries, now)
  BY LockedStart DEF IndInv, NowNotAhead, TypeOK
<1>3. key \in Keys
  BY DEF CheckAndInsertFresh, Running, IndInv, TypeOK
<1>4. key \in DOMAIN entries /\ entries[key].expiresAt = stamped[key] + Retention
  BY <1>3 DEF IndInv, ProtectedPresent, EntriesStamped
<1>5. stamped[key] + Retention \in Int
  BY <1>3, RetentionAssumption DEF IndInv, TypeOK, Never
<1>6. ~(now >= entries[key].expiresAt)
  BY <1>2, <1>4, <1>5 DEF Protected
<1>7. key \in DOMAIN m /\ m[key] = entries[key]
  BY <1>2, <1>4, <1>6 DEF Swept
<1> QED BY <1>1, <1>6, <1>7 DEF Live, isExpired

\* Lookups and sweeps only drop what has expired, and change no expiry.
LEMMA LookupsSweep ==
    ASSUME IndInv, NEW p \in Procs,
           CheckHit(p) \/ CheckMiss(p) \/ CheckAndInsertReuse(p) \/ EvictExpired(p)
    PROVE  /\ DOMAIN entries' \subseteq DOMAIN entries
           /\ \A k \in DOMAIN entries' : entries'[k].expiresAt = entries[k].expiresAt
           /\ \A k \in DOMAIN entries \ DOMAIN entries' : call[p].now >= entries[k].expiresAt
<1>1. CASE EvictExpired(p)
  BY <1>1 DEF EvictExpired, Without, Expired, isExpired
<1>2. CASE CheckHit(p)
  <2>1. PICK m \in lazyEvict(entries, call[p].now) :
          /\ Live(m, call[p].key, call[p].now)
          /\ entries' = Touch(m, call[p].key, call[p].now)
    BY <1>2 DEF CheckHit
  <2>2. Swept(m, entries, call[p].now) /\ m \in [DOMAIN m -> Entry]
    BY LockedStart
  <2>3. /\ DOMAIN entries' = DOMAIN m
        /\ \A k \in DOMAIN m : entries'[k].expiresAt = m[k].expiresAt
    BY <2>1, <2>2 DEF Touch, Entry, Live
  <2> QED BY <2>2, <2>3 DEF Swept
<1>3. CASE CheckMiss(p)
  <2>1. PICK m \in lazyEvict(entries, call[p].now) :
          /\ ~Live(m, call[p].key, call[p].now)
          /\ entries' = Without(m, {call[p].key})
    BY <1>3 DEF CheckMiss
  <2>2. Swept(m, entries, call[p].now)
    BY LockedStart
  <2> QED BY <2>1, <2>2 DEF Swept, Without, Live, isExpired
<1>4. CASE CheckAndInsertReuse(p)
  <2>1. PICK m \in lazyEvict(entries, call[p].now) : entries' = m
    BY <1>4 DEF CheckAndInsertReuse
  <2>2. Swept(m, entries, call[p].now)
    BY LockedStart
  <2> QED BY <2>1, <2>2 DEF Swept
<1> QED BY <1>1, <1>2, <1>3, <1>4

\* A lookup that finds the key finds it in the map it started from.
LEMMA HitMeansKnown ==
    ASSUME IndInv, NEW p \in Procs, CheckHit(p) \/ CheckAndInsertReuse(p)
    PROVE  /\ call[p].key \in DOMAIN entries
           /\ call[p].now < entries[call[p].key].expiresAt
<1>1. PICK m \in lazyEvict(entries, call[p].now) : Live(m, call[p].key, call[p].now)
  BY DEF CheckHit, CheckAndInsertReuse
<1>2. call[p].now \in Nat /\ Swept(m, entries, call[p].now)
  BY LockedStart
<1>3. call[p].key \in DOMAIN entries /\ ~(call[p].now >= entries[call[p].key].expiresAt)
  BY <1>1, <1>2 DEF Live, isExpired, Swept
<1>4. entries[call[p].key].expiresAt \in Nat
  BY <1>3 DEF IndInv, TypeOK, Entry
<1> QED BY <1>2, <1>3, <1>4

\* Making room drops at most one entry, and only from a full map.
LEMMA MakeRoomDropsOne ==
    ASSUME NEW m, NEW now, NEW m2 \in MakeRoom(m, now)
    PROVE  /\ \A j, k \in DOMAIN m \ DOMAIN m2 : j = k
           /\ DOMAIN m # DOMAIN m2 => Cardinality(DOMAIN m) >= MaxEntries
<1>1. CASE Cardinality(DOMAIN m) >= MaxEntries
  <2>1. PICK k \in DOMAIN m : m2 = Without(m, {k})
    BY <1>1 DEF MakeRoom, evictLRU, Expired, LeastRecent
  <2>2. DOMAIN m2 = DOMAIN m \ {k}
    BY <2>1 DEF Without
  <2> QED BY <1>1, <2>2
<1>2. CASE ~(Cardinality(DOMAIN m) >= MaxEntries)
  BY <1>2 DEF MakeRoom
<1> QED BY <1>1, <1>2

\* What an insertion does to the map: it leaves `room' of it and writes the
\* key.  Of the entries that go, all but one have expired or are the key's own;
\* and that one goes only from a full map in which nothing has expired, and was
\* used least recently.
Evicted(room, key, now) ==
    {k \in DOMAIN entries \ DOMAIN room : k # key /\ ~(now >= entries[k].expiresAt)}

Inserts(room, key, now) ==
    /\ DOMAIN room \subseteq DOMAIN entries
    /\ room = [k \in DOMAIN room |-> entries[k]]
    /\ entries' = Put(room, key, now)
    /\ \A j, k \in Evicted(room, key, now) : j = k
    /\ Evicted(room, key, now) # {} => Cardinality(DOMAIN entries) = MaxEntries
    /\ \A k \in Evicted(room, key, now), j \in DOMAIN entries :
          /\ ~(now >= entries[j].expiresAt)
          /\ entries[k].lastAccessed <= entries[j].lastAccessed

\* Both insertions do that (replaycache.go:236-255, 266-283).
LEMMA InsertionRoom ==
    ASSUME IndInv, NEW p \in Procs, CheckAndInsertFresh(p) \/ Insert(p)
    PROVE  \E room : Inserts(room, call[p].key, call[p].now)
<1> DEFINE key == call[p].key
           now == call[p].now
<1>1. ASSUME NEW m \in lazyEvict(entries, now), NEW rest, NEW room \in MakeRoom(rest, now),
             DOMAIN rest \subseteq DOMAIN m, rest = [k \in DOMAIN rest |-> m[k]],
             DOMAIN m \ DOMAIN rest \subseteq {key}, entries' = Put(room, key, now)
      PROVE  Inserts(room, key, now)
  <2>1. /\ now \in Nat
        /\ Swept(m, entries, now)
        /\ IsFiniteSet(DOMAIN m)
        /\ Cardinality(DOMAIN m) \in Nat
        /\ Cardinality(DOMAIN m) <= MaxEntries
    BY LockedStart
  <2>2. /\ IsFiniteSet(DOMAIN rest)
        /\ Cardinality(DOMAIN rest) <= Cardinality(DOMAIN m)
    BY <1>1, <2>1, FS_Subset
  <2>3. Cardinality(DOMAIN rest) \in Nat
    BY <2>2, FS_CardinalityType
  <2>4. /\ DOMAIN room \subseteq DOMAIN rest
        /\ room = [k \in DOMAIN room |-> rest[k]]
    <3>1. Cardinality(DOMAIN rest) <= MaxEntries
      BY <2>1, <2>2, <2>3, MaxEntriesAssumption
    <3>2. rest = [k \in DOMAIN rest |-> rest[k]]
      BY <1>1
    <3> QED BY <1>1, <2>1, <2>2, <3>1, <3>2, MakeRoomFits
  <2>5. /\ DOMAIN room \subseteq DOMAIN entries
        /\ room = [k \in DOMAIN room |-> entries[k]]
    <3>1. DOMAIN room \subseteq DOMAIN m
      BY <1>1, <2>4
    <3>2. \A k \in DOMAIN room : room[k] = rest[k] /\ rest[k] = m[k] /\ m[k] = entries[k]
      BY <1>1, <2>1, <2>4, <3>1 DEF Swept
    <3> QED BY <2>1, <2>4, <3>1, <3>2 DEF Swept
  <2>6. Evicted(room, key, now) \subseteq DOMAIN rest \ DOMAIN room
    BY <1>1, <2>1 DEF Swept, Evicted
  <2>7. \A j, k \in DOMAIN rest \ DOMAIN room : j = k
    BY <1>1, MakeRoomDropsOne
  <2>8. ASSUME NEW k \in Evicted(room, key, now)
        PROVE  /\ Cardinality(DOMAIN entries) = MaxEntries
               /\ \A j \in DOMAIN entries :
                     /\ ~(now >= entries[j].expiresAt)
                     /\ entries[k].lastAccessed <= entries[j].lastAccessed
    <3>1. k \in DOMAIN rest /\ k \notin DOMAIN room
      BY <2>6, <2>8
    <3>2. Cardinality(DOMAIN rest) >= MaxEntries
      BY <1>1, <3>1, MakeRoomDropsOne
    <3>3. /\ DOMAIN rest \subseteq DOMAIN entries
          /\ IsFiniteSet(DOMAIN entries)
          /\ Cardinality(DOMAIN entries) \in Nat
          /\ Cardinality(DOMAIN entries) <= MaxEntries
      BY <1>1, <2>1, FS_CardinalityType DEF Swept, IndInv, FiniteEntries, BoundedEntries
    <3>4. Cardinality(DOMAIN rest) <= Cardinality(DOMAIN entries)
      BY <3>3, FS_Subset
    <3>5. /\ Cardinality(DOMAIN entries) = MaxEntries
          /\ Cardinality(DOMAIN rest) = Cardinality(DOMAIN entries)
      BY <2>3, <3>2, <3>3, <3>4, MaxEntriesAssumption
    <3>6. DOMAIN rest = DOMAIN entries
      BY <3>3, <3>5, FS_Subset
    <3>7. \A j \in DOMAIN entries : rest[j] = entries[j]
      BY <1>1, <2>1, <3>6 DEF Swept
    <3>8. room \in evictLRU(rest, now)
      BY <1>1, <3>2 DEF MakeRoom
    <3>9. \A j \in DOMAIN rest : room = Without(rest, {j}) => j = k
      BY <3>1 DEF Without
    <3>10. k \notin Expired(rest, now)
      BY <2>8, <3>1, <3>7 DEF Evicted, Expired, isExpired
    <3>11. Expired(rest, now) = {} /\ k \in LeastRecent(rest)
      BY <3>8, <3>9, <3>10 DEF evictLRU, Expired, LeastRecent
    <3>12. \A j \in DOMAIN entries :
             /\ ~(now >= entries[j].expiresAt)
             /\ entries[k].lastAccessed <= entries[j].lastAccessed
      BY <3>1, <3>6, <3>7, <3>11 DEF Expired, isExpired, LeastRecent
    <3> QED BY <3>5, <3>12
  <2> QED BY <1>1, <2>5, <2>6, <2>7, <2>8 DEF Inserts
<1>2. CASE CheckAndInsertFresh(p)
  <2>1. PICK m \in lazyEvict(entries, now) :
          \E room \in MakeRoom(Without(m, {key}), now) : entries' = Put(room, key, now)
    BY <1>2 DEF CheckAndInsertFresh
  <2>2. PICK room \in MakeRoom(Without(m, {key}), now) : entries' = Put(room, key, now)
    BY <2>1
  <2> DEFINE rest == Without(m, {key})
  <2>3. /\ DOMAIN rest = DOMAIN m \ {key}
        /\ rest = [k \in DOMAIN rest |-> m[k]]
    BY DEF Without
  <2>4. room \in MakeRoom(rest, now)
    BY <2>2
  <2> HIDE DEF rest
  <2>5. /\ DOMAIN rest \subseteq DOMAIN m
        /\ DOMAIN m \ DOMAIN rest \subseteq {key}
    BY <2>3
  <2>6. Inserts(room, key, now)
    BY <1>1, <2>2, <2>3, <2>4, <2>5
  <2> QED BY <2>6
<1>3. CASE Insert(p)
  <2>1. PICK m \in lazyEvict(entries, now) :
          \E room \in IF key \in DOMAIN m THEN {m} ELSE MakeRoom(m, now) :
             entries' = Put(room, key, now)
    BY <1>3 DEF Insert
  <2>2. PICK room \in IF key \in DOMAIN m THEN {m} ELSE MakeRoom(m, now) :
             entries' = Put(room, key, now)
    BY <2>1
  <2>3. Swept(m, entries, now)
    BY LockedStart
  <2>4. CASE key \in DOMAIN m
    <3>1. room = m
      BY <2>2, <2>4
    <3>2. Inserts(m, key, now)
      BY <2>2, <2>3, <3>1 DEF Swept, Inserts, Evicted
    <3> QED BY <3>2
  <2>5. CASE key \notin DOMAIN m
    <3>1. room \in MakeRoom(m, now)
      BY <2>2, <2>5
    <3>2. m = [k \in DOMAIN m |-> m[k]]
      BY <2>3 DEF Swept
    <3>3. DOMAIN m \subseteq DOMAIN m /\ DOMAIN m \ DOMAIN m \subseteq {key}
      OBVIOUS
    <3>4. Inserts(room, key, now)
      BY <1>1, <2>2, <3>1, <3>2, <3>3
    <3> QED BY <3>4
  <2> QED BY <2>4, <2>5
<1> QED BY <1>2, <1>3

\* What a step leaves of an entry that has not expired: its end, unless it is
\* dropped for room or cleared, or Insert writes the key again.
Outlives(k) ==
    \/ k \in DOMAIN entries' /\ entries'[k].expiresAt = entries[k].expiresAt
    \/ k \in forgotten' \ DOMAIN entries'
    \/ \E p \in Procs : Insert(p) /\ call[p].key = k

LEMMA LockedKeepsExpiry ==
    ASSUME IndInv, NEW p \in Procs, Locked(p),
           NEW k \in DOMAIN entries, clock < entries[k].expiresAt
    PROVE  Outlives(k)
<1> DEFINE key == call[p].key
           now == call[p].now
<1>1. /\ now \in Nat /\ clock \in Nat /\ now <= clock
      /\ entries[k].expiresAt \in Nat
  BY DEF IndInv, TypeOK, NowNotAhead, Calls, Entry
<1>2. ~(now >= entries[k].expiresAt)
  BY <1>1
<1>3. CASE CheckHit(p) \/ CheckMiss(p) \/ CheckAndInsertReuse(p) \/ EvictExpired(p)
  BY <1>2, <1>3, LookupsSweep DEF Outlives
<1>4. ASSUME NEW m \in lazyEvict(entries, now)
      PROVE  k \in DOMAIN m /\ m[k] = entries[k]
  <2>1. Swept(m, entries, now)
    BY LockedStart
  <2> QED BY <1>2, <2>1 DEF Swept
<1>5. ASSUME NEW rest, NEW room, k # key, k \in DOMAIN rest, rest[k] = entries[k],
             DOMAIN room \subseteq DOMAIN rest, room = [j \in DOMAIN room |-> rest[j]],
             entries' = Put(room, key, now), Stamp(key, now, DOMAIN rest \ DOMAIN room)
      PROVE  Outlives(k)
  <2>1. /\ DOMAIN entries' = DOMAIN room \cup {key}
        /\ k \in DOMAIN room => entries'[k] = room[k]
    BY <1>5 DEF Put
  <2>2. k \notin DOMAIN room => k \in forgotten'
    BY <1>5 DEF Stamp
  <2> QED BY <1>5, <2>1, <2>2 DEF Outlives
<1>6. CASE CheckAndInsertFresh(p)
  <2>1. PICK m \in lazyEvict(entries, now) :
          /\ ~Live(m, key, now)
          /\ \E room \in MakeRoom(Without(m, {key}), now) :
                /\ entries' = Put(room, key, now)
                /\ Stamp(key, now, DOMAIN Without(m, {key}) \ DOMAIN room)
    BY <1>6 DEF CheckAndInsertFresh
  <2> DEFINE rest == Without(m, {key})
  <2>2. PICK room \in MakeRoom(rest, now) :
          entries' = Put(room, key, now) /\ Stamp(key, now, DOMAIN rest \ DOMAIN room)
    BY <2>1
  <2>3. k \in DOMAIN m /\ m[k] = entries[k] /\ k # key
    BY <1>2, <1>4, <2>1 DEF Live, isExpired
  <2>4. k \in DOMAIN rest /\ rest[k] = entries[k]
    BY <2>3 DEF Without
  <2>5. /\ DOMAIN rest \subseteq DOMAIN entries
        /\ rest = [j \in DOMAIN rest |-> entries[j]]
        /\ \A j \in DOMAIN entries \ DOMAIN rest :
              j = key \/ now >= entries[j].expiresAt
        /\ DOMAIN room \subseteq DOMAIN rest
        /\ room = [j \in DOMAIN room |-> rest[j]]
        /\ IsFiniteSet(DOMAIN room)
        /\ Cardinality(DOMAIN room) + 1 <= MaxEntries
    BY <2>2, RestAndRoom
  <2>6. Stamp(key, now, DOMAIN rest \ DOMAIN room)
    BY <2>2
  <2> HIDE DEF rest
  <2> QED BY <1>5, <2>2, <2>3, <2>4, <2>5, <2>6
<1>7. CASE Insert(p) /\ k # key
  <2>1. PICK m \in lazyEvict(entries, now) :
          \E room \in IF key \in DOMAIN m THEN {m} ELSE MakeRoom(m, now) :
             entries' = Put(room, key, now) /\ Stamp(key, now, DOMAIN m \ DOMAIN room)
    BY <1>7 DEF Insert
  <2>2. PICK room \in IF key \in DOMAIN m THEN {m} ELSE MakeRoom(m, now) :
             entries' = Put(room, key, now) /\ Stamp(key, now, DOMAIN m \ DOMAIN room)
    BY <2>1
  <2>3. k \in DOMAIN m /\ m[k] = entries[k]
    BY <1>4
  <2>4. /\ m = [j \in DOMAIN m |-> m[j]]
        /\ IsFiniteSet(DOMAIN m)
        /\ Cardinality(DOMAIN m) <= MaxEntries
    BY LockedStart
  <2>5. DOMAIN room \subseteq DOMAIN m /\ room = [j \in DOMAIN room |-> m[j]]
    <3>1. CASE key \in DOMAIN m
      BY <2>2, <2>4, <3>1
    <3>2. CASE key \notin DOMAIN m
      BY <1>1, <2>2, <2>4, <3>2, MakeRoomFits
    <3> QED BY <3>1, <3>2
  <2> QED BY <1>5, <1>7, <2>2, <2>3, <2>5
<1>8. CASE Insert(p) /\ k = key
  BY <1>8 DEF Outlives
<1> QED BY <1>3, <1>6, <1>7, <1>8 DEF Locked

-----------------------------------------------------------------------------
(* Theorems *)

\* The inductive invariant holds in every reachable state of the cache.
THEOREM CacheInvariant == Spec => []IndInv
BY InitEstablishes, StepPreserves, PTL DEF Spec

\* Every reachable state of the cache is well typed.
THEOREM TypeCorrect == Spec => []TypeOK
<1>1. IndInv => TypeOK BY DEF IndInv
<1> QED BY <1>1, CacheInvariant, PTL

\* No interleaving of calls makes the map outgrow maxEntries.
THEOREM CacheIsBounded == Spec => []BoundedEntries
<1>1. IndInv => BoundedEntries BY DEF IndInv
<1> QED BY <1>1, CacheInvariant, PTL

\* The end of a live entry is moved by nothing but an Insert of its key.
THEOREM ExpiryKeptHolds == Spec => ExpiryKept
<1>1. ASSUME IndInv, [Next]_vars, UNCHANGED vars => FALSE
      PROVE  \A k \in DOMAIN entries : clock < entries[k].expiresAt => Outlives(k)
  <2> SUFFICES ASSUME NEW k \in DOMAIN entries, clock < entries[k].expiresAt
               PROVE  Outlives(k)
    OBVIOUS
  <2>1. CASE entries' = entries
    BY <2>1 DEF Outlives
  <2>2. ASSUME NEW p \in Procs, Clear(p)
        PROVE  Outlives(k)
    <3>1. k \in forgotten' /\ DOMAIN entries' = {}
      BY <2>2 DEF Clear
    <3> QED BY <3>1 DEF Outlives
  <2>3. ASSUME NEW p \in Procs, Locked(p)
        PROVE  Outlives(k)
    BY <1>1, <2>3, LockedKeepsExpiry
  <2> QED
    BY <1>1, <2>1, <2>2, <2>3
       DEF Next, Tick, CallWithNonce, CallEvictExpired, Call, BadNonce, vars
<1>2. IndInv /\ [Next]_vars =>
        [\A k \in DOMAIN entries : clock < entries[k].expiresAt =>
          \/ k \in DOMAIN entries' /\ entries'[k].expiresAt = entries[k].expiresAt
          \/ k \in forgotten' \ DOMAIN entries'
          \/ \E p \in Procs : Insert(p) /\ call[p].key = k]_vars
  BY <1>1 DEF Outlives
<1> QED BY <1>2, CacheInvariant, PTL DEF Spec, ExpiryKept

\* CheckAndInsert never answers nil for a protected key.
THEOREM NoEarlyReadmissionHolds == Spec => NoEarlyReadmission
<1>1. IndInv /\ [Next]_vars
        => [\A p \in Procs : CheckAndInsertFresh(p) => ~Protected(call[p].key)]_vars
  BY FreshMeansUnprotected
<1> QED BY <1>1, CacheInvariant, PTL DEF Spec, NoEarlyReadmission

\* CheckAndInsert never answers ErrNonceReuse for a key that nobody wrote
\* within the retention before the time it read.
THEOREM NoFalseReuseHolds == Spec => NoFalseReuse
<1>1. ASSUME IndInv, NEW p \in Procs, CheckAndInsertReuse(p)
      PROVE  /\ stamped[call[p].key] # Never
             /\ call[p].key \notin forgotten
             /\ call[p].now < stamped[call[p].key] + Retention
  <2> DEFINE key == call[p].key
             now == call[p].now
  <2>1. PICK m \in lazyEvict(entries, now) : Live(m, key, now)
    BY <1>1 DEF CheckAndInsertReuse
  <2>2. now \in Nat /\ Swept(m, entries, now)
    BY <1>1, LockedStart
  <2>3. /\ key \in DOMAIN entries
        /\ ~(now >= entries[key].expiresAt)
    BY <2>1, <2>2 DEF Live, isExpired, Swept
  <2>4. entries[key].expiresAt \in Nat
    BY <2>3, <1>1 DEF IndInv, TypeOK, Entry
  <2> QED BY <1>1, <2>2, <2>3, <2>4 DEF IndInv, EntriesStamped
<1>2. IndInv /\ [Next]_vars
        => [\A p \in Procs : CheckAndInsertReuse(p) =>
              LET key == call[p].key
              IN  /\ stamped[key] # Never
                  /\ key \notin forgotten
                  /\ call[p].now < stamped[key] + Retention]_vars
  BY <1>1
<1> QED BY <1>2, CacheInvariant, PTL DEF Spec, NoFalseReuse

\* A live entry is lost only from a full cache without expired entries, one at
\* a time, and the least recently used one.
THEOREM LossOnlyWhenFullHolds == Spec => LossOnlyWhenFull
<1> DEFINE Lost == {k \in DOMAIN entries \ DOMAIN entries' : clock < entries[k].expiresAt}
<1>1. ASSUME IndInv, NEW p \in Procs, Locked(p), NEW k \in Lost
      PROVE  /\ Cardinality(DOMAIN entries) = MaxEntries
             /\ Lost = {k}
             /\ \A j \in DOMAIN entries :
                   /\ call[p].now < entries[j].expiresAt
                   /\ entries[k].lastAccessed <= entries[j].lastAccessed
  <2> DEFINE key == call[p].key
             now == call[p].now
  <2>1. /\ now \in Nat /\ clock \in Nat /\ now <= clock
        /\ \A j \in DOMAIN entries : entries[j].expiresAt \in Nat
    BY <1>1 DEF IndInv, TypeOK, NowNotAhead, Calls, Entry
  <2>2. CheckAndInsertFresh(p) \/ Insert(p)
    <3>1. ~(now >= entries[k].expiresAt)
      BY <1>1, <2>1
    <3>2. ~(CheckHit(p) \/ CheckMiss(p) \/ CheckAndInsertReuse(p) \/ EvictExpired(p))
      BY <1>1, <3>1, LookupsSweep
    <3> QED BY <1>1, <3>2 DEF Locked
  <2>3. PICK room : Inserts(room, key, now)
    BY <1>1, <2>2, InsertionRoom
  <2>4. Lost \subseteq Evicted(room, key, now)
    <3>1. DOMAIN entries' = DOMAIN room \cup {key}
      BY <2>3 DEF Inserts, Put
    <3> QED BY <2>1, <3>1 DEF Evicted
  <2> QED BY <1>1, <2>1, <2>3, <2>4 DEF Inserts
<1>2. IndInv /\ [Next]_vars =>
        [\A p \in Procs : Locked(p) =>
          LET dropped == {k \in DOMAIN entries \ DOMAIN entries' :
                             clock < entries[k].expiresAt}
          IN  \A k \in dropped :
                /\ Cardinality(DOMAIN entries) = MaxEntries
                /\ dropped = {k}
                /\ \A j \in DOMAIN entries :
                      /\ call[p].now < entries[j].expiresAt
                      /\ entries[k].lastAccessed <= entries[j].lastAccessed]_vars
  BY <1>1
<1> QED BY <1>2, CacheInvariant, PTL DEF Spec, LossOnlyWhenFull

-----------------------------------------------------------------------------
(* The inductive invariant: that of the cache, and of the handlers ... *)

HandlerTypes ==
    /\ atomic \in BOOLEAN
    /\ phase \in [Handlers -> Phases]
    /\ hello \in [Handlers -> Hellos \cup {NoHello}]
    /\ \A p \in Handlers : phase[p] # "new" => hello[p] \in Hellos
    /\ \A p \in Handlers :
          phase[p] \notin {"new", "badNonce"} => hello[p].nonce \in GoodNonces
    /\ began \in [Handlers -> Nat]
    /\ ended \in [Handlers -> Nat]
    /\ lost \subseteq Keys

\* A handler waits for the call that its phase says, about its own hello.
PhaseCalls ==
    \A p \in Handlers :
        /\ phase[p] = "checking" => call[p].op = "Check" /\ call[p].key = KeyOf(p)
        /\ phase[p] = "inserting" =>
              /\ call[p].op = IF atomic THEN "CheckAndInsert" ELSE "Insert"
              /\ call[p].key = KeyOf(p)
              /\ call[p].now = began[p]

\* What the cache has given up is recorded.
LossRecorded == forgotten \subseteq lost

\* Only admissions write to the cache.
StampsAreAdmissions ==
    \A k \in Keys : stamped[k] # Never =>
        \E q \in Handlers : Admitted(q) /\ KeyOf(q) = k

\* The key of an admitted hello was not written with an older time since,
\* unless its retention was over.
AdmissionKept ==
    atomic => \A p \in Handlers :
        (Admitted(p) /\ KeyOf(p) \notin lost) =>
            /\ stamped[KeyOf(p)] # Never
            /\ stamped[KeyOf(p)] >= began[p] \/ clock >= began[p] + Retention

HInv ==
    /\ IndInv
    /\ HandlerTypes
    /\ PhaseCalls
    /\ LossRecorded
    /\ StampsAreAdmissions
    /\ AdmissionKept
    /\ AtomicAdmitsOnce
    /\ ReuseMeansAdmitted

-----------------------------------------------------------------------------
(* Steps of the handlers are steps of the cache. *)

\* The key of a well-formed hello is a key of the cache.
LEMMA KeyOfHello ==
    ASSUME HandlerTypes, NEW p \in Handlers, phase[p] \notin {"new", "badNonce"}
    PROVE  KeyOf(p) \in Keys
<1>1. hello[p] \in Hellos /\ hello[p].nonce \in GoodNonces
  BY DEF HandlerTypes
<1>2. hello[p].agentID \in AgentIDs
  BY <1>1 DEF Hellos
<1> QED BY <1>1, <1>2 DEF KeyOf, Keys

\* Whatever a handler or a sweeper does to the cache is one of the cache's
\* own steps (handshake_integration.go calls no other method).
LEMMA HandlersCallTheCache == HandlerTypes /\ [HNext]_allVars => [Next]_vars
<1> SUFFICES ASSUME HandlerTypes, HNext PROVE [Next]_vars
  BY DEF allVars, vars
<1> USE HandlersAssumption
<1>1. CASE Tick
  BY <1>1 DEF Next
<1>2. ASSUME NEW p \in Procs, Sweep(p) PROVE [Next]_vars
  BY <1>2 DEF Sweep, Next, Locked
<1>3. ASSUME NEW p \in Handlers, NEW h \in Hellos, CheckHello(p, h) PROVE [Next]_vars
  <2>1. p \in Procs /\ h.agentID \in AgentIDs
    BY DEF Hellos
  <2>2. CASE CallWithNonce(p, "Check", h.agentID, h.nonce)
    <3>1. "Check" \in Ops /\ h.nonce \in GoodNonces
      BY <2>2 DEF CallWithNonce, Call
    <3> QED BY <2>1, <2>2, <3>1 DEF Next
  <2> QED BY <1>3, <2>2 DEF CheckHello
<1>4. ASSUME NEW p \in Handlers, CheckAnswer(p) PROVE [Next]_vars
  BY <1>4 DEF CheckAnswer, Next, Locked
<1>5. ASSUME NEW p \in Handlers, RejectSignature(p) PROVE [Next]_vars
  BY <1>5 DEF RejectSignature
<1>6. ASSUME NEW p \in Handlers, NEW op, CallInsertion(p, op) PROVE [Next]_vars
  <2>1. p \in Procs /\ hello[p].agentID \in AgentIDs
    BY <1>6 DEF CallInsertion, HandlerTypes, Hellos
  <2>2. CallWithNonce(p, op, hello[p].agentID, hello[p].nonce)
    BY <1>6 DEF CallInsertion
  <2>3. op \in Ops /\ hello[p].nonce \in GoodNonces
    BY <2>2 DEF CallWithNonce, Call
  <2> QED BY <2>1, <2>2, <2>3 DEF Next
<1>7. ASSUME NEW p \in Handlers, InsertionAnswer(p) PROVE [Next]_vars
  BY <1>7 DEF InsertionAnswer, Next, Locked
<1> QED
  BY <1>1, <1>2, <1>3, <1>4, <1>5, <1>6, <1>7
     DEF HNext, CheckClientHello, CheckServerHello, InsertClientHello, InsertServerHello,
         CheckAndInsertClientHello, CheckAndInsertServerHello

-----------------------------------------------------------------------------
(* Preservation *)

\* What the invariant says about admissions and refusals.
Outcomes == LossRecorded /\ StampsAreAdmissions /\ AdmissionKept /\ AtomicAdmitsOnce
            /\ ReuseMeansAdmitted

\* A handler that has not answered yet moves on without being admitted, and is
\* refused only for a key somebody has written.
LEMMA QuietStep ==
    ASSUME HInv, NEW p \in Handlers,
           phase[p] \notin {"admitted", "reuse"}, phase'[p] # "admitted",
           \A q \in Handlers \ {p} :
               phase'[q] = phase[q] /\ hello'[q] = hello[q]
               /\ began'[q] = began[q] /\ ended'[q] = ended[q],
           UNCHANGED <<atomic, lost, clock, stamped, forgotten>>,
           phase'[p] = "reuse" =>
               /\ hello'[p] = hello[p]
               /\ KeyOf(p) \in Keys
               /\ stamped[KeyOf(p)] # Never
    PROVE  Outcomes'
<1>1. \A q \in Handlers \ {p} : KeyOf(q)' = KeyOf(q) /\ (Admitted(q)' <=> Admitted(q))
  BY DEF KeyOf, Admitted
<1>2. ~Admitted(p) /\ ~Admitted(p)'
  BY DEF Admitted
<1>3. LossRecorded'
  BY DEF HInv, LossRecorded
<1>4. StampsAreAdmissions'
  BY <1>1, <1>2 DEF HInv, StampsAreAdmissions
<1>5. AdmissionKept'
  BY <1>1, <1>2 DEF HInv, AdmissionKept
<1>6. AtomicAdmitsOnce'
  BY <1>1, <1>2 DEF HInv, AtomicAdmitsOnce, OneAdmissionPerNonce
<1>7. ReuseMeansAdmitted'
  <2> SUFFICES ASSUME NEW r \in Handlers, phase'[r] = "reuse"
               PROVE  \E q \in Handlers : q # r /\ Admitted(q)' /\ KeyOf(q)' = KeyOf(r)'
    BY DEF ReuseMeansAdmitted
  <2>1. CASE r = p
    <3>1. KeyOf(p)' = KeyOf(p)
      BY <2>1 DEF KeyOf
    <3>2. PICK q \in Handlers : Admitted(q) /\ KeyOf(q) = KeyOf(p)
      BY <2>1 DEF HInv, StampsAreAdmissions
    <3> QED BY <1>1, <1>2, <2>1, <3>1, <3>2
  <2>2. CASE r # p
    <3>1. PICK q \in Handlers : q # r /\ Admitted(q) /\ KeyOf(q) = KeyOf(r)
      BY <2>2 DEF HInv, ReuseMeansAdmitted
    <3> QED BY <1>1, <1>2, <2>2, <3>1
  <2> QED BY <2>1, <2>2
<1> QED BY <1>3, <1>4, <1>5, <1>6, <1>7 DEF Outcomes

\* An admission writes the key of the hello with the time the handler read.
\* Where handlers check and insert in one locked section, the key was not
\* protected.
LEMMA AdmissionStep ==
    ASSUME HInv, NEW p \in Handlers,
           phase[p] = "inserting", phase' = [phase EXCEPT ![p] = "admitted"],
           stamped' = [stamped EXCEPT ![KeyOf(p)] = began[p]],
           ended' = [ended EXCEPT ![p] = clock],
           lost' = lost \cup (forgotten' \ forgotten),
           UNCHANGED <<atomic, clock, hello, began>>,
           atomic => ~Protected(KeyOf(p))
    PROVE  Outcomes'
<1> DEFINE key == KeyOf(p)
<1>0. /\ key \in Keys
      /\ clock \in Nat
      /\ stamped \in [Keys -> Nat \cup {Never}]
      /\ \A q \in Handlers : began[q] \in Nat /\ ended[q] \in Nat
      /\ Retention \in Nat
  BY KeyOfHello, RetentionAssumption DEF HInv, IndInv, TypeOK, HandlerTypes
<1>1. \A q \in Handlers : /\ KeyOf(q)' = KeyOf(q)
                          /\ Admitted(q)' <=> (q = p \/ Admitted(q))
                          /\ ended'[q] = IF q = p THEN clock ELSE ended[q]
  BY DEF KeyOf, Admitted, HInv, HandlerTypes
<1>2. ~Admitted(p)
  BY DEF Admitted
<1>3. \A k \in Keys : stamped'[k] = IF k = key THEN began[p] ELSE stamped[k]
  BY <1>0
<1>4. lost \subseteq lost' /\ forgotten' \subseteq lost'
  BY DEF HInv, LossRecorded
<1>5. StampsAreAdmissions'
  BY <1>1, <1>3 DEF HInv, StampsAreAdmissions
<1>6. ASSUME atomic, NEW q \in Handlers, Admitted(q), KeyOf(q) = key, key \notin lost'
      PROVE  clock >= began[q] + Retention
  <2>1. key \notin lost /\ key \notin forgotten
    BY <1>4, <1>6 DEF HInv, LossRecorded
  <2>2. /\ stamped[key] # Never
        /\ stamped[key] >= began[q] \/ clock >= began[q] + Retention
    BY <1>6, <2>1 DEF HInv, AdmissionKept
  <2>3. ~(clock < stamped[key] + Retention)
    BY <1>6, <2>1, <2>2 DEF Protected
  <2>4. stamped[key] \in Nat
    BY <1>0, <2>2
  <2> QED BY <1>0, <2>2, <2>3, <2>4
<1>7. AdmissionKept'
  <2> SUFFICES ASSUME atomic, NEW q \in Handlers, Admitted(q)', KeyOf(q) \notin lost'
               PROVE  /\ stamped'[KeyOf(q)] # Never
                      /\ stamped'[KeyOf(q)] >= began[q] \/ clock >= began[q] + Retention
    BY <1>1 DEF AdmissionKept
  <2>1. CASE q = p
    BY <1>0, <1>3, <2>1 DEF Never
  <2>2. CASE q # p /\ KeyOf(q) = key
    BY <1>0, <1>1, <1>3, <1>6, <2>2 DEF Never
  <2>3. CASE q # p /\ KeyOf(q) # key
    <3>1. Admitted(q) /\ KeyOf(q) \notin lost
      BY <1>1, <1>4, <2>3
    <3>2. KeyOf(q) \in Keys
      BY <3>1, KeyOfHello DEF Admitted, HInv
    <3> QED BY <1>3, <2>3, <3>1, <3>2 DEF HInv, AdmissionKept
  <2> QED BY <2>1, <2>2, <2>3
<1>8. AtomicAdmitsOnce'
  <2> SUFFICES ASSUME atomic, NEW q \in Handlers, NEW r \in Handlers, q # r,
                      Admitted(q)', Admitted(r)', KeyOf(q) = KeyOf(r), KeyOf(q) \notin lost'
               PROVE  \/ ended'[q] >= began[r] + Retention
                      \/ ended'[r] >= began[q] + Retention
    BY <1>1 DEF AtomicAdmitsOnce, OneAdmissionPerNonce
  <2>1. CASE q = p
    BY <1>1, <1>6, <2>1
  <2>2. CASE r = p
    BY <1>1, <1>6, <2>2
  <2>3. CASE q # p /\ r # p
    BY <1>1, <1>4, <2>3 DEF HInv, AtomicAdmitsOnce, OneAdmissionPerNonce
  <2> QED BY <2>1, <2>2, <2>3
<1>9. ReuseMeansAdmitted'
  <2> SUFFICES ASSUME NEW r \in Handlers, phase'[r] = "reuse"
               PROVE  \E q \in Handlers : q # r /\ Admitted(q)' /\ KeyOf(q)' = KeyOf(r)'
    BY DEF ReuseMeansAdmitted
  <2>1. phase[r] = "reuse"
    BY DEF HInv, HandlerTypes
  <2> QED BY <1>1, <2>1 DEF HInv, ReuseMeansAdmitted
<1> QED BY <1>4, <1>5, <1>7, <1>8, <1>9 DEF Outcomes, LossRecorded

\* A key is found live only if some call wrote it.
LEMMA LiveMeansStamped ==
    ASSUME IndInv, NEW p \in Procs, NEW m \in lazyEvict(entries, call[p].now),
           Live(m, call[p].key, call[p].now)
    PROVE  stamped[call[p].key] # Never
<1>1. Swept(m, entries, call[p].now)
  BY LockedStart
<1>2. call[p].key \in DOMAIN entries
  BY <1>1 DEF Live, Swept
<1> QED BY <1>2 DEF IndInv, EntriesStamped

\* The part of the invariant about one handler at a time is kept by a step of
\* that handler alone.
LEMMA OwnStep ==
    ASSUME HandlerTypes, PhaseCalls, NEW p \in Handlers, NEW to \in Phases,
           phase' = [phase EXCEPT ![p] = to], atomic' = atomic,
           hello' \in [Handlers -> Hellos \cup {NoHello}],
           began' \in [Handlers -> Nat], ended' \in [Handlers -> Nat], lost' \subseteq Keys,
           \A q \in Handlers \ {p} :
               call'[q] = call[q] /\ hello'[q] = hello[q] /\ began'[q] = began[q],
           to # "new", hello'[p] \in Hellos,
           to # "badNonce" => hello'[p].nonce \in GoodNonces,
           to = "checking" => call'[p].op = "Check" /\ call'[p].key = KeyOf(p)',
           to = "inserting" =>
               /\ call'[p].op = IF atomic THEN "CheckAndInsert" ELSE "Insert"
               /\ call'[p].key = KeyOf(p)'
               /\ call'[p].now = began'[p]
    PROVE  HandlerTypes' /\ PhaseCalls'
<1>1. \A q \in Handlers : phase'[q] = IF q = p THEN to ELSE phase[q]
  BY DEF HandlerTypes
<1>2. \A q \in Handlers \ {p} : KeyOf(q)' = KeyOf(q)
  BY DEF KeyOf
<1>3. phase' \in [Handlers -> Phases]
  BY DEF HandlerTypes
<1>4. /\ \A q \in Handlers : phase'[q] # "new" => hello'[q] \in Hellos
      /\ \A q \in Handlers :
            phase'[q] \notin {"new", "badNonce"} => hello'[q].nonce \in GoodNonces
  BY <1>1 DEF HandlerTypes
<1>5. HandlerTypes'
  BY <1>3, <1>4 DEF HandlerTypes
<1>6. PhaseCalls'
  <2> SUFFICES ASSUME NEW q \in Handlers
               PROVE  /\ phase'[q] = "checking" =>
                            call'[q].op = "Check" /\ call'[q].key = KeyOf(q)'
                      /\ phase'[q] = "inserting" =>
                            /\ call'[q].op = IF atomic THEN "CheckAndInsert" ELSE "Insert"
                            /\ call'[q].key = KeyOf(q)'
                            /\ call'[q].now = began'[q]
    BY DEF PhaseCalls
  <2>1. CASE q = p
    BY <1>1, <2>1
  <2>2. CASE q # p
    BY <1>1, <1>2, <2>2 DEF PhaseCalls
  <2> QED BY <2>1, <2>2
<1> QED BY <1>5, <1>6

\* Every step preserves the invariant of handlers and cache.
LEMMA HStepPreserves == HInv /\ [HNext]_allVars => HInv'
<1> SUFFICES ASSUME HInv, [HNext]_allVars PROVE HInv'
  OBVIOUS
<1> USE HandlersAssumption
<1>0. IndInv'
  BY HandlersCallTheCache, StepPreserves DEF HInv
<1>1. SUFFICES HandlerTypes' /\ PhaseCalls' /\ Outcomes'
  BY <1>0 DEF HInv, Outcomes
<1>2. ASSUME UNCHANGED handlerVars, UNCHANGED <<stamped, forgotten>>,
             clock' \in Nat, clock' >= clock,
             \A q \in Handlers : call'[q] = call[q]
      PROVE  HandlerTypes' /\ PhaseCalls' /\ Outcomes'
  <2>1. UNCHANGED <<atomic, phase, hello, began, ended, lost>>
    BY <1>2 DEF handlerVars
  <2>2. \A q \in Handlers : KeyOf(q)' = KeyOf(q) /\ (Admitted(q)' <=> Admitted(q))
    BY <2>1 DEF KeyOf, Admitted
  <2>3. HandlerTypes'
    BY <2>1 DEF HInv, HandlerTypes
  <2>4. PhaseCalls'
    BY <1>2, <2>1, <2>2 DEF HInv, PhaseCalls
  <2>5. AdmissionKept'
    <3>1. clock \in Nat /\ Retention \in Nat /\ \A q \in Handlers : began[q] \in Nat
      BY RetentionAssumption DEF HInv, IndInv, TypeOK, HandlerTypes
    <3> QED BY <1>2, <2>1, <2>2, <3>1 DEF HInv, AdmissionKept
  <2>6. LossRecorded' /\ StampsAreAdmissions'
    BY <1>2, <2>1, <2>2 DEF HInv, LossRecorded, StampsAreAdmissions
  <2>7. AtomicAdmitsOnce' /\ ReuseMeansAdmitted'
    BY <2>1, <2>2 DEF HInv, AtomicAdmitsOnce, OneAdmissionPerNonce, ReuseMeansAdmitted
  <2> QED BY <2>3, <2>4, <2>5, <2>6, <2>7 DEF Outcomes
<1>3. CASE UNCHANGED allVars
  <2>1. clock \in Nat
    BY DEF HInv, IndInv, TypeOK
  <2> QED BY <1>2, <1>3, <2>1 DEF allVars, vars
<1>4. CASE Tick /\ UNCHANGED handlerVars
  <2>1. clock \in Nat /\ clock' = clock + 1
    BY <1>4 DEF Tick, HInv, IndInv, TypeOK
  <2> QED BY <1>2, <1>4, <2>1 DEF Tick
<1>5. ASSUME NEW p \in Procs \ Handlers, Sweep(p) PROVE HandlerTypes' /\ PhaseCalls' /\ Outcomes'
  <2>1. clock \in Nat /\ call \in [Procs -> Calls]
    BY DEF HInv, IndInv, TypeOK
  <2>2. \A q \in Handlers : call'[q] = call[q]
    BY <1>5, <2>1 DEF Sweep, CallEvictExpired, Call, EvictExpired, Return
  <2>3. UNCHANGED handlerVars /\ UNCHANGED <<stamped, forgotten, clock>>
    BY <1>5 DEF Sweep, CallEvictExpired, Call, EvictExpired
  <2> QED BY <1>2, <2>1, <2>2, <2>3
<1>6. ASSUME NEW p \in Handlers, NEW h \in Hellos, CheckHello(p, h)
      PROVE  HandlerTypes' /\ PhaseCalls' /\ Outcomes'
  <2>0. call \in [Procs -> Calls] /\ hello \in [Handlers -> Hellos \cup {NoHello}]
        /\ phase \in [Handlers -> Phases]
        /\ began \in [Handlers -> Nat] /\ ended \in [Handlers -> Nat] /\ lost \subseteq Keys
    BY DEF HInv, IndInv, TypeOK, HandlerTypes
  <2>1. /\ phase[p] = "new" /\ hello' = [hello EXCEPT ![p] = h]
        /\ UNCHANGED <<began, ended, lost>>
    BY <1>6 DEF CheckHello
  <2>2. hello'[p] = h /\ \A q \in Handlers \ {p} : hello'[q] = hello[q]
    BY <2>0, <2>1
  <2>3. PICK to \in {"badNonce", "checking"} :
          /\ phase' = [phase EXCEPT ![p] = to]
          /\ atomic' = atomic
          /\ UNCHANGED <<entries, clock, stamped, forgotten>>
          /\ \A q \in Handlers \ {p} : call'[q] = call[q]
          /\ to = "checking" =>
                /\ h.nonce \in GoodNonces
                /\ call'[p].op = "Check"
                /\ call'[p].key = makeKey(h.agentID, h.nonce)
    <3>1. CASE UNCHANGED vars /\ Goto(p, "badNonce")
      BY <3>1 DEF vars, Goto
    <3>2. CASE CallWithNonce(p, "Check", h.agentID, h.nonce) /\ Goto(p, "checking")
      <4>1. call' = [call EXCEPT ![p] = [op |-> "Check", key |-> makeKey(h.agentID, h.nonce),
                                         now |-> clock]]
        BY <3>2 DEF CallWithNonce, Call
      <4>2. call'[p].op = "Check" /\ call'[p].key = makeKey(h.agentID, h.nonce)
            /\ \A q \in Handlers \ {p} : call'[q] = call[q]
        BY <2>0, <4>1
      <4>3. UNCHANGED <<entries, clock, stamped, forgotten>> /\ h.nonce \in GoodNonces
        BY <3>2 DEF CallWithNonce, Call
      <4> QED BY <3>2, <4>2, <4>3 DEF Goto
    <3> QED BY <1>6, <3>1, <3>2 DEF CheckHello
  <2>4. to \in Phases
    BY DEF Phases
  <2>5. hello' \in [Handlers -> Hellos \cup {NoHello}]
    BY <2>0, <2>1
  <2>6. to = "checking" => call'[p].key = KeyOf(p)'
    BY <2>2, <2>3 DEF KeyOf
  <2>7. HandlerTypes' /\ PhaseCalls'
    BY <2>0, <2>1, <2>2, <2>3, <2>4, <2>5, <2>6, OwnStep DEF HInv
  <2>8. phase'[p] = to /\ \A q \in Handlers \ {p} : phase'[q] = phase[q]
    BY <2>0, <2>3
  <2>9. Outcomes'
    BY <2>1, <2>2, <2>3, <2>8, QuietStep
  <2> QED BY <2>7, <2>9
<1>7. ASSUME NEW p \in Handlers, NEW to \in {"verifying", "reuse", "badSignature"},
             phase[p] \in {"checking", "verifying", "inserting"},
             phase' = [phase EXCEPT ![p] = to], ended' \in [Handlers -> Nat],
             \A q \in Handlers \ {p} : call'[q] = call[q] /\ ended'[q] = ended[q],
             UNCHANGED <<atomic, hello, began, lost, clock, stamped, forgotten>>,
             to = "reuse" => stamped[KeyOf(p)] # Never
      PROVE  HandlerTypes' /\ PhaseCalls' /\ Outcomes'
  <2>0. /\ phase \in [Handlers -> Phases]
        /\ hello \in [Handlers -> Hellos \cup {NoHello}]
        /\ began \in [Handlers -> Nat] /\ lost \subseteq Keys
        /\ hello[p] \in Hellos /\ hello[p].nonce \in GoodNonces
    BY <1>7 DEF HInv, HandlerTypes
  <2>1. KeyOf(p) \in Keys
    BY <1>7, KeyOfHello DEF HInv
  <2>2. phase'[p] = to /\ \A q \in Handlers \ {p} : phase'[q] = phase[q]
    BY <1>7, <2>0
  <2>3. to \in Phases
    BY DEF Phases
  <2>4. HandlerTypes' /\ PhaseCalls'
    BY <1>7, <2>0, <2>3, OwnStep DEF HInv
  <2>5. Outcomes'
    BY <1>7, <2>1, <2>2, QuietStep
  <2> QED BY <2>4, <2>5
<1>8. ASSUME NEW p \in Handlers, CheckAnswer(p) PROVE HandlerTypes' /\ PhaseCalls' /\ Outcomes'
  <2>0. call \in [Procs -> Calls] /\ ended \in [Handlers -> Nat]
    BY DEF HInv, IndInv, TypeOK, HandlerTypes
  <2>1. phase[p] = "checking" /\ call[p].key = KeyOf(p) /\ UNCHANGED <<hello, began, ended, lost>>
    BY <1>8 DEF CheckAnswer, HInv, PhaseCalls
  <2>2. \A q \in Handlers \ {p} : call'[q] = call[q]
    BY <1>8, <2>0 DEF CheckAnswer, CheckHit, CheckMiss, Return
  <2>3. UNCHANGED <<atomic, clock, stamped, forgotten>>
    BY <1>8 DEF CheckAnswer, CheckHit, CheckMiss, Goto
  <2>4. CASE CheckHit(p) /\ Goto(p, "reuse")
    <3>1. stamped[KeyOf(p)] # Never
      BY <2>1, <2>4, LiveMeansStamped DEF CheckHit, HInv
    <3>2. phase' = [phase EXCEPT ![p] = "reuse"]
      BY <2>4 DEF Goto
    <3> QED BY <1>7, <2>0, <2>1, <2>2, <2>3, <3>1, <3>2
  <2>5. CASE CheckMiss(p) /\ Goto(p, "verifying")
    <3>1. phase' = [phase EXCEPT ![p] = "verifying"]
      BY <2>5 DEF Goto
    <3> QED BY <1>7, <2>0, <2>1, <2>2, <2>3, <3>1
  <2> QED BY <1>8, <2>4, <2>5 DEF CheckAnswer
<1>9. ASSUME NEW p \in Handlers, RejectSignature(p) PROVE HandlerTypes' /\ PhaseCalls' /\ Outcomes'
  <2>1. /\ phase[p] = "verifying" /\ phase' = [phase EXCEPT ![p] = "badSignature"]
        /\ UNCHANGED <<atomic, call, hello, began, ended, lost, clock, stamped, forgotten>>
    BY <1>9 DEF RejectSignature, Goto, vars
  <2>2. ended \in [Handlers -> Nat]
    BY DEF HInv, HandlerTypes
  <2> QED BY <1>7, <2>1, <2>2
<1>10. ASSUME NEW p \in Handlers, NEW op, CallInsertion(p, op),
              op = IF atomic THEN "CheckAndInsert" ELSE "Insert"
       PROVE  HandlerTypes' /\ PhaseCalls' /\ Outcomes'
  <2>0. /\ call \in [Procs -> Calls] /\ phase \in [Handlers -> Phases] /\ clock \in Nat
        /\ hello \in [Handlers -> Hellos \cup {NoHello}]
        /\ began \in [Handlers -> Nat] /\ ended \in [Handlers -> Nat] /\ lost \subseteq Keys
    BY DEF HInv, IndInv, TypeOK, HandlerTypes
  <2>1. /\ phase[p] = "verifying" /\ phase' = [phase EXCEPT ![p] = "inserting"]
        /\ began' = [began EXCEPT ![p] = clock]
        /\ call' = [call EXCEPT ![p] = [op |-> op, key |-> KeyOf(p), now |-> clock]]
        /\ UNCHANGED <<atomic, hello, ended, lost, clock, stamped, forgotten>>
    BY <1>10 DEF CallInsertion, Goto, CallWithNonce, Call, KeyOf
  <2>2. /\ call'[p].op = op /\ call'[p].key = KeyOf(p) /\ call'[p].now = clock
        /\ \A q \in Handlers \ {p} : call'[q] = call[q]
    BY <2>0, <2>1
  <2>3. /\ began' \in [Handlers -> Nat] /\ began'[p] = clock
        /\ \A q \in Handlers \ {p} : began'[q] = began[q]
    BY <2>0, <2>1
  <2>4. hello[p] \in Hellos /\ hello[p].nonce \in GoodNonces
    BY <2>1 DEF HInv, HandlerTypes
  <2>5. KeyOf(p)' = KeyOf(p)
    BY <2>1 DEF KeyOf
  <2>6. "inserting" \in Phases
    BY DEF Phases
  <2>7. HandlerTypes' /\ PhaseCalls'
    BY <1>10, <2>0, <2>1, <2>2, <2>3, <2>4, <2>5, <2>6, OwnStep DEF HInv
  <2>8. phase'[p] = "inserting" /\ \A q \in Handlers \ {p} : phase'[q] = phase[q]
    BY <2>0, <2>1
  <2>9. Outcomes'
    BY <2>1, <2>3, <2>8, QuietStep
  <2> QED BY <2>7, <2>9
<1>11. ASSUME NEW p \in Handlers, InsertionAnswer(p)
       PROVE  HandlerTypes' /\ PhaseCalls' /\ Outcomes'
  <2>0. /\ call \in [Procs -> Calls] /\ phase \in [Handlers -> Phases] /\ clock \in Nat
        /\ hello \in [Handlers -> Hellos \cup {NoHello}]
        /\ began \in [Handlers -> Nat] /\ ended \in [Handlers -> Nat] /\ lost \subseteq Keys
    BY DEF HInv, IndInv, TypeOK, HandlerTypes
  <2>1. /\ phase[p] = "inserting" /\ ended' = [ended EXCEPT ![p] = clock]
        /\ lost' = lost \cup (forgotten' \ forgotten)
        /\ UNCHANGED <<atomic, hello, began>>
    BY <1>11 DEF InsertionAnswer, RecordLoss, Goto
  <2>2. /\ call[p].op = IF atomic THEN "CheckAndInsert" ELSE "Insert"
        /\ call[p].key = KeyOf(p) /\ call[p].now = began[p]
        /\ hello[p] \in Hellos /\ hello[p].nonce \in GoodNonces
    BY <2>1 DEF HInv, PhaseCalls, HandlerTypes
  <2>3. Return(p) /\ clock' = clock
    BY <1>11 DEF InsertionAnswer, CheckAndInsertFresh, Insert, CheckAndInsertReuse
  <2>4. \A q \in Handlers \ {p} : call'[q] = call[q]
    BY <2>0, <2>3 DEF Return
  <2>5. ended' \in [Handlers -> Nat] /\ \A q \in Handlers \ {p} : ended'[q] = ended[q]
    BY <2>0, <2>1
  <2>6. CASE CheckAndInsertReuse(p) /\ Goto(p, "reuse")
    <3>1. UNCHANGED <<stamped, forgotten>> /\ phase' = [phase EXCEPT ![p] = "reuse"]
      BY <2>6 DEF CheckAndInsertReuse, Goto
    <3>2. stamped[KeyOf(p)] # Never
      BY <2>2, <2>6, LiveMeansStamped DEF CheckAndInsertReuse, HInv
    <3>3. lost' = lost
      BY <2>1, <3>1
    <3> QED BY <1>7, <2>1, <2>3, <2>4, <2>5, <3>1, <3>2, <3>3
  <2>7. CASE (CheckAndInsertFresh(p) \/ Insert(p)) /\ Goto(p, "admitted")
    <3>1. phase' = [phase EXCEPT ![p] = "admitted"]
      BY <2>7 DEF Goto
    <3>2. stamped' = [stamped EXCEPT ![KeyOf(p)] = began[p]]
      BY <2>2, <2>7 DEF CheckAndInsertFresh, Insert, Stamp
    <3>3. atomic => ~Protected(KeyOf(p))
      <4>1. atomic => CheckAndInsertFresh(p)
        BY <2>2, <2>7 DEF Insert, Running
      <4> QED BY <2>2, <4>1, FreshMeansUnprotected DEF HInv
    <3>4. Outcomes'
      BY <2>1, <2>3, <3>1, <3>2, <3>3, AdmissionStep
    <3>5. lost' \subseteq Keys
      BY <1>0, <2>0, <2>1 DEF IndInv, TypeOK
    <3>6. "admitted" \in Phases
      BY DEF Phases
    <3>7. HandlerTypes' /\ PhaseCalls'
      BY <2>0, <2>1, <2>2, <2>4, <2>5, <3>1, <3>5, <3>6, OwnStep DEF HInv
    <3> QED BY <3>4, <3>7
  <2> QED BY <1>11, <2>6, <2>7 DEF InsertionAnswer
<1> QED
  BY <1>3, <1>4, <1>5, <1>6, <1>8, <1>9, <1>10, <1>11
     DEF HNext, CheckClientHello, CheckServerHello, InsertClientHello, InsertServerHello,
         CheckAndInsertClientHello, CheckAndInsertServerHello

\* No handler has started: the invariant holds.
LEMMA HInitEstablishes == HInit => HInv
<1> SUFFICES ASSUME HInit PROVE HInv
  OBVIOUS
<1>1. IndInv
  BY InitEstablishes DEF HInit
<1>2. \A p \in Handlers : phase[p] = "new"
  BY DEF HInit
<1>3. HandlerTypes
  BY HandlersAssumption DEF HInit, HandlerTypes, Phases
<1>4. PhaseCalls /\ AdmissionKept /\ AtomicAdmitsOnce /\ ReuseMeansAdmitted
  BY <1>2 DEF PhaseCalls, AdmissionKept, AtomicAdmitsOnce, OneAdmissionPerNonce,
              ReuseMeansAdmitted, Admitted
<1>5. LossRecorded /\ StampsAreAdmissions
  BY DEF HInit, Init, LossRecorded, StampsAreAdmissions
<1> QED BY <1>1, <1>3, <1>4, <1>5 DEF HInv

-----------------------------------------------------------------------------
(* Theorems *)

\* Handlers and cache keep their common invariant.
THEOREM HandlersInvariant == HSpec => []HInv
BY HInitEstablishes, HStepPreserves, PTL DEF HSpec

\* Every reachable state of handlers and cache is well typed: only keys of
\* well-formed hellos get into the cache.
THEOREM HandlersTypeCorrect == HSpec => []HTypeOK
<1>1. HInv => HTypeOK
  BY DEF HInv, IndInv, HandlerTypes, HTypeOK
<1> QED BY <1>1, HandlersInvariant, PTL

\* Any number of handlers that insert with CheckAndInsertXxxHello admit a
\* nonce once within its retention, unless the cache had to evict it.
THEOREM AtomicAdmitsOnceHolds == HSpec => []AtomicAdmitsOnce
<1>1. HInv => AtomicAdmitsOnce
  BY DEF HInv
<1> QED BY <1>1, HandlersInvariant, PTL

\* A hello is refused as a replay only because another handler admitted its
\* key, with either insertion.
THEOREM ReuseMeansAdmittedHolds == HSpec => []ReuseMeansAdmitted
<1>1. HInv => ReuseMeansAdmitted
  BY DEF HInv
<1> QED BY <1>1, HandlersInvariant, PTL

-----------------------------------------------------------------------------
(* Handlers and cache implement the registry *)

\* The registry's view of the map.
Known(m) == [k \in DOMAIN m |-> m[k].expiresAt]

Outcome(ph) ==
    CASE ph = "new" -> "new"
      [] ph \in {"checking", "verifying", "inserting"} -> "pending"
      [] ph = "admitted" -> "admitted"
      [] ph = "reuse" -> "refused"
      [] ph \in {"badNonce", "badSignature"} -> "rejected"

\* A handler that goes from one phase to another changes no outcome but its
\* own, and no claim once it has one.
LEMMA AbstractStep ==
    ASSUME HandlerTypes, NEW p \in Handlers, NEW to \in Phases, phase[p] # "badNonce",
           phase' = [phase EXCEPT ![p] = to],
           \A q \in Handlers \ {p} : hello'[q] = hello[q]
    PROVE  /\ AbstractOutcome[p] = Outcome(phase[p])
           /\ AbstractOutcome' = [AbstractOutcome EXCEPT ![p] = Outcome(to)]
           /\ AbstractClaim' = [AbstractClaim EXCEPT ![p] =
                 IF to \in {"new", "badNonce"} THEN NoKey ELSE KeyOf(p)']
<1>1. \A q \in Handlers : phase'[q] = IF q = p THEN to ELSE phase[q]
  BY DEF HandlerTypes
<1>2. AbstractOutcome = [q \in Handlers |-> Outcome(phase[q])]
  BY DEF AbstractOutcome, Outcome
<1>3. AbstractOutcome' = [q \in Handlers |-> Outcome(phase'[q])]
  BY DEF AbstractOutcome, Outcome
<1>4. AbstractOutcome' = [AbstractOutcome EXCEPT ![p] = Outcome(to)]
  BY <1>1, <1>2, <1>3
<1>5. \A q \in Handlers \ {p} : KeyOf(q)' = KeyOf(q)
  BY DEF KeyOf
<1>6. AbstractClaim' = [AbstractClaim EXCEPT ![p] =
          IF to \in {"new", "badNonce"} THEN NoKey ELSE KeyOf(p)']
  BY <1>1, <1>5 DEF AbstractClaim
<1> QED BY <1>2, <1>4, <1>6

\* A step that only drops entries which have expired for a call in flight is,
\* for the registry, a forgetting of keys whose time has come.
LEMMA SweepForgets ==
    ASSUME IndInv, NEW p \in Procs,
           DOMAIN entries' \subseteq DOMAIN entries,
           \A k \in DOMAIN entries' : entries'[k].expiresAt = entries[k].expiresAt,
           \A k \in DOMAIN entries \ DOMAIN entries' : call[p].now >= entries[k].expiresAt
    PROVE  \E gone \in SUBSET Registry!Expired : Known(entries)' = Registry!Keep(gone)
<1> DEFINE gone == DOMAIN entries \ DOMAIN entries'
<1>1. \A k \in gone : entries[k].expiresAt <= clock
  BY DEF IndInv, TypeOK, NowNotAhead, Calls, Entry
<1>2. gone \in SUBSET Registry!Expired
  BY <1>1 DEF Registry!Expired
<1>3. Known(entries)' = Registry!Keep(gone)
  BY DEF Known, Registry!Keep
<1> QED BY <1>2, <1>3

\* The registry counts as the cache does.
LEMMA RegistryCounts == \A S : Registry!Cardinality(S) = Cardinality(S)
BY DEF Registry!Cardinality, Cardinality

\* An insertion is an admission by the registry, at the time the handler read.
LEMMA InsertionAdmits ==
    ASSUME HInv, HInv', NEW p \in Handlers, phase[p] = "inserting",
           CheckAndInsertFresh(p) \/ Insert(p), phase' = [phase EXCEPT ![p] = "admitted"],
           UNCHANGED <<atomic, hello>>
    PROVE  Registry!Next
<1> DEFINE key == KeyOf(p)
           at == call[p].now
<1> USE HandlersAssumption
<1>1. /\ call[p].key = key /\ key \in Keys
      /\ call[p].op = IF atomic THEN "CheckAndInsert" ELSE "Insert"
  BY KeyOfHello DEF HInv, PhaseCalls
<1>2. PICK room : Inserts(room, key, at)
  BY <1>1, InsertionRoom DEF HInv
<1> DEFINE gone == DOMAIN entries \ DOMAIN room
<1>3. at \in 0..clock /\ clock \in Nat /\ clock' = clock
  BY DEF HInv, IndInv, TypeOK, NowNotAhead, Calls, CheckAndInsertFresh, Insert
<1>4. gone \in SUBSET DOMAIN Known(entries)
  BY DEF Known
<1>5. /\ AbstractOutcome[p] = "pending"
      /\ AbstractOutcome' = [AbstractOutcome EXCEPT ![p] = "admitted"]
      /\ AbstractClaim[p] = key
      /\ AbstractClaim' = AbstractClaim
  <2>1. "admitted" \in Phases /\ Outcome("admitted") = "admitted" /\ Outcome("inserting") = "pending"
    BY DEF Phases, Outcome
  <2>2. AbstractClaim[p] = key
    BY DEF AbstractClaim
  <2>3. KeyOf(p)' = key
    BY DEF KeyOf
  <2>4. AbstractClaim' = [AbstractClaim EXCEPT ![p] = key]
    BY <2>1, <2>3, AbstractStep DEF HInv
  <2>5. AbstractClaim' = AbstractClaim
    BY <2>2, <2>4 DEF AbstractClaim
  <2>6. /\ AbstractOutcome[p] = Outcome(phase[p])
        /\ AbstractOutcome' = [AbstractOutcome EXCEPT ![p] = Outcome("admitted")]
    BY <2>1, AbstractStep DEF HInv
  <2> QED BY <2>1, <2>2, <2>5, <2>6
<1>6. atomic /\ key \in DOMAIN entries => entries[key].expiresAt <= at
  <2> SUFFICES ASSUME atomic, key \in DOMAIN entries PROVE entries[key].expiresAt <= at
    OBVIOUS
  <2>1. CheckAndInsertFresh(p)
    BY <1>1 DEF Insert, Running
  <2>2. PICK m \in lazyEvict(entries, at) : ~Live(m, key, at)
    BY <1>1, <2>1 DEF CheckAndInsertFresh
  <2>3. Swept(m, entries, at)
    BY LockedStart DEF HInv
  <2>4. at >= entries[key].expiresAt
    BY <2>2, <2>3 DEF Swept, Live, isExpired
  <2>5. at \in Nat /\ entries[key].expiresAt \in Nat
    BY <1>3 DEF HInv, IndInv, TypeOK, Entry
  <2> QED BY <2>4, <2>5
<1>7. gone \ (Registry!Expired \cup {key}) \subseteq Evicted(room, key, at)
  <2> SUFFICES ASSUME NEW k \in gone, k # key, k \notin Registry!Expired
               PROVE  ~(at >= entries[k].expiresAt)
    BY DEF Evicted
  <2>1. k \in DOMAIN entries /\ entries[k].expiresAt \in Nat
    BY DEF HInv, IndInv, TypeOK, Entry
  <2>2. ~(entries[k].expiresAt <= clock)
    BY <2>1 DEF Registry!Expired
  <2> QED BY <1>3, <2>1, <2>2
<1>8. Known(entries)' = [k \in (DOMAIN Registry!Keep(gone)) \cup {key} |->
                            IF k = key THEN at + Retention ELSE Known(entries)[k]]
  <2>1. /\ DOMAIN room \subseteq DOMAIN entries
        /\ \A k \in DOMAIN room : room[k] = entries[k]
        /\ entries' = Put(room, key, at)
    BY <1>2 DEF Inserts
  <2>2. DOMAIN Registry!Keep(gone) = DOMAIN room
    BY <2>1 DEF Registry!Keep
  <2>3. /\ DOMAIN entries' = DOMAIN room \cup {key}
        /\ \A k \in DOMAIN entries' : entries'[k].expiresAt =
              IF k = key THEN at + Retention ELSE entries[k].expiresAt
    BY <2>1 DEF Put
  <2> QED BY <2>1, <2>2, <2>3 DEF Known
<1>9. Cardinality(DOMAIN Known(entries)') <= MaxEntries
  BY DEF HInv, IndInv, BoundedEntries, Known
<1>10. PICK a \in 0..clock, g \in SUBSET DOMAIN Known(entries) : a = at /\ g = gone
  BY <1>3, <1>4
<1>11. Registry!Admit(p, a, g)
  <2>1. DOMAIN Known(entries) = DOMAIN entries
    BY DEF Known
  <2>2. Registry!Cardinality(DOMAIN Known(entries)) = Cardinality(DOMAIN entries)
    BY <2>1, RegistryCounts
  <2>3. Registry!Cardinality(DOMAIN Known(entries)') = Cardinality(DOMAIN Known(entries)')
    BY RegistryCounts
  <2>4. key \in DOMAIN entries => Known(entries)[key] = entries[key].expiresAt
    BY DEF Known
  <2> DEFINE early == gone \ (Registry!Expired \cup {key})
  <2>5. /\ early # {} => Cardinality(DOMAIN entries) = MaxEntries
        /\ \A j, k \in early : j = k
    BY <1>2, <1>7 DEF Inserts
  <2> HIDE DEF at, gone, key
  <2> QED
    BY <1>3, <1>5, <1>6, <1>8, <1>9, <1>10, <2>1, <2>2, <2>3, <2>4, <2>5, SMTT(60)
       DEF Registry!Admit, Known
<1>12. g \in SUBSET DOMAIN [k \in DOMAIN entries |-> entries[k].expiresAt]
  BY <1>10 DEF Known
<1> QED BY <1>10, <1>11, <1>12 DEF Registry!Next

\* A lookup that finds the key is a refusal by the registry.
LEMMA HitRefuses ==
    ASSUME HInv, NEW p \in Handlers, phase[p] \in {"checking", "inserting"},
           CheckHit(p) \/ CheckAndInsertReuse(p), phase' = [phase EXCEPT ![p] = "reuse"],
           UNCHANGED <<atomic, hello>>
    PROVE  Registry!Next
<1> USE HandlersAssumption
<1>1. call[p].key = KeyOf(p)
  BY DEF HInv, PhaseCalls
<1>2. call[p].now \in 0..clock /\ clock' = clock
  BY DEF HInv, IndInv, TypeOK, NowNotAhead, Calls, CheckHit, CheckAndInsertReuse
<1>3. PICK at \in 0..clock : at = call[p].now
  BY <1>2
<1>4. KeyOf(p) \in DOMAIN entries /\ at < entries[KeyOf(p)].expiresAt
  BY <1>1, <1>3, HitMeansKnown DEF HInv
<1>5. \E gone \in SUBSET Registry!Expired : Known(entries)' = Registry!Keep(gone)
  BY LookupsSweep, SweepForgets DEF HInv
<1>6. /\ AbstractOutcome[p] = "pending"
      /\ AbstractOutcome' = [AbstractOutcome EXCEPT ![p] = "refused"]
      /\ AbstractClaim[p] = KeyOf(p)
      /\ AbstractClaim' = AbstractClaim
  <2>1. "reuse" \in Phases /\ Outcome("reuse") = "refused" /\ Outcome(phase[p]) = "pending"
    BY DEF Phases, Outcome
  <2>2. AbstractClaim[p] = KeyOf(p) /\ KeyOf(p)' = KeyOf(p)
    BY DEF AbstractClaim, KeyOf
  <2>3. /\ AbstractOutcome[p] = Outcome(phase[p])
        /\ AbstractOutcome' = [AbstractOutcome EXCEPT ![p] = Outcome("reuse")]
        /\ AbstractClaim' = [AbstractClaim EXCEPT ![p] = KeyOf(p)]
    BY <2>1, <2>2, AbstractStep DEF HInv
  <2>4. AbstractClaim' = AbstractClaim
    BY <2>2, <2>3 DEF AbstractClaim
  <2> QED BY <2>1, <2>2, <2>3, <2>4
<1>7. Registry!Refuse(p, at)
  BY <1>2, <1>4, <1>5, <1>6 DEF Registry!Refuse, Known
<1> QED BY <1>3, <1>7 DEF Registry!Next

\* Initially the registry is empty and nobody has come.
LEMMA RegistryInit == HInit => Registry!Init
<1> SUFFICES ASSUME HInit PROVE Registry!Init
  OBVIOUS
<1>1. \A p \in Handlers : phase[p] = "new"
  BY DEF HInit
<1>2. atomic \in BOOLEAN /\ clock = 0
  BY HandlersAssumption DEF HInit, Init
<1>3. [k \in DOMAIN entries |-> entries[k].expiresAt] = [k \in {} |-> 0]
  BY DEF HInit, Init
<1>4. AbstractOutcome = [h \in Handlers |-> "new"]
  BY <1>1 DEF AbstractOutcome
<1>5. AbstractClaim = [h \in Handlers |-> Registry!NoKey]
  BY <1>1 DEF AbstractClaim, NoKey, Registry!NoKey
<1> QED BY <1>2, <1>3, <1>4, <1>5 DEF Registry!Init

\* Every step of handlers and cache is one of the registry, or none.
LEMMA RegistryStep == HInv /\ HInv' /\ [HNext]_allVars => [Registry!Next]_Registry!vars
<1> SUFFICES ASSUME HInv, HInv', [HNext]_allVars PROVE [Registry!Next]_Registry!vars
  OBVIOUS
<1> USE HandlersAssumption
<1>0. HandlerTypes /\ IndInv
  BY DEF HInv
<1>1. ASSUME entries' = entries, UNCHANGED <<atomic, clock>>,
             AbstractClaim' = AbstractClaim, AbstractOutcome' = AbstractOutcome
      PROVE  UNCHANGED Registry!vars
  BY <1>1 DEF Registry!vars
<1>2. ASSUME UNCHANGED <<phase, hello>>
      PROVE  AbstractClaim' = AbstractClaim /\ AbstractOutcome' = AbstractOutcome
  BY <1>2 DEF AbstractClaim, AbstractOutcome, KeyOf
<1>3. ASSUME \E gone \in SUBSET Registry!Expired : Known(entries)' = Registry!Keep(gone),
             UNCHANGED <<atomic, clock>>,
             AbstractClaim' = AbstractClaim, AbstractOutcome' = AbstractOutcome
      PROVE  Registry!Next
  BY <1>3 DEF Registry!Next, Registry!Expire, Known
<1>4. CASE UNCHANGED allVars
  BY <1>1, <1>2, <1>4 DEF allVars, vars, handlerVars
<1>5. CASE Tick /\ UNCHANGED handlerVars
  <2>1. Registry!Tick
    BY <1>2, <1>5 DEF Tick, handlerVars, Registry!Tick
  <2> QED BY <2>1 DEF Registry!Next
<1>6. ASSUME NEW p \in Procs, Sweep(p) PROVE [Registry!Next]_Registry!vars
  <2>1. UNCHANGED <<atomic, phase, hello>>
    BY <1>6 DEF Sweep, handlerVars
  <2>2. CASE CallEvictExpired(p)
    BY <1>1, <1>2, <2>1, <2>2 DEF CallEvictExpired, Call
  <2>3. CASE EvictExpired(p)
    <3>1. clock' = clock
      BY <2>3 DEF EvictExpired
    <3> QED BY <1>0, <1>2, <1>3, <2>1, <2>3, <3>1, LookupsSweep, SweepForgets
  <2> QED BY <1>6, <2>2, <2>3 DEF Sweep
<1>7. ASSUME NEW p \in Handlers, NEW h \in Hellos, CheckHello(p, h)
      PROVE  Registry!Next
  <2>1. /\ phase[p] = "new" /\ hello' = [hello EXCEPT ![p] = h]
        /\ UNCHANGED <<atomic, entries, clock>>
    BY <1>7 DEF CheckHello, Goto, vars, CallWithNonce, Call
  <2>2. hello'[p] = h /\ \A q \in Handlers \ {p} : hello'[q] = hello[q]
    BY <1>0, <2>1 DEF HandlerTypes
  <2>3. /\ Outcome("new") = "new" /\ Outcome("badNonce") = "rejected"
        /\ Outcome("checking") = "pending"
        /\ "badNonce" \in Phases /\ "checking" \in Phases
    BY DEF Outcome, Phases
  <2>4. AbstractClaim[p] = NoKey
    BY <2>1 DEF AbstractClaim
  <2>5. CASE Goto(p, "badNonce")
    <3>1. phase' = [phase EXCEPT ![p] = "badNonce"]
      BY <2>5 DEF Goto
    <3>2. /\ AbstractOutcome[p] = "new"
          /\ AbstractOutcome' = [AbstractOutcome EXCEPT ![p] = "rejected"]
          /\ AbstractClaim' = [AbstractClaim EXCEPT ![p] = NoKey]
      BY <1>0, <2>1, <2>2, <2>3, <3>1, AbstractStep
    <3>3. AbstractClaim' = AbstractClaim
      BY <2>4, <3>2 DEF AbstractClaim
    <3>4. Registry!Malformed(p)
      BY <2>1, <3>2, <3>3 DEF Registry!Malformed
    <3> QED BY <3>4 DEF Registry!Next
  <2>6. CASE CallWithNonce(p, "Check", h.agentID, h.nonce) /\ Goto(p, "checking")
    <3>1. phase' = [phase EXCEPT ![p] = "checking"]
      BY <2>6 DEF Goto
    <3>2. PICK key \in Keys : key = makeKey(h.agentID, h.nonce)
      BY <2>6 DEF CallWithNonce, Hellos, Keys
    <3>3. KeyOf(p)' = key
      BY <2>2, <3>2 DEF KeyOf
    <3>4. /\ AbstractOutcome[p] = "new"
          /\ AbstractOutcome' = [AbstractOutcome EXCEPT ![p] = "pending"]
          /\ AbstractClaim' = [AbstractClaim EXCEPT ![p] = key]
      <4>1. /\ AbstractOutcome[p] = Outcome(phase[p])
            /\ AbstractOutcome' = [AbstractOutcome EXCEPT ![p] = Outcome("checking")]
            /\ AbstractClaim' = [AbstractClaim EXCEPT ![p] = KeyOf(p)']
        BY <1>0, <2>1, <2>2, <2>3, <3>1, AbstractStep
      <4> QED BY <2>1, <2>3, <3>3, <4>1
    <3>5. Registry!Begin(p, key)
      BY <2>1, <3>4 DEF Registry!Begin
    <3> QED BY <3>2, <3>5 DEF Registry!Next
  <2> QED BY <1>7, <2>5, <2>6 DEF CheckHello
<1>8. ASSUME NEW p \in Handlers, NEW from \in {"checking", "verifying"},
             NEW to \in {"verifying", "inserting", "badSignature"},
             phase[p] = from, phase' = [phase EXCEPT ![p] = to], hello' = hello
      PROVE  /\ AbstractOutcome[p] = "pending"
             /\ AbstractOutcome' = [AbstractOutcome EXCEPT ![p] = Outcome(to)]
             /\ AbstractClaim' = AbstractClaim
  <2>1. Outcome(from) = "pending" /\ to \in Phases
    BY DEF Outcome, Phases
  <2>2. AbstractClaim[p] = KeyOf(p) /\ KeyOf(p)' = KeyOf(p)
    BY <1>8 DEF AbstractClaim, KeyOf
  <2>3. /\ AbstractOutcome[p] = Outcome(phase[p])
        /\ AbstractOutcome' = [AbstractOutcome EXCEPT ![p] = Outcome(to)]
        /\ AbstractClaim' = [AbstractClaim EXCEPT ![p] = KeyOf(p)]
    BY <1>0, <1>8, <2>1, <2>2, AbstractStep
  <2>4. AbstractClaim' = AbstractClaim
    BY <2>2, <2>3 DEF AbstractClaim
  <2> QED BY <1>8, <2>1, <2>3, <2>4
<1>9. ASSUME NEW p \in Handlers, NEW from \in {"checking", "verifying"},
             NEW to \in {"verifying", "inserting"},
             phase[p] = from, phase' = [phase EXCEPT ![p] = to], hello' = hello
      PROVE  AbstractClaim' = AbstractClaim /\ AbstractOutcome' = AbstractOutcome
  <2>1. Outcome(to) = "pending"
    BY DEF Outcome
  <2>2. /\ AbstractOutcome[p] = "pending"
        /\ AbstractOutcome' = [AbstractOutcome EXCEPT ![p] = "pending"]
        /\ AbstractClaim' = AbstractClaim
    BY <1>8, <1>9, <2>1
  <2> QED BY <2>2 DEF AbstractOutcome
<1>10. ASSUME NEW p \in Handlers, CheckAnswer(p) PROVE Registry!Next
  <2>1. phase[p] = "checking" /\ UNCHANGED <<atomic, hello>>
    BY <1>10 DEF CheckAnswer, Goto
  <2>2. CASE CheckHit(p) /\ Goto(p, "reuse")
    BY <2>1, <2>2, HitRefuses DEF Goto
  <2>3. CASE CheckMiss(p) /\ Goto(p, "verifying")
    <3>1. phase' = [phase EXCEPT ![p] = "verifying"] /\ clock' = clock
      BY <2>3 DEF Goto, CheckMiss
    <3> QED BY <1>0, <1>3, <1>9, <2>1, <2>3, <3>1, LookupsSweep, SweepForgets
  <2> QED BY <1>10, <2>2, <2>3 DEF CheckAnswer
<1>11. ASSUME NEW p \in Handlers, RejectSignature(p) PROVE Registry!Next
  <2>1. /\ phase[p] = "verifying" /\ phase' = [phase EXCEPT ![p] = "badSignature"]
        /\ UNCHANGED <<atomic, hello, entries, clock>>
    BY <1>11 DEF RejectSignature, Goto, vars
  <2>2. Outcome("badSignature") = "rejected"
    BY DEF Outcome
  <2>3. Registry!Reject(p)
    BY <1>8, <2>1, <2>2 DEF Registry!Reject
  <2> QED BY <2>3 DEF Registry!Next
<1>12. ASSUME NEW p \in Handlers, NEW op, CallInsertion(p, op) PROVE UNCHANGED Registry!vars
  <2>1. /\ phase[p] = "verifying" /\ phase' = [phase EXCEPT ![p] = "inserting"]
        /\ UNCHANGED <<atomic, hello, entries, clock>>
    BY <1>12 DEF CallInsertion, Goto, CallWithNonce, Call
  <2> QED BY <1>1, <1>9, <2>1
<1>13. ASSUME NEW p \in Handlers, InsertionAnswer(p) PROVE Registry!Next
  BY <1>13, HitRefuses, InsertionAdmits DEF InsertionAnswer, Goto
<1> QED
  BY <1>4, <1>5, <1>6, <1>7, <1>10, <1>11, <1>12, <1>13
     DEF HNext, CheckClientHello, CheckServerHello, InsertClientHello, InsertServerHello,
         CheckAndInsertClientHello, CheckAndInsertServerHello

\* Handlers and cache implement the registry: each hello is answered as if its
\* handler had asked once, for any number of handlers, sweepers, agents and
\* nonces, and any capacity and retention.
THEOREM ImplementsRegistryHolds == HSpec => ImplementsRegistry
BY RegistryInit, RegistryStep, HandlersInvariant, PTL DEF HSpec, ImplementsRegistry, Registry!Spec
=============================================================================
