---------------------------- MODULE ReplayCache ----------------------------
(***************************************************************************)
(* The nonce replay cache of replaycache/replaycache.go, shared by the     *)
(* goroutines in Procs.                                                    *)
(*                                                                         *)
(* A call of Check, CheckAndInsert, Insert or EvictExpired runs in two     *)
(* steps, because the code reads time.Now() before it takes the mutex:     *)
(* Call(p, ...) evaluates the nonce length test, the time and the key; one *)
(* of the locked actions later runs everything between Lock and Unlock.    *)
(* Any number of other calls, and any amount of time, fits in between, so  *)
(* a locked section may run with a `now' that is older than the entries it *)
(* meets.  Iteration over a Go map has no order: lazyEvict and evictLRU    *)
(* are the sets of maps the code may be left with.                         *)
(***************************************************************************)
EXTENDS Integers, FiniteSets

CONSTANTS
    Procs,        \* goroutines that call the cache
    AgentIDs,     \* agent identifiers as the callers pass them
    Prefix,       \* agent id -> its first AgentIDSize bytes, zero padded
    GoodNonces,   \* nonces of NonceSize bytes
    BadNonces,    \* nonces of any other length
    Retention,    \* c.retention, in clock units
    MaxEntries,   \* c.maxEntries
    BatchSize,    \* batchSize of lazyEvict (64 in the code)
    Ops,          \* the methods the callers use
    MaxClock      \* bound on the clock

AllOps == {"Check", "CheckAndInsert", "Insert", "EvictExpired", "Clear"}

ASSUME RetentionAssumption  == Retention \in Nat \ {0}
ASSUME MaxEntriesAssumption == MaxEntries \in Nat \ {0}
ASSUME BatchSizeAssumption  == BatchSize \in Nat \ {0}
ASSUME MaxClockAssumption   == MaxClock \in Nat
ASSUME OpsAssumption        == Ops \subseteq AllOps

VARIABLES
    entries,      \* c.entries: key -> [expiresAt, lastAccessed]
    clock,        \* what time.Now() returns
    call,         \* the call each goroutine has in flight
    stamped,      \* history: the `now' of the call that last wrote each key
    forgotten     \* history: keys evicted to make room, or cleared, since

vars == <<entries, clock, call, stamped, forgotten>>

-----------------------------------------------------------------------------
(* Values *)

\* An agent id longer than 32 bytes is cut, a shorter one is padded, so two
\* ids with the same Prefix share their entries.
makeKey(agentID, nonce) == <<Prefix[agentID], nonce>>

Keys == {makeKey(a, n) : a \in AgentIDs, n \in GoodNonces}

NoKey == <<>>
Never == -1

Entry == [expiresAt : Nat, lastAccessed : Nat]

Idle == [op |-> "idle", key |-> NoKey, now |-> 0]

Calls == [op : AllOps \cup {"idle"}, key : Keys \cup {NoKey}, now : Nat]

-----------------------------------------------------------------------------
(* Helpers on the map *)

isExpired_Early(e, now) == now + 1 >= e.expiresAt

isExpired(e, now) == now >= e.expiresAt

Expired(m, now) == {k \in DOMAIN m : isExpired(m[k], now)}

Live(m, key, now) == key \in DOMAIN m /\ ~isExpired(m[key], now)

\* delete(c.entries, key) for every key of ks
Without(m, ks) == [k \in DOMAIN m \ ks |-> m[k]]

\* c.entries[key] = &entry{now + retention, now}
Put(m, key, now) ==
    [k \in DOMAIN m \cup {key} |->
        IF k = key THEN [expiresAt |-> now + Retention, lastAccessed |-> now]
                   ELSE m[k]]

Touch(m, key, now) == [m EXCEPT ![key].lastAccessed = now]

\* The keys a scan of at most BatchSize entries may have looked at.
Batches(keys) ==
    {B \in SUBSET keys :
        Cardinality(B) =
            IF Cardinality(keys) < BatchSize THEN Cardinality(keys)
                                             ELSE BatchSize}

lazyEvict(m, now) ==
    IF Cardinality(DOMAIN m) <= MaxEntries \div 2
    THEN {m}
    ELSE {Without(m, B \cap Expired(m, now)) : B \in Batches(DOMAIN m)}

LeastRecent(m) ==
    {k \in DOMAIN m :
        \A j \in DOMAIN m : m[k].lastAccessed <= m[j].lastAccessed}

evictLRU_LiveFirst(m, now) == {Without(m, {k}) : k \in LeastRecent(m)}

\* One expired entry if there is any, otherwise one least recently used.
evictLRU(m, now) ==
    IF Expired(m, now) # {}
    THEN {Without(m, {k}) : k \in Expired(m, now)}
    ELSE {Without(m, {k}) : k \in LeastRecent(m)}

MakeRoom_OffByOne(m, now) ==
    IF Cardinality(DOMAIN m) > MaxEntries THEN evictLRU(m, now) ELSE {m}

MakeRoom(m, now) ==
    IF Cardinality(DOMAIN m) >= MaxEntries THEN evictLRU(m, now) ELSE {m}

-----------------------------------------------------------------------------
Init ==
    /\ entries = [k \in {} |-> 0]
    /\ clock = 0
    /\ call = [p \in Procs |-> Idle]
    /\ stamped = [k \in Keys |-> Never]
    /\ forgotten = {}

Tick ==
    /\ clock < MaxClock
    /\ clock' = clock + 1
    /\ UNCHANGED <<entries, call, stamped, forgotten>>

\* What a method does before it locks: now := time.Now(), makeKey.
Call(p, op, key) ==
    /\ call[p] = Idle
    /\ op \in Ops
    /\ call' = [call EXCEPT ![p] = [op |-> op, key |-> key, now |-> clock]]
    /\ UNCHANGED <<entries, clock, stamped, forgotten>>

CallWithNonce(p, op, agentID, nonce) ==
    /\ op \in {"Check", "CheckAndInsert", "Insert"}
    /\ nonce \in GoodNonces
    /\ Call(p, op, makeKey(agentID, nonce))

BadNonce_Unchecked(p, op) ==
    /\ op \in {"Check", "CheckAndInsert", "Insert"}
    /\ \E a \in AgentIDs, n \in BadNonces : Call(p, op, makeKey(a, n))

\* A nonce of another length: Check answers false, Insert returns and
\* CheckAndInsert fails, none of them having touched the cache.
BadNonce(p, op) ==
    /\ call[p] = Idle
    /\ op \in Ops \cap {"Check", "CheckAndInsert", "Insert"}
    /\ BadNonces # {}
    /\ UNCHANGED vars

CallEvictExpired(p) == Call(p, "EvictExpired", NoKey)

Running(p, op) == call[p].op = op

Return(p) == call' = [call EXCEPT ![p] = Idle]

-----------------------------------------------------------------------------
(* The locked sections *)

\* Check finds a live entry: touch it and answer true.
CheckHit(p) ==
    LET key == call[p].key
        now == call[p].now
    IN  /\ Running(p, "Check")
        /\ \E m \in lazyEvict(entries, now) :
              /\ Live(m, key, now)
              /\ entries' = Touch(m, key, now)
        /\ Return(p)
        /\ UNCHANGED <<clock, stamped, forgotten>>

CheckMiss_Inserts(p) ==
    LET key == call[p].key
        now == call[p].now
    IN  /\ Running(p, "Check")
        /\ \E m \in lazyEvict(entries, now) :
              /\ ~Live(m, key, now)
              /\ entries' = Put(m, key, now)
        /\ Return(p)
        /\ UNCHANGED <<clock, stamped, forgotten>>

\* Check finds no entry, or an expired one, which it deletes.
CheckMiss(p) ==
    LET key == call[p].key
        now == call[p].now
    IN  /\ Running(p, "Check")
        /\ \E m \in lazyEvict(entries, now) :
              /\ ~Live(m, key, now)
              /\ entries' = Without(m, {key})
        /\ Return(p)
        /\ UNCHANGED <<clock, stamped, forgotten>>

\* CheckAndInsert finds a live entry: ErrNonceReuse, lastAccessed untouched.
CheckAndInsertReuse(p) ==
    LET key == call[p].key
        now == call[p].now
    IN  /\ Running(p, "CheckAndInsert")
        /\ \E m \in lazyEvict(entries, now) :
              /\ Live(m, key, now)
              /\ entries' = m
        /\ Return(p)
        /\ UNCHANGED <<clock, stamped, forgotten>>

\* What an insertion leaves in the history.
Stamp(key, now, evicted) ==
    /\ stamped' = [stamped EXCEPT ![key] = now]
    /\ forgotten' = (forgotten \cup evicted) \ {key}

CheckAndInsertFresh_NoCheck(p) ==
    LET key == call[p].key
        now == call[p].now
    IN  /\ Running(p, "CheckAndInsert")
        /\ \E m \in lazyEvict(entries, now) :
              LET rest == Without(m, {key})
              IN  \E room \in MakeRoom(rest, now) :
                    /\ entries' = Put(room, key, now)
                    /\ Stamp(key, now, DOMAIN rest \ DOMAIN room)
        /\ Return(p)
        /\ UNCHANGED clock

\* CheckAndInsert finds no live entry: delete the expired one, make room,
\* insert, return nil.
CheckAndInsertFresh(p) ==
    LET key == call[p].key
        now == call[p].now
    IN  /\ Running(p, "CheckAndInsert")
        /\ \E m \in lazyEvict(entries, now) :
              LET rest == Without(m, {key})
              IN  /\ ~Live(m, key, now)
                  /\ \E room \in MakeRoom(rest, now) :
                        /\ entries' = Put(room, key, now)
                        /\ Stamp(key, now, DOMAIN rest \ DOMAIN room)
        /\ Return(p)
        /\ UNCHANGED clock

\* Insert: make room if the key is absent, then write the entry in any case.
Insert(p) ==
    LET key == call[p].key
        now == call[p].now
    IN  /\ Running(p, "Insert")
        /\ \E m \in lazyEvict(entries, now) :
              \E room \in IF key \in DOMAIN m THEN {m} ELSE MakeRoom(m, now) :
                 /\ entries' = Put(room, key, now)
                 /\ Stamp(key, now, DOMAIN m \ DOMAIN room)
        /\ Return(p)
        /\ UNCHANGED clock

EvictExpired(p) ==
    /\ Running(p, "EvictExpired")
    /\ entries' = Without(entries, Expired(entries, call[p].now))
    /\ Return(p)
    /\ UNCHANGED <<clock, stamped, forgotten>>

\* Clear reads nothing before it locks.
Clear(p) ==
    /\ call[p] = Idle
    /\ "Clear" \in Ops
    /\ entries' = [k \in {} |-> 0]
    /\ forgotten' = forgotten \cup DOMAIN entries
    /\ UNCHANGED <<clock, call, stamped>>

Locked(p) ==
    \/ CheckHit(p) \/ CheckMiss(p)
    \/ CheckAndInsertReuse(p) \/ CheckAndInsertFresh(p)
    \/ Insert(p)
    \/ EvictExpired(p)

Next ==
    \/ Tick
    \/ \E p \in Procs :
          \/ \E op \in Ops, a \in AgentIDs, n \in GoodNonces :
                CallWithNonce(p, op, a, n)
          \/ \E op \in Ops : BadNonce(p, op)
          \/ CallEvictExpired(p)
          \/ Locked(p)
          \/ Clear(p)

Spec == Init /\ [][Next]_vars

-----------------------------------------------------------------------------
(* Properties *)

\* Every variable has its type: the map's keys are cache keys and its values
\* entries, and a call in flight carries a key unless it is EvictExpired.
TypeOK ==
    /\ entries \in [DOMAIN entries -> Entry]
    /\ DOMAIN entries \subseteq Keys
    /\ clock \in Nat
    /\ call \in [Procs -> Calls]
    /\ \A p \in Procs :
          call[p].op \in {"Check", "CheckAndInsert", "Insert"}
              => call[p].key \in Keys
    /\ stamped \in [Keys -> Nat \cup {Never}]
    /\ forgotten \subseteq Keys

\* The cache never holds more than maxEntries entries, whatever the calls in
\* flight and however many entries have expired: every insertion of a new key
\* into a full cache evicts first (replaycache.go:245-248, 273-276).
BoundedEntries == Cardinality(DOMAIN entries) <= MaxEntries

\* The window in which the last call that wrote the key wants it known.
Protected(k) ==
    /\ stamped[k] # Never
    /\ k \notin forgotten
    /\ clock < stamped[k] + Retention

\* Until an entry expires, nothing moves its end but an Insert of the same key:
\* Check does not prolong it, a CheckAndInsert that read its time before the
\* entry was written does not set it back, and it leaves the map only when it
\* is evicted to make room or cleared, whatever lazyEvict and full sweeps with
\* old and new times do (replaycache.go:195-256, 286-333).
ExpiryKept ==
    [][\A k \in DOMAIN entries : clock < entries[k].expiresAt =>
          \/ k \in DOMAIN entries' /\ entries'[k].expiresAt = entries[k].expiresAt
          \/ k \in forgotten' \ DOMAIN entries'
          \/ \E p \in Procs : Insert(p) /\ call[p].key = k]_vars

\* CheckAndInsert never returns nil for a key that is still protected by the
\* last call that wrote it, even when the answering call read its time long
\* before it got the lock
\* (replaycache.go:226-256, "satisfying section 6.7.4 Invariant 4").
NoEarlyReadmission ==
    [][\A p \in Procs : CheckAndInsertFresh(p) => ~Protected(call[p].key)]_vars

\* CheckAndInsert returns ErrNonceReuse only for a key that some call wrote
\* less than a retention before the time this call read, and that was not
\* dropped since: no fresh handshake is refused (replaycache.go:236-240).
NoFalseReuse ==
    [][\A p \in Procs : CheckAndInsertReuse(p) =>
          LET key == call[p].key
          IN  /\ stamped[key] # Never
              /\ key \notin forgotten
              /\ call[p].now < stamped[key] + Retention]_vars

\* An entry that has not expired is lost in a locked section only when the
\* cache was full and held no entry that had expired for the acting call; at
\* most one is lost, and none that survives was used less recently
\* (evictLRU, replaycache.go:335-359).
LossOnlyWhenFull ==
    [][\A p \in Procs : Locked(p) =>
          LET lost == {k \in DOMAIN entries \ DOMAIN entries' :
                          clock < entries[k].expiresAt}
          IN  \A k \in lost :
                /\ Cardinality(DOMAIN entries) = MaxEntries
                /\ lost = {k}
                /\ \A j \in DOMAIN entries :
                      /\ call[p].now < entries[j].expiresAt
                      /\ entries[k].lastAccessed <= entries[j].lastAccessed]_vars
=============================================================================
