-------------------------- MODULE HandshakeReplay --------------------------
(***************************************************************************)
(* HandshakeReplayChecker (replaycache/handshake_integration.go) in the    *)
(* hands of connection handlers.  A server handler admits the ClientHello  *)
(* of its connection and a client handler the ServerHello, each against    *)
(* the one ReplayCache of the agent, in the order the comments of the      *)
(* checker prescribe: CheckXxxHello, then signature verification, then the *)
(* insertion.  The handlers themselves are not part of the repository;     *)
(* `atomic' says which of the two insertion methods they use:              *)
(*   TRUE   CheckAndInsertXxxHello,                                        *)
(*   FALSE  InsertXxxHello.                                                *)
(* Every other goroutine in Procs only calls EvictExpired.                 *)
(***************************************************************************)
EXTENDS ReplayCache

CONSTANTS
    Servers,      \* handlers of accepted connections
    Clients,      \* handlers of dialled connections
    Modes         \* the values `atomic' may have

Handlers == Servers \cup Clients

ASSUME HandlersAssumption ==
    /\ Servers \cap Clients = {}
    /\ Handlers \subseteq Procs
    /\ Modes \subseteq BOOLEAN

VARIABLES
    atomic,       \* which insertion the handlers use; never changes
    phase,        \* how far each handler has come
    hello,        \* the hello it handles
    began,        \* the time its insertion read
    ended,        \* the time its insertion got the lock
    lost          \* history: keys that were ever evicted for room

handlerVars == <<atomic, phase, hello, began, ended, lost>>
allVars == <<vars, handlerVars>>

Hellos == [agentID : AgentIDs, nonce : GoodNonces \cup BadNonces, sigOK : BOOLEAN]

Phases == {"new", "checking", "verifying", "inserting",
           "admitted", "reuse", "badNonce", "badSignature"}

NoHello == [agentID |-> "none", nonce |-> "none", sigOK |-> FALSE]

KeyOf(p) == makeKey(hello[p].agentID, hello[p].nonce)

-----------------------------------------------------------------------------
HInit ==
    /\ Init
    /\ atomic \in Modes
    /\ phase = [p \in Handlers |-> "new"]
    /\ hello = [p \in Handlers |-> NoHello]
    /\ began = [p \in Handlers |-> 0]
    /\ ended = [p \in Handlers |-> 0]
    /\ lost = {}

Goto(p, to) == phase' = [phase EXCEPT ![p] = to] /\ UNCHANGED atomic

\* The keys the cache gave up to make room in this step.
RecordLoss == lost' = lost \cup (forgotten' \ forgotten)

\* The length test, then the call of cache.Check up to its lock.
CheckHello(p, h) ==
    /\ phase[p] = "new"
    /\ hello' = [hello EXCEPT ![p] = h]
    /\ \/ /\ h.nonce \in BadNonces
          /\ Goto(p, "badNonce")
          /\ UNCHANGED vars
       \/ /\ CallWithNonce(p, "Check", h.agentID, h.nonce)
          /\ Goto(p, "checking")
    /\ UNCHANGED <<began, ended, lost>>

CheckClientHello(p, h) == p \in Servers /\ CheckHello(p, h)
CheckServerHello(p, h) == p \in Clients /\ CheckHello(p, h)

\* The locked part of cache.Check and the answer: ErrNonceReuse or nil.
CheckAnswer(p) ==
    /\ phase[p] = "checking"
    /\ \/ CheckHit(p) /\ Goto(p, "reuse")
       \/ CheckMiss(p) /\ Goto(p, "verifying")
    /\ UNCHANGED <<hello, began, ended, lost>>

\* Signature verification fails: the handshake ends, nothing is inserted.
RejectSignature(p) ==
    /\ phase[p] = "verifying"
    /\ ~hello[p].sigOK
    /\ Goto(p, "badSignature")
    /\ UNCHANGED <<vars, hello, began, ended, lost>>

\* Verification succeeds and the handler calls its insertion method.
CallInsertion(p, op) ==
    /\ phase[p] = "verifying"
    /\ hello[p].sigOK
    /\ CallWithNonce(p, op, hello[p].agentID, hello[p].nonce)
    /\ Goto(p, "inserting")
    /\ began' = [began EXCEPT ![p] = clock]
    /\ UNCHANGED <<hello, ended, lost>>

InsertClientHello(p) == p \in Servers /\ ~atomic /\ CallInsertion(p, "Insert")
InsertServerHello(p) == p \in Clients /\ ~atomic /\ CallInsertion(p, "Insert")

CheckAndInsertClientHello_Unchecked(p) ==
    p \in Servers /\ atomic /\ CallInsertion(p, "Insert")

CheckAndInsertClientHello(p) ==
    p \in Servers /\ atomic /\ CallInsertion(p, "CheckAndInsert")

CheckAndInsertServerHello(p) ==
    p \in Clients /\ atomic /\ CallInsertion(p, "CheckAndInsert")

\* The locked part of the insertion; on nil (or always, for Insert) the
\* handler goes on with the handshake.
InsertionAnswer(p) ==
    /\ phase[p] = "inserting"
    /\ \/ CheckAndInsertFresh(p) /\ Goto(p, "admitted")
       \/ Insert(p) /\ Goto(p, "admitted")
       \/ CheckAndInsertReuse(p) /\ Goto(p, "reuse")
    /\ ended' = [ended EXCEPT ![p] = clock]
    /\ RecordLoss
    /\ UNCHANGED <<hello, began>>

Sweep(p) ==
    /\ CallEvictExpired(p) \/ EvictExpired(p)
    /\ UNCHANGED handlerVars

HNext ==
    \/ Tick /\ UNCHANGED handlerVars
    \/ \E p \in Procs \ Handlers : Sweep(p)
    \/ \E p \in Handlers :
          \/ \E h \in Hellos : CheckClientHello(p, h) \/ CheckServerHello(p, h)
          \/ CheckAnswer(p)
          \/ RejectSignature(p)
          \/ InsertClientHello(p) \/ InsertServerHello(p)
          \/ CheckAndInsertClientHello(p) \/ CheckAndInsertServerHello(p)
          \/ InsertionAnswer(p)

HSpec == HInit /\ [][HNext]_allVars

-----------------------------------------------------------------------------
(* Properties *)

\* The cache is well typed under the handlers too: only keys of well-formed
\* hellos reach it.  Handlers are in a known phase, and hold a hello once they
\* have started.
HTypeOK ==
    /\ TypeOK
    /\ atomic \in BOOLEAN
    /\ phase \in [Handlers -> Phases]
    /\ hello \in [Handlers -> Hellos \cup {NoHello}]
    /\ \A p \in Handlers : phase[p] # "new" => hello[p] \in Hellos
    /\ began \in [Handlers -> Nat] /\ ended \in [Handlers -> Nat]
    /\ lost \subseteq Keys

Admitted(p) == phase[p] = "admitted"

\* Two handlers never both admit the same (agent_id, nonce) within one
\* retention, whichever roles they have and however their checks,
\* verifications and insertions interleave, unless the cache had to evict the
\* key: the later one inserts no earlier than a retention after the time the
\* other one read.  This is what "Atomicity (Invariant 4)" of
\* handshake_integration.go:19 asks for.
OneAdmissionPerNonce ==
    \A p, q \in Handlers :
        (p # q /\ Admitted(p) /\ Admitted(q) /\ KeyOf(p) = KeyOf(q)) =>
            \/ KeyOf(p) \in lost
            \/ ended[p] >= began[q] + Retention
            \/ ended[q] >= began[p] + Retention

\* Handlers that insert with CheckAndInsertXxxHello have it
\* (handshake_integration.go:57-67, 97-106).
AtomicAdmitsOnce == atomic => OneAdmissionPerNonce

\* A hello is refused as a replay only because another handler admitted the
\* same key: hellos that fail verification leave nothing behind that would
\* refuse a genuine one, and two concurrent copies never refuse each other
\* (check before verify, insert after verify, handshake_integration.go:17-18).
ReuseMeansAdmitted ==
    \A p \in Handlers : phase[p] = "reuse" =>
        \E q \in Handlers : q # p /\ Admitted(q) /\ KeyOf(q) = KeyOf(p)

-----------------------------------------------------------------------------
(* The registry the handlers and the cache implement together: a key is      *)
(* known as long as its entry says.                                          *)

AbstractOutcome ==
    [p \in Handlers |->
        CASE phase[p] = "new" -> "new"
          [] phase[p] \in {"checking", "verifying", "inserting"} -> "pending"
          [] phase[p] = "admitted" -> "admitted"
          [] phase[p] = "reuse" -> "refused"
          [] phase[p] \in {"badNonce", "badSignature"} -> "rejected"]

AbstractClaim ==
    [p \in Handlers |-> IF phase[p] \in {"new", "badNonce"} THEN NoKey ELSE KeyOf(p)]

Registry ==
    INSTANCE NonceRegistry WITH
        Capacity <- MaxEntries,
        strict   <- atomic,
        known    <- [k \in DOMAIN entries |-> entries[k].expiresAt],
        claim    <- AbstractClaim,
        outcome  <- AbstractOutcome

\* Handlers and cache together behave as that registry: however the three
\* calls of each handler interleave with others, with sweeps and with time
\* that passes between reading the clock and getting the lock, each handler
\* is admitted or refused as if it had asked once, and what the cache drops in
\* batches, on lookups and for room, the registry may drop too.
ImplementsRegistry == Registry!Spec
=============================================================================
