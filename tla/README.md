# AAFP-Go in TLA+

A verification project for AAFP-Go, the Go implementation of the AAFP v1 agent
protocol: TLA+ models of its stateful components and of its codecs, messages and
records, TLC configurations that check them on small instances, and TLAPS proofs
for all values of the constants.

Line numbers refer to the files under `src/`. `PROJECT.json` maps every
definition to the lines it translates, and lists runs, mutants, findings,
hazards and theorems.

## 1. The system

AAFP-Go is a library. Its packages keep the state of one connection or of one
agent; the program that owns sockets, goroutines and signatures is not in the
repository. The models therefore have two layers: a component, translated from
the source, and an environment (a *driver* or *caller*), written from what the
package comments and tests ask callers to do and marked external in the map.
Codecs keep no state; their models are functions, and the state of the modules
that use them is what is sent, changed on its way, and received.

| Component | State | Operations | Used by / uses |
|---|---|---|---|
| `replaycache/replaycache.go` | map (agent id prefix, nonce) → expiry and last access, under a mutex | `Check`, `CheckAndInsert`, `Insert`, `EvictExpired`, `Clear`; lazy and LRU eviction | any number of goroutines |
| `replaycache/handshake_integration.go` | a cache | six methods: check, insert, check-and-insert, for `ClientHello` and `ServerHello` | connection handlers; calls the cache |
| `closemanager/closemanager.go` | close state, peer's close payload, deadline | `InitiateClose`, `OnCloseReceived`, `RespondClose`, `OnFatalErrorReceived`, `OnTransportReset`, `OnTimeout`, `Abort`, `CheckTimer`; `CanSend`, `FrameDisposition` | one caller per connection, which obeys the returned `CloseAction`; peers exchange CLOSE frames |
| `handshake/state_machine.go` | client or server state, deadline, duplicate flags | `TransitionTo`, `CheckTimeout`, `FrameDisposition`, `On…Received`, `Abort` | one driver per connection; peers exchange HANDSHAKE, CLOSE, ERROR, DATA |
| `pipeline/pipeline.go` | none between frames; per call the phase, parsed extensions, counts | `Process`: 20 phases | asks a `PipelineContext` and runs `ExtensionCallback`s of the connection; calls `frame.Decode`, `cbor.CheckCanonical`, `frameext.Decode` |
| `frame/frame.go`, `frameext/frameext.go`, `errors/errors.go` | none | `Encode`, `Decode`, classification of frame types and codes | the pipeline |
| `cbor/cbor.go` | none | `Encode`, `Decode`, `CheckCanonical` | messages, records, pipeline |
| `handshake/handshake.go` | the running hash of a `TranscriptHash` | `ClientHello`, `ServerHello`, `ClientFinished` to and from CBOR; `Update`, `Current`; session id, receiver MAC | drivers; calls `cbor` |
| `identity/identity.go` | none | agent ids; records and capabilities to and from CBOR, `Verify`, `ExceedsMaxExpiryWarning` | whoever holds records; calls `cbor`, `mldsa` |
| `mldsa/mldsa.go` | none | keys, `Sign`, `Verify` | `identity`, drivers |
| `cmd/generate_interop_fixtures`, test packages | – | fixtures and tests | – |

What is hard here, and what correctness means:

* **Replay cache.** Calls read the clock before they lock, map iteration has no
  order, and the cache has a capacity. Correct: bounded; the expiry of an entry
  stays what it is; a nonce is never admitted twice in it nor refused without
  cause; live entries go only under pressure, least recently used first.
* **Replay checker.** A signature verification lies between check and insert.
  Correct: one admission per nonce, and a rejected hello blocks nobody.
* **Close manager.** CLOSE frames cross, come late, or never; timers race them.
  Correct: one CLOSE per side and nothing after it, no two responders, both
  sides come down, the reported payload is the peer's.
* **Handshake machines.** Duplicates, late verification results, deadlines that
  outlive their state, data overtaking the peer's authorization. Correct: exactly
  one exchange, no revival, everything ends.
* **Pipeline.** Wrapped lengths, a context that changes during a call, callbacks
  that fail half-way. Correct: no extension semantics before authorization, no
  oversized read, truthful errors.
* **Codecs.** 64-bit lengths that become negative or wrap, two CBOR decoders that
  must not differ, maps whose order must not matter, panics. Correct: what is
  encoded arrives; one value has one encoding and one encoding one value; bytes of
  unknown origin give a value or an error.
* **Messages and records.** Decoders that fill in zeros for what is missing,
  slices shared between a message and a hash, arithmetic on `uint64` times.
  Correct: what verifies is, field by field, what was signed; both ends that
  finish agree; nothing genuine is refused; the expiry warning is right.

The full list, by line, is `hazards` in `PROJECT.json`.

## 2. Modules

| Module | Models | Run through |
|---|---|---|
| `ReplayCache` | the cache with concurrent callers | `MCReplayCache` |
| `HandshakeReplay` (extends it) | checker and connection handlers | `MCHandshakeReplay` |
| `NonceRegistry` | abstract: what handlers and cache promise together | instantiated by `HandshakeReplay` |
| `CloseManager` | the manager's methods as functions `[cm, act]` | |
| `CloseConnection` (extends it) | two managers, QUIC, callers | `MCCloseConnection` |
| `TruncateMessage` | `truncateMessage`, byte by byte | `MCCloseConnection` |
| `HandshakeMachine` | both state machines as functions of a role | |
| `HandshakeSession` (extends it) | client and server machines, drivers, channel | `MCHandshakeSession` |
| `FrameCodec` | what `frame.Decode` accepts, error codes | |
| `FramePipeline` (extends it) | one call of `Process`, a step per phase | `MCFramePipeline` |
| `Cbor` | values, heads, decoder and canonical decoder, on bytes | |
| `CborEncoder` (extends it) | encoder | |
| `FrameBytes` (extends `Cbor`) | frames and extension sections on bytes | |
| `WireFormat` (extends it) | frames sent, bytes received, for any encoder of payloads | |
| `PayloadFormat` (extends it and `CborEncoder`) | payloads that are CBOR values | `MCWireFormat` |
| `SignedDocument` | CBOR maps as functions, hashes and signatures as terms, changes on the way | |
| `HandshakeTranscript` (extends it) | messages, transcript hash, session id, two ends per connection | `MCHandshakeTranscript` |
| `AgentRecord` (extends `SignedDocument`) | agent records and their holder | `MCAgentRecord` |
| `HandshakeReplayProofs`, `CloseConnectionProofs`, `TruncateMessageProofs`, `HandshakeSessionProofs`, `FramePipelineProofs`, `HandshakeTranscriptProofs`, `AgentRecordProofs`, `WireFormatProofs` | theorems about the module each is named after; the first also about `ReplayCache`, the last about `Cbor` and `FrameBytes` | TLAPS |

### ReplayCache

`entries` is `c.entries`. A method runs in two steps: `Call` (length test,
`time.Now()`, `makeKey`) and, any time later, one locked action that is
everything between `Lock` and `Unlock`, the `lazyEvict` in front included.
`lazyEvict` and `evictLRU` return the *set* of maps the code may be left with,
because Go iterates maps in any order. `Prefix` is what `makeKey` keeps of an
agent id. `stamped` and `forgotten` are history: the time of the last write of a
key, and the keys dropped by eviction for room or `Clear` since.

### HandshakeReplay

A handler goes through `CheckXxxHello`, signature verification and an insertion,
on top of the two-step calls of the cache. `atomic`, chosen at the start, selects
`CheckAndInsertXxxHello` or the separate `InsertXxxHello`. A sweeper calls
`EvictExpired`.

### NonceRegistry

The abstract specification of replay protection: a handler comes with a key and
is admitted, refused or rejected in one step. The mapping in `HandshakeReplay`:
`known` is the expiry of each entry, `strict` is `atomic`, `claim` is the key of a
handler's hello, and the eight phases of a handler become five outcomes (the
check, the verification and the call of the insertion are all `pending`). Three
things the registry allows say what callers may not count on: the time an answer
goes by may be past, a key may go before its time when the registry is full, and
without `strict` a known key is admitted again.

### CloseManager and CloseConnection

Methods map a manager to `[cm, act]`. The deadline is kept as time left, so
`Tick` lowers it; `CloseReceived` is assigned and left within one call and so is
never observed. In `CloseConnection`, `Obey` is the caller: send the CLOSE, close
QUIC, or nothing. Applications may call anything at any time. When QUIC is gone
for one side, the other may still read what arrived before it notices. `how` and
`said` are history: in which manner, and with which payload, an endpoint closed.
`Truncate` is a constant there; the assumption on it (idempotent) is proved of the
algorithm as `TruncateIdempotent`.

### TruncateMessage

A byte is reduced to its role in UTF-8: starts a rune of 1, 2 or 3 bytes,
continues one, or is never valid. `Boundary` and `Fallback` are the two loops. The
function has no state; the state machine around it writes every message, byte by
byte (`draft`). `MCCloseConnection` lets the application write while the connection
is idle and forgets the message with the first step there, where `Truncate` and three
payloads stand for it; so one run checks both without their product.

### HandshakeMachine and HandshakeSession

The two machines are the same row of nine states with different names;
`CanMove` is the transition table. `left` is the time left until the deadline,
which `TransitionTo` sets on waiting states and clears only on `Closed`.
In `HandshakeSession` verification and authorization are work under way
(`pending`) that reports to `TransitionTo` whenever it likes, also after the
machine began to close. Peers may repeat a handshake message, signatures may be
invalid, the connection may fail and drop what was under way. A driver reads in
every state it has a connection in, also while it verifies or authorizes, since a
peer may send at any time. Data that arrives then is rejected with an error: that
this happens also to data of a peer that rightly is in Messaging is listed in
section 3; `DataRejectedOnlyEarly` says that it happens nowhere else.

### FrameCodec and FramePipeline

A buffer is a record of its length and header fields; the claimed lengths are
unsigned words, `int` wraps at `HalfWord` (2^63 in the code), and `DecodeError`
follows the order of the checks in `frame.Decode`. RPC stands for the types with
a CBOR payload, DATA for the opaque ones. `FramePipeline` has one action per
phase that does something, with the code and the fatal flag of each failure;
`Renegotiate` lets the connection change the known and the negotiated extension
types between any two steps. A payload's `canonical` is how `cbor.CheckCanonical` ends
on it, a panic included, which passes through `Process`. `passed`, `ran` and
`changed` are history.

### Cbor, CborEncoder, FrameBytes, WireFormat and PayloadFormat

Numbers are the eight bytes of a `uint64` or, in two's complement, an `int64`;
conversions between the two keep the bytes, so that overflow needs no second
representation. A decoder returns a value, an error or a panic (slice bounds
reversed by a wrapped sum, an allocation the machine cannot serve: how many values
`make([]Value, n)` may ask for is the constant `CanAllocate`). `decodeItem` is both
`decodeValue` and `decodeValueCanonical`, which differ in four places: shortest
arguments, UTF-8, duplicate keys, and the checks before a string or a container.
The recursion of the code goes over positions: `item[pos]` is what decoding at
`pos` returns, and `ItemAt` says how it follows from what later positions return.
The encoder recurses over nested values and has a module of its own, with a
`RECURSIVE` operator that no proof meets.
`WireFormat` either has a message (header, extensions, payload, and a second
payload to compare with) or receives bytes piece by piece, as a payload or an
extension section within the limit `frame.Decode` puts on it; what encodes the
payloads is a parameter. `PayloadFormat` is `WireFormat` for CBOR values. What the properties
allow for is what the code lets pass: `CheckCanonical` does not look at key order,
takes `undefined` for null and turns keys of 2^63 and more negative; both
decoders may panic on eight-byte lengths, and the canonical one on an array of any
length that memory does not hold; it refuses U+FFFD; `FindUnknownCritical` cannot
name type 0. What of this contradicts a comment or a test is listed in section 3.
`IsUTF8` is the standard for texts, not the code's `isValidUTF8`.

### SignedDocument, HandshakeTranscript and AgentRecord

One level up a CBOR map is a function on its keys and `Enc(v)` is a term: that
this is a fair picture of `cbor.go` is what `FrameArrives` and
`EncodingIsFaithful` say. SHA-256, HMAC and signatures are free constructors.
Slices keep what matters about sharing: `TranscriptHash.state` is a cell that
`Current` hands out and a later `Update` might overwrite, and a nonce may have room
behind it that `append` writes to. Clients and servers fold messages into the
transcript in the order of the fixture generator; the decoders of `ServerHello`
and `ClientFinished` are not in the repository and are written like
`ClientHelloFromCBOR`. On the way, fields are dropped, changed, or taken from
other messages, and messages of two connections are exchanged. `AgentRecord` sends
one signed record through such changes and then holds it while time passes; the
clock and the expiry are words modulo `UintMax + 1`. Agents may also have signed
records before there was a `record_version`: such a document has no key 10, and the
signature is over fields 1-7 and 9, as the comment on `SignatureInput` has it
(`LegacyDocument`).

Three assumptions say what the constants stand for. Nobody but the modelled agents
and ends makes signatures, so no replacement for a field is one
(`ReplacementsAssumption`, in both modules). The records agents sign are Go structs:
all fields present, the agent's own key and the id of that key, an expiry in the
range of a `uint64` (`RecordsAssumption`, for current and earlier records alike). An end fills in a hello the same way, with
a nonce in an array of its own (`HellosAssumption`).

## 3. Runs

| Run | Checks | Bounds |
|---|---|---|
| `replay_cache` | `TypeOK`, `BoundedEntries`, `ExpiryKept`, `NoEarlyReadmission`, `NoFalseReuse`, `LossOnlyWhenFull` | 2 goroutines, 3 nonces, capacity 2, batch 1, retention 2, clock ≤ 3 |
| `handshake_replay` | `AtomicAdmitsOnce`, `ReuseMeansAdmitted`; refinement `ImplementsRegistry` | 2 servers, 1 client, 1 sweeper, 2 keys, capacity 1, retention 1, clock ≤ 2, both insertions |
| `close_connection` | `TypeOK`, `CloseIsLastWord`, `ResponderHasInitiator`, `BothClosedMeansDown`, `PayloadAsSaid`; of `truncateMessage` `FitsInFrame`, `CutIsValid`, `LongestPrefixKept`; liveness `ClosingEnds`, `ClosedLetsGo` | timeout 2, 3 payloads, 3 frames of data or error under way; all strings of ≤ 7 bytes, limit 4 |
| `handshake_session` | `TypeOK`, `ExactExchange`, `DataRejectedOnlyEarly`, `NoRevival`; liveness `HandshakeEnds` | timeouts 2 and 1, 2 optional frames under way |
| `frame_pipeline` | `TypeOK`, `ExtensionsAfterAuthorization`, `FatalCodesAreFatal`, `ErrorTellsCallbacks`, `EveryExtensionOnce`, `CriticalExtensionsRun`, `OversizedIsRefused` | all complete frames with ≤ 2 extensions of 2 types, 2 callbacks for one type; headers with 6-bit words and lengths at every boundary |
| `wire_codecs` | `FrameArrives`, `EncodingIsFaithful`, `DecodersAgree`, `AcceptedReencodes`, `ExtensionsTile` | numbers on both sides of every width, payloads nested two deep and all pairs of them; 38 headers; limits of 27 and 24 bytes; bytes put together from at most 3 pieces out of some 55, or of 9 for extensions; memory for 2^24 values |
| `handshake_transcript` | `Agreement`, `NoFalseReject` | 2 connections, 2 changes or exchanges, extensions and a receiver MAC on one of them |
| `agent_record` | `VerifiedMeansSigned`, `WarningForetells` | records of 2 agents, one of them without `record_version`, 2 changes, longest life 3, words up to 15, clock ≤ 10 |

Why the bounds are enough. Two goroutines give every order of two locked
sections relative to two clock readings; three nonces overfill a cache of two; a
batch of one makes lazy eviction miss expired entries; the clock passes a whole
retention with a stale call still in flight. In the replay checker a capacity of
one forces eviction between a check and its insertion. On the close connection
the optional frames are bounded, CLOSE frames are not; three queued frames hold
data, CLOSE and an ERROR behind it. Seven bytes around a limit of four reach
every split of a three-byte rune and the growth of invalid bytes in the
fallback. Three pieces of received bytes hold a container head, a key and a value,
or an item behind a truncated one; lengths are taken next to 2^63 and 2^64, where
sums wrap, and next to the end of the buffer. Two changes are what it takes to
replace a key together with the id or the signature that belongs to it; a third
message to mix fields with comes from the other connection or the other agent. A
clock up to ten passes a record's expiry and, after it, one more maximal life, and
words up to 15 let an unguarded difference wrap. Symmetry is used for goroutines,
nonces and servers, in runs without liveness; those sets are never ordered or
singled out by the modules. The refinement checked under symmetry is a safety
property, and the registry treats all handlers alike.

Deadlock checking is off where the system may rightly stop: handlers that are
done, a closed session, a call of `Process` that returned, all messages received, the clock at its bound.
It is on for the cache and the close connection, which always have an enabled
call.

### Fairness

On the close connection (the steps of `draft` have none): time passes; callers poll their timers (the package comment
makes them responsible); QUIC reports a dead connection to its user (idle
timeout). Nothing is assumed about delivery, the peer or the application.
On the handshake session: time passes; timeouts of waiting states are polled; a
driver takes the steps that depend only on itself, including the end of a
verification it started. Nobody has to connect, and nothing has to arrive.

### Disagreements with the documentation

Four are runs that expect a violation, and findings in `PROJECT.json`.

| Run | Documentation | What happens |
|---|---|---|
| `handshake_replay_race` | `handshake_integration.go:16-19`: enforces atomicity | check and separate insertion admit a nonce twice |
| `frame_skip` | `frame.go:126`: the caller must skip unknown non-critical frames | the pipeline processes and delivers them |
| `cbor_utf8` | `cbor.go:534`: checks for valid UTF-8 | U+FFFD, which is valid, is refused by `CheckCanonical` |
| `legacy_record` | `identity.go:222`: fields 1-7 and 9 are signed; `213`: compatible with records before Rev 6 | field 10 is signed, too, and a record signed without it never verifies |

The others are excepted by name from a property that passes, which then says how far
they reach.

| Code | Documentation | What happens | What holds |
|---|---|---|---|
| `replaycache.go:278` | `261`: `Insert` of a live entry is a no-op | it overwrites the entry, possibly with an earlier expiry | nothing else moves the expiry of a live entry (`ExpiryKept`) |
| `state_machine.go:281` | `78`, `211`: in Messaging application data can flow | a server that verifies ClientFinished or authorizes rejects it with an error | nobody else rejects data (`DataRejectedOnlyEarly`) |
| `state_machine.go:440` | `439`, `460`: waiting states have a deadline, and `CheckTimeout` is about the current state | the deadline of the handshake is still set in Messaging, so a driver must not poll it there | waiting states have one (`TypeOK`) and end by it (`HandshakeEnds`) |
| `state_machine.go:86` | `83`: `IsIdentityVerified` is true if the identity has been verified | true in Closing, whatever happened before | right in all other states (`ExactExchange`) |
| `pipeline.go:647` | `651`: what Phase 18 ignores is not critical | a critical extension is ignored if the negotiated types change after Phase 17 | not if they do not (`CriticalExtensionsRun`) |
| `cbor.go:401` | `testvectors_test.go:719-723`: an array of 0xFFFFFFFF items without data is rejected | `Decode` does, `CheckCanonical` first allocates all of it, some 600 GB | it fails to return only for arrays beyond memory and eight-byte lengths (`DecodersAgree`) |
| `cbor.go:285` | `17`, `276`: shorter encodings of keys first | keys are compared bytewise only: 24 (two bytes) comes before -1 (one byte) | one value has one encoding (`EncodingIsFaithful`) |
| `cbor.go:411` | `319`, with rule 2 (`17`): `CheckCanonical` validates canonical CBOR | it does not look at the order of keys | with ascending keys it accepts only what `Encode` writes, `undefined` and keys of 2^63 and more apart (`AcceptedReencodes`) |
| `closemanager.go:352` | `55`: QUIC has been closed in `Closed` | a responder is `Closed` with QUIC open and is never told to close it | the connection ends all the same (`ClosedLetsGo`) |
| `identity.go:121` | `121`: `record_version` is replay protection | nothing compares it | – |

## 4. Proofs

All theorems are for every value of the constants, under the assumptions named
in the modules: capacity, retention, batch size and timeouts positive, the two
endpoints different, `Truncate` idempotent, the size limits together below half
a word, buffers well typed, and what section 2 says of records, hellos and
replacements. The proofs of the cache need neither the clock bound nor finitely
many keys, since the map stays finite by itself; the other bounds on counters
(frames under way, changes of messages, clocks) occur in no proof except as types.
Each inductive invariant was checked by TLC on the run's instance first.

* `HandshakeReplayProofs`, the cache. `IndInv`: types, finiteness and the bound; the time a call
  read is never ahead of the clock (`NowNotAhead`); an entry is exactly the trace
  of the last write of its key (`EntriesStamped`); a protected key is present
  (`ProtectedPresent`). That a stale call drops only what has expired needs
  `NowNotAhead`, and that a reuse is justified needs `EntriesStamped`. Every locked section is a sweep (`LazyEvictSweeps`) followed by
  at most one insertion (`MakeRoomFits`, `PutAddsOne`). Proved: `TypeOK`,
  `BoundedEntries`, and from the invariant the action properties `ExpiryKept`,
  `NoEarlyReadmission`, `NoFalseReuse` and `LossOnlyWhenFull`. The last one rests on
  `InsertionRoom`: if making room drops a live entry, then as many entries were left
  as the cache had before, so the sweep in front of it dropped none.
* `HandshakeReplayProofs`, the handlers. Every step of a handler or sweeper is a step of the cache
  (`HandlersCallTheCache`), so `IndInv` carries over. `HInv` adds: a handler waits for
  the call its phase says, about its own hello (`PhaseCalls`); only admissions write
  to the cache (`StampsAreAdmissions`, hence `ReuseMeansAdmitted`); the key of an
  admitted hello was not written with an older time since, unless its retention was
  over (`AdmissionKept`). `AtomicAdmitsOnce` is not inductive without it: a stale
  insertion moves the time of a key back, which is harmless only because the key was
  unprotected then. Proved: `HTypeOK`, `AtomicAdmitsOnce`, `ReuseMeansAdmitted` and
  the refinement `ImplementsRegistry`, with one lemma for each kind of step (a lookup
  that finds the key refuses, an insertion admits, everything else forgets expired
  keys or changes nothing the registry sees).
* `CloseConnectionProofs`. `IndInv`: types; each queue agrees with what its sender
  has done (`GoodQueue`: a CLOSE in it is the one the sender sent, and only ERRORs
  follow); each endpoint's manner of closing agrees with its manager and its peer
  (`Manner`). The last conjunct of `Manner`, that a Closed manager on a working
  link has responded, is what turns "no two responders" into
  `BothClosedMeansDown`. Proved: all five invariants of `close_connection`.
* `FramePipelineProofs`. `IndInv`: types; behind Phase 1 the header is complete,
  behind Phase 4 the lengths are checked as unsigned numbers, behind Phase k the
  context has said yes in it; no extension before Phase 15, no callback before
  Phase 18, none for a handshake; a result exactly at the end. Each phase either
  goes on (`Proceeds`) or fails in one of two ways (`Refused`). `OversizedIsRefused`
  needs that only frames with a complete header reach `frame.Decode`, since its
  first two errors would be fatal. `LoopInv` is about the loop
  of Phase 18: callbacks have run in the order of the extensions, the two counters
  add up to the extensions passed, and while the context has not changed what Phases
  16 and 17 checked still holds, the snapshot is current and every extension passed
  that has a callback was handed to it (`ContextHeld`). `EveryExtensionOnce` and
  `CriticalExtensionsRun` speak of the end only and need all of it on the way.
  Proved: all seven invariants of `frame_pipeline`.
* `TruncateMessageProofs`. The two loops are recursive functions; that they have a
  value at every index, and what it is, is shown with the least index at which it
  would be wrong (the natural numbers are well founded), not with the library's
  induction theorems. A cut at the start of a rune is valid and keeps the longest
  prefix (`CutAtStartIsValid`, `LongestPrefix`); what the fallback puts together out
  of whole runes is valid (`RunesAreWhole`, `FallbackIsValid`). Proved: `FitsInFrame`,
  `CutIsValid`, `LongestPrefixKept` for messages up to any length and any limit, and
  `TruncateIdempotent`.
* `HandshakeSessionProofs`. `IndInv`: types; the duplicate flags tell which messages
  were handled and in which states they may be set; a ServerHello under way means
  that the server has verified and passed ShSent, a ClientFinished that the client
  is past CfSent, and DATA travels behind it. The last part ties one end's queue to
  the other's state, and without it `DataRejectedOnlyEarly` is not inductive. Only
  `TimeoutAssumption` is needed. Proved: `TypeOK`, `ExactExchange`,
  `DataRejectedOnlyEarly` and the action property `NoRevival`.
* `HandshakeTranscriptProofs`. `IndInv`: what each end holds is tied to the hash it
  has reached (`ClientEnd`, `ServerEnd`); every signature on the way was made by some
  end over a hash that end had reached (`Genuine`, `Made`); an end that is done
  agrees with the other (`Agreed`); a connection nobody has disturbed is at one of
  five points of the exchange (`Undisturbed`). `Agreement` alone is not inductive: that
  a signature a client accepts comes from the server of *its* connection, about *its*
  ClientHello, follows from `Made` together with three facts about the code. Hashes
  tell everything folded into them (`HashesTell`); the bytes of a hello tell its
  fields (`ClientHelloTold`, `ServerHelloTold`), although a decoder fills in zeros;
  and no step takes back what was signed (`GenuineKept`). For `NoFalseReject` the
  round trips (`ClientHelloRoundTrip` and its siblings) show that what was sent is
  accepted. Proved: `Agreement` and `NoFalseReject`, for any connections, hellos and
  any number of changes and exchanges.
* `AgentRecordProofs`. `IndInv`: an entry of the document on its way comes, at its
  key, from one of the signed documents or from the replacements (`Patched`); the
  holder's record is what the document decodes to (`Decoded`). So a signature that
  verifies is an agent's, and since the encoding without the signature is injective
  the record is the one it signed; one from before Rev 6 does not verify, since what
  was signed has no key 10 and what is compared has one (`LegacyInputDiffers`). `WarningForetells` is arithmetic modulo any word
  size, on times that `Patched` and the decoder keep in range. Proved:
  `VerifiedMeansSigned` and `WarningForetells`.

* `WireFormatProofs`. `WireInv` is small: the message is one of the given ones or
  `NoMessage`, and what was received are bytes within the limit of its section. The
  work is about the functions. The decoders are recursive functions of the position,
  and that such a function has a value is itself to be shown: its values from `k` on
  are fixed by those from `k + 1` on, so a solution exists for every `k` by induction
  from the end of the data (`DownInduction`, on the set of good positions, from the
  least counterexample), provided that every item moves forward (`ItemAtAdvances`).
  From the same induction: `ItemsAgree` (where the canonical decoder returns a value
  the other one returns the same, element by element through the loops) and
  `ItemsNoPanic` (a head without an eight-byte argument claims less than 2^32, so no
  sum wraps; what is left is the allocation of an array, which the canonical decoder
  does not check, for any `CanAllocate`). For sections: one extension in
  front of anything is read back (`EncodeExtension` against `ExtensionAt`), a whole
  list by induction on its length, and conversely what was decoded takes all the
  bytes (`SectionTiles`). For frames, the six parts of the header are found at their
  offsets whatever follows. Proved: `FrameArrives`, `ExtensionsTile`,
  `DecodersAgree`; and about heads alone `HeadsReadBack` and `OnlyEncodedHeads`: each
  64-bit argument has exactly one head that the canonical decoder accepts, the one
  `encodeHead` writes. Assumed: the two limits together are below 2^24, where `Huge`
  lies (`FrameSizes`; the code has 2^20 and 2^16); payload encodings and pieces are
  bytes; header fields are bytes and extension types are 16 bits wide.

Only model-checked: liveness (`ClosingEnds`, `ClosedLetsGo`, `HandshakeEnds`), which
the prover does not reach; and the two properties of `PayloadFormat`,
`EncodingIsFaithful` and `AcceptedReencodes`, which compare nested values with what
`encodeValue` makes of them. That operator is `RECURSIVE` over the nesting of a value
and not over positions; a proof would be an induction over values. `HeadsReadBack` and
`OnlyEncodedHeads` are what it would rest on.

## 5. Not modelled

`mldsa` wraps a library: sizes, signing and verification are terms of
`SignedDocument`; key generation, the deterministic variant, key serialisation and
the library's errors are left out. Of `errors` only the codes the pipeline uses are
modelled. The fixture generator is straight-line output, and the test packages hold
no logic of the system. In the modelled files: names, error texts, `String` methods,
plain accessors and setters, `TestingContext`. The limit of 2^32 bytes on the data of
one extension lies above the limit of a section.

There is no code in the repository that connects the parts, neither one that hands a
connection over from the handshake machine to the close manager nor one that stores
records. The drivers of the models are as liberal as the comments allow; a model of
one particular driver would be a model of nothing in the source.

## 6. Plan

Done, in this order: replay cache with its proofs; replay checker; close manager,
connection and proofs; truncation; handshake machines and session; pipeline and
proofs; codecs on bytes; transcript; records; the registry, its refinement and their
proofs; proofs of truncation, session, transcript and records; the codecs with
recursive functions in place of `RECURSIVE` operators, and their proofs. Worth doing
next:

1. `CloseProtocol`: an abstract two-party close that `CloseConnection` implements, with
   the refinement in `CloseConnectionProofs`.
2. `encodeValue` as a function of the depth of a value, so that `EncodingIsFaithful` can
   be proved by induction on the depth, from `HeadsReadBack`.
