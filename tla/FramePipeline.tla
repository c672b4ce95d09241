--------------------------- MODULE FramePipeline ---------------------------
(***************************************************************************)
(* The frame processing pipeline of pipeline/pipeline.go, one step per     *)
(* phase.  The pipeline keeps nothing from one frame to the next, so a     *)
(* behaviour is one call of Process.                                       *)
(*                                                                         *)
(* The PipelineContext belongs to the connection and is asked anew in each *)
(* phase, so that it may answer differently from phase to phase.  What it  *)
(* says of signature, identity, session, authorization, capabilities and   *)
(* transcript is chosen when it is asked; the known and the negotiated     *)
(* extension types are variables, because two phases ask for each, and     *)
(* Renegotiate changes them at any time if Renegotiation is TRUE.          *)
(***************************************************************************)
EXTENDS FrameCodec

CONSTANTS
    Buf,            \* the buffers that may arrive
    Callbacks,      \* p.callbacks: the extension type of each
    Renegotiation   \* may the extension sets change during Process

ASSUME BufAssumption == Buf \subseteq Buffers
ASSUME CallbacksAssumption == Callbacks \in Seq(ExtTypes)
ASSUME RenegotiationAssumption == Renegotiation \in BOOLEAN

VARIABLES
    pc,             \* the phase to run next, 0 after the call
    data,           \* the buffer
    exts,           \* parsedExts
    known,          \* ctx.KnownExtensionTypes()
    negotiated,     \* ctx.NegotiatedExtensionTypes()
    snapshot,       \* what Phase 18 read of the latter
    next,           \* the extension Phase 18 turns to, 0 before its loop
    callbackCount, ignoredCount,
    result,         \* what the call returned, or that it panicked
    passed,         \* history: phases that asked the context and went on
    ran,            \* history: <<extension, callback>> for each Process call
    changed         \* history: the extension sets changed during the call

vars == <<pc, data, exts, known, negotiated, snapshot, next, callbackCount,
          ignoredCount, result, passed, ran, changed>>
context == <<known, negotiated, changed>>
loop == <<snapshot, next, callbackCount, ignoredCount, ran>>

Results ==
    {[kind |-> "none"], [kind |-> "frame"], [kind |-> "panic"]}
        \cup [kind : {"error"}, phase : 1..20, code : Codes, fatal : BOOLEAN]

Done == 0

\* A call of Process begins.
Init ==
    /\ pc = 1
    /\ data \in Buf
    /\ exts = <<>>
    /\ known \in SUBSET ExtTypes
    /\ negotiated \in SUBSET ExtTypes
    /\ snapshot = {}
    /\ next = 0
    /\ callbackCount = 0 /\ ignoredCount = 0
    /\ result = [kind |-> "none"]
    /\ passed = {} /\ ran = <<>> /\ changed = FALSE

Renegotiate ==
    /\ Renegotiation
    /\ pc # Done
    /\ known' \in SUBSET ExtTypes
    /\ negotiated' \in SUBSET ExtTypes
    /\ changed' = TRUE
    /\ UNCHANGED <<pc, data, exts, loop, result, passed>>

-----------------------------------------------------------------------------
(* How a phase ends *)

Fail(code, fatal) ==
    /\ result' = [kind |-> "error", phase |-> pc, code |-> code, fatal |-> fatal]
    /\ pc' = Done

\* The call does not return: a panic of a callee passes through Process.
Panic == result' = [kind |-> "panic"] /\ pc' = Done

Goto(phase) == pc' = phase /\ UNCHANGED result

\* The phases up to 17 leave the loop of Phase 18 and the context alone.
Plain(phase) == pc = phase /\ UNCHANGED <<data, loop, context>>

-----------------------------------------------------------------------------
(* Phases 1 to 8 *)

validateFrameHeader ==
    /\ Plain(1)
    /\ IF data.len < HeaderSize THEN Fail("MalformedFrame", TRUE)
       ELSE IF ~data.version THEN Fail("InvalidVersion", TRUE)
       ELSE IF ~data.reserved THEN Fail("ReservedFieldNonzero", TRUE)
       ELSE Goto(2)
    /\ UNCHANGED <<exts, passed>>

\* The lengths have become signed by now.
TooLarge(d) ==
    int(d.payloadLen) > MaxPayloadSize \/ int(d.extLen) > MaxExtensionSize

LengthPhase(phase) ==
    /\ Plain(phase)
    /\ IF TooLarge(data) THEN Fail("FrameTooLarge", FALSE) ELSE Goto(phase + 1)
    /\ UNCHANGED <<exts, passed>>

validateLengths == LengthPhase(2)

rejectOversizedBeforeAllocation == LengthPhase(3)

OversizeErrors == {"payload too large", "extension section too large"}

\* The code tells frame.Decode's errors apart by their text.
CodeOf_NoDefault(err) ==
    IF err \in OversizeErrors THEN "FrameTooLarge"
    ELSE IF err = "invalid version" THEN "InvalidVersion"
    ELSE IF err = "unknown critical frame type" THEN "UnknownCriticalFrameType"
    ELSE "0"

CodeOf(err) ==
    IF err \in OversizeErrors THEN "FrameTooLarge"
    ELSE IF err = "invalid version" THEN "InvalidVersion"
    ELSE IF err = "unknown critical frame type" THEN "UnknownCriticalFrameType"
    ELSE "MalformedFrame"

readFrame_NeverFatal ==
    LET err == DecodeError(data)
    IN  /\ Plain(4)
        /\ IF err = "none" THEN Goto(6) ELSE Fail(CodeOf(err), FALSE)
        /\ UNCHANGED <<exts, passed>>

readFrame ==
    LET err == DecodeError(data)
    IN  /\ Plain(4)
        /\ IF err = "none" THEN Goto(6) ELSE Fail(CodeOf(err), err \notin OversizeErrors)
        /\ UNCHANGED <<exts, passed>>

\* Only these payloads are CBOR, and an empty one is not looked at.
IsCborPayload(d) == d.type \in {"HANDSHAKE", "RPC"} /\ d.payloadLen # 0

validateCbor ==
    /\ Plain(6)
    /\ CASE ~IsCborPayload(data) \/ data.canonical = "ok" -> Goto(9)
         [] IsCborPayload(data) /\ data.canonical = "error" -> Fail("SerializationError", TRUE)
         [] IsCborPayload(data) /\ data.canonical = "panic" -> Panic
    /\ UNCHANGED <<exts, passed>>

-----------------------------------------------------------------------------
(* Phases 9 to 14 *)

\* The context says yes and the pipeline goes on, or it says no.
Ask(phase, code) ==
    /\ Plain(phase)
    /\ \/ Goto(phase + 1) /\ passed' = passed \cup {phase}
       \/ Fail(code, TRUE) /\ UNCHANGED passed
    /\ UNCHANGED exts

validateTranscriptState ==
    \/ data.type = "HANDSHAKE" /\ Ask(9, "HandshakeFailed")
    \/ data.type # "HANDSHAKE" /\ Plain(9) /\ Goto(10) /\ UNCHANGED <<exts, passed>>

verifySignatures           == Ask(10, "InvalidSignature")
verifyAgentId              == Ask(11, "InvalidAgentId")
verifySessionState         == Ask(12, "ProtocolViolation")
verifyAuthorization_Skipped ==
    Plain(13) /\ Goto(14) /\ UNCHANGED <<exts, passed>>

verifyAuthorization        == Ask(13, "Unauthorized")
verifyRequiredCapabilities == Ask(14, "InsufficientCapability")

-----------------------------------------------------------------------------
(* Phases 15 to 20 *)

decodeExtensions ==
    /\ Plain(15)
    /\ IF data.extLen = 0 THEN Goto(16) /\ exts' = <<>>
       ELSE IF data.type = "HANDSHAKE" THEN Fail("ProtocolViolation", TRUE) /\ UNCHANGED exts
       ELSE IF ~data.wellFormed THEN Fail("MalformedFrame", TRUE) /\ UNCHANGED exts
       ELSE Goto(16) /\ exts' = data.exts
    /\ UNCHANGED passed

checkUnknownCritical ==
    /\ Plain(16)
    /\ IF \E i \in 1..Len(exts) : exts[i].critical /\ exts[i].type \notin known
       THEN Fail("UnknownCriticalExtension", TRUE)
       ELSE Goto(17)
    /\ UNCHANGED <<exts, passed>>

checkNonNegotiated_NonCritical ==
    /\ Plain(17)
    /\ IF \E i \in 1..Len(exts) :
             ~exts[i].critical /\ exts[i].type \in known \ negotiated
       THEN Fail("InvalidFlags", TRUE)
       ELSE Goto(18)
    /\ UNCHANGED <<exts, passed>>

checkNonNegotiated ==
    /\ Plain(17)
    /\ IF \E i \in 1..Len(exts) : exts[i].type \in known \ negotiated
       THEN Fail("InvalidFlags", TRUE)
       ELSE Goto(18)
    /\ UNCHANGED <<exts, passed>>

HasCallback(type) == \E c \in 1..Len(Callbacks) : Callbacks[c] = type

\* Callback c is the first one registered for the type, which is used.
IsCallbackFor(c, type) ==
    Callbacks[c] = type /\ \A o \in 1..(c - 1) : Callbacks[o] # type

Handled(e) == e.type \in snapshot /\ HasCallback(e.type)

Loop == pc = 18 /\ UNCHANGED <<data, exts, context, passed>>

\* Phase 18 reads the negotiated types once, before its loop.
startExtensions ==
    /\ Loop
    /\ next = 0
    /\ next' = 1
    /\ snapshot' = negotiated
    /\ UNCHANGED <<pc, callbackCount, ignoredCount, result, ran>>

\* Not negotiated, or no callback registered.
ignoreExtension ==
    /\ Loop
    /\ next \in 1..Len(exts)
    /\ ~Handled(exts[next])
    /\ ignoredCount' = ignoredCount + 1
    /\ next' = next + 1
    /\ UNCHANGED <<pc, snapshot, callbackCount, result, ran>>

runCallback_Continues ==
    /\ Loop
    /\ next \in 1..Len(exts)
    /\ Handled(exts[next])
    /\ \E c \in 1..Len(Callbacks) :
          IsCallbackFor(c, exts[next].type) /\ ran' = Append(ran, <<next, c>>)
    /\ \/ callbackCount' = callbackCount + 1
       \/ UNCHANGED callbackCount
    /\ next' = next + 1
    /\ UNCHANGED <<pc, result, snapshot, ignoredCount>>

\* cb.Process succeeds, or its error ends the call: the callbacks that ran
\* before are not undone.
runCallback ==
    /\ Loop
    /\ next \in 1..Len(exts)
    /\ Handled(exts[next])
    /\ \E c \in 1..Len(Callbacks) :
          IsCallbackFor(c, exts[next].type) /\ ran' = Append(ran, <<next, c>>)
    /\ \/ /\ callbackCount' = callbackCount + 1
          /\ next' = next + 1
          /\ UNCHANGED <<pc, result>>
       \/ /\ Fail("ProtocolViolation", TRUE)
          /\ UNCHANGED <<callbackCount, next>>
    /\ UNCHANGED <<snapshot, ignoredCount>>

endExtensions ==
    /\ Loop
    /\ next = Len(exts) + 1
    /\ Goto(19)
    /\ UNCHANGED loop

processExtensionSemantics ==
    startExtensions \/ ignoreExtension \/ runCallback \/ endExtensions

\* The final check is an empty hook, and delivery is the return.
validateFinalState_Refuses ==
    /\ Plain(19)
    /\ \/ result' = [kind |-> "frame"] /\ pc' = Done
       \/ Fail("ProtocolViolation", TRUE)
    /\ UNCHANGED <<exts, passed>>

validateFinalState ==
    /\ Plain(19)
    /\ result' = [kind |-> "frame"] /\ pc' = Done
    /\ UNCHANGED <<exts, passed>>

-----------------------------------------------------------------------------
Phase ==
    \/ validateFrameHeader \/ validateLengths \/ rejectOversizedBeforeAllocation
    \/ readFrame \/ validateCbor
    \/ validateTranscriptState \/ verifySignatures \/ verifyAgentId
    \/ verifySessionState \/ verifyAuthorization \/ verifyRequiredCapabilities
    \/ decodeExtensions \/ checkUnknownCritical \/ checkNonNegotiated
    \/ processExtensionSemantics \/ validateFinalState

Next == Phase \/ Renegotiate

Spec == Init /\ [][Next]_vars

-----------------------------------------------------------------------------
(* Properties *)

\* Every variable has its type; Phases 5, 7 and 8 have no step of their own, and
\* the loop of Phase 18 has not begun before it.
TypeOK ==
    /\ pc \in {Done, 1, 2, 3, 4, 6} \cup 9..19
    /\ data \in Buffers
    /\ exts \in Seq(Extension)
    /\ known \subseteq ExtTypes /\ negotiated \subseteq ExtTypes
    /\ snapshot \subseteq ExtTypes
    /\ next \in 0..(Len(exts) + 1)
    /\ pc \in 1..17 => next = 0
    /\ callbackCount \in Nat /\ ignoredCount \in Nat
    /\ result \in Results
    /\ passed \subseteq 9..14
    /\ ran \in Seq((Nat \ {0}) \X (Nat \ {0}))
    /\ changed \in BOOLEAN

\* The security invariant of the package comment (pipeline.go:8-14):
\* "Extension semantics MUST NOT execute before successful authentication and
\* authorization": once a callback ran, the context has confirmed signature,
\* identity, session, authorization and capabilities for this very frame, and
\* the frame is no handshake.
ExtensionsAfterAuthorization ==
    ran # <<>> => 10..14 \subseteq passed /\ data.type # "HANDSHAKE"

Oversized(d) == d.payloadLen > MaxPayloadSize \/ d.extLen > MaxExtensionSize

\* No claimed length gets a body read that is larger than the limits or than
\* the buffer, not even one that is negative as an int and passes Phases 2 and
\* 3; and it is always answered with FrameTooLarge, which leaves the connection
\* alive (pipeline.go:388-389, 408-445, frame.go:101-122).
OversizedIsRefused ==
    /\ pc >= 6 => ~Oversized(data) /\ FrameSize(data) <= data.len
    /\ (result.kind = "error" /\ result.phase > 1 /\ Oversized(data)) =>
          result.code = "FrameTooLarge" /\ ~result.fatal

\* An error whose code RFC-0005 makes fatal is reported as fatal, whichever
\* phase and whichever text of frame.Decode it comes from
\* (errors.go:66-81, pipeline.go:448-466).
FatalCodesAreFatal ==
    (result.kind = "error" /\ IsAlwaysFatal(result.code)) => result.fatal

\* The caller can tell from an error whether callbacks have had their effects:
\* ExtensionCallbacksInvoked is true exactly then (pipeline.go:140-144).
ErrorTellsCallbacks ==
    result.kind = "error" => (result.phase = 18 <=> ran # <<>>)

\* Callbacks run in the order of the extensions, each at most once and the
\* first one registered; a delivered frame accounts for every extension, and a
\* failed one for all up to the failure (pipeline.go:649-684).
EveryExtensionOnce ==
    /\ \A i \in 1..Len(ran) :
          /\ ran[i][1] \in 1..Len(exts)
          /\ IsCallbackFor(ran[i][2], exts[ran[i][1]].type)
          /\ i > 1 => ran[i - 1][1] < ran[i][1]
    /\ result.kind = "frame" =>
          /\ callbackCount = Len(ran)
          /\ callbackCount + ignoredCount = Len(exts)
    /\ (result.kind = "error" /\ ran # <<>>) =>
          /\ callbackCount = Len(ran) - 1
          /\ ran[Len(ran)][1] = callbackCount + ignoredCount + 1

\* Unless the context changes meanwhile, a frame is delivered only if each of
\* its critical extensions is known and negotiated, and was handed to its
\* callback if there is one: what Phase 18 ignores without a callback was let
\* through by Phases 16 and 17 (pipeline.go:603-684).
CriticalExtensionsRun ==
    (result.kind = "frame" /\ ~changed) =>
        \A i \in 1..Len(exts) : exts[i].critical =>
            /\ exts[i].type \in known \cap negotiated
            /\ HasCallback(exts[i].type) =>
                  \E k \in 1..Len(ran) : ran[k][1] = i

\* The comments of frame.Decode and isValidFrameType: "Unknown + non-critical:
\* decode succeeds, caller MUST skip" (frame.go:126): nothing in such a frame
\* is acted upon.
UnknownFramesAreSkipped ==
    data.type = "UNKNOWN" => ran = <<>> /\ result.kind # "frame"
=============================================================================
