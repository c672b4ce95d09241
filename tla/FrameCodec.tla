----------------------------- MODULE FrameCodec -----------------------------
(***************************************************************************)
(* Decoding the header of a frame (frame/frame.go) and the error codes of  *)
(* errors/errors.go.  A buffer as it arrives is a record: its length and   *)
(* the fields of its header, the two lengths being the unsigned 64-bit     *)
(* numbers the sender claims; `canonical' is how cbor.CheckCanonical ends, *)
(* which may panic (module Cbor), and `wellFormed' and `exts' are what     *)
(* frameext.Decode makes of the body, if they get to see it.               *)
(* Conversions between uint64 and int wrap at HalfWord (2^63 in the code). *)
(***************************************************************************)
EXTENDS Integers, Sequences

CONSTANTS
    HalfWord,           \* 2^63
    HeaderSize,         \* 28
    MaxPayloadSize,     \* 1 MiB
    MaxExtensionSize,   \* 64 KiB
    ExtTypes            \* extension types

ASSUME WordAssumption == HalfWord \in Nat \ {0}
ASSUME SizeAssumption ==
    /\ HeaderSize \in Nat /\ MaxPayloadSize \in Nat /\ MaxExtensionSize \in Nat
    /\ HeaderSize + MaxPayloadSize + MaxExtensionSize < HalfWord

\* RPC stands for the types that carry CBOR (RPC_REQUEST, RPC_RESPONSE, CLOSE,
\* ERROR), DATA for the opaque ones (DATA, PING, PONG), UNKNOWN for the rest.
FrameTypes == {"DATA", "HANDSHAKE", "RPC", "UNKNOWN"}

Extension == [type : ExtTypes, critical : BOOLEAN]

uint64 == 0..(2 * HalfWord - 1)

Buffers ==
    [len : Nat, version : BOOLEAN, reserved : BOOLEAN,
     type : FrameTypes, critical : BOOLEAN, payloadLen : uint64, extLen : uint64,
     canonical : {"ok", "error", "panic"}, wellFormed : BOOLEAN,
     exts : Seq(Extension)]

int(x) == IF x < HalfWord THEN x ELSE x - 2 * HalfWord

\* safeAdd64 fails.
AddOverflows(a, b) == a > 2 * HalfWord - 1 - b

isValidFrameType(type) == type # "UNKNOWN"

FrameSize(d) == HeaderSize + (d.extLen + d.payloadLen)

DecodeError_UnlimitedExtensions(d) ==
    IF d.len < HeaderSize THEN "short header"
    ELSE IF ~d.version THEN "invalid version"
    ELSE IF d.payloadLen > MaxPayloadSize THEN "payload too large"
    ELSE IF AddOverflows(d.extLen, d.payloadLen) THEN "length overflow"
    ELSE IF AddOverflows(HeaderSize, d.extLen + d.payloadLen) THEN "length overflow"
    ELSE IF d.len < FrameSize(d) THEN "incomplete"
    ELSE IF ~isValidFrameType(d.type) /\ d.critical THEN "unknown critical frame type"
    ELSE "none"

\* The error frame.Decode returns, "none" for nil.
DecodeError(d) ==
    IF d.len < HeaderSize THEN "short header"
    ELSE IF ~d.version THEN "invalid version"
    ELSE IF d.payloadLen > MaxPayloadSize THEN "payload too large"
    ELSE IF d.extLen > MaxExtensionSize THEN "extension section too large"
    ELSE IF AddOverflows(d.extLen, d.payloadLen) THEN "length overflow"
    ELSE IF AddOverflows(HeaderSize, d.extLen + d.payloadLen) THEN "length overflow"
    ELSE IF d.len < FrameSize(d) THEN "incomplete"
    ELSE IF ~isValidFrameType(d.type) /\ d.critical THEN "unknown critical frame type"
    ELSE "none"

-----------------------------------------------------------------------------
(* Error codes *)

Codes == {"MalformedFrame", "InvalidVersion", "ReservedFieldNonzero",
          "FrameTooLarge", "UnknownCriticalFrameType", "SerializationError",
          "HandshakeFailed", "InvalidSignature", "InvalidAgentId",
          "ProtocolViolation", "Unauthorized", "InsufficientCapability",
          "UnknownCriticalExtension", "InvalidFlags"}

\* The 2xxx codes and four others.
IsAlwaysFatal(code) ==
    code \in {"HandshakeFailed", "InvalidSignature", "InvalidAgentId",
              "UnknownCriticalFrameType", "UnknownCriticalExtension",
              "InvalidVersion", "ProtocolViolation"}
=============================================================================
