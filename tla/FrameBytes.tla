----------------------------- MODULE FrameBytes -----------------------------
(***************************************************************************)
(* The bytes of a frame (frame/frame.go) and of its extension section      *)
(* (frameext/frameext.go).  FrameCodec has the same frame.Decode with the  *)
(* header as a record, for the pipeline; here it is read from bytes, and   *)
(* what matters is what the two directions make of each other.             *)
(***************************************************************************)
EXTENDS Cbor

CONSTANTS
    MaxPayloadSize,     \* 1 MiB
    MaxExtensionSize    \* 64 KiB

ASSUME FrameSizes ==
    /\ MaxPayloadSize \in Nat /\ MaxExtensionSize \in Nat
    /\ MaxPayloadSize + MaxExtensionSize < Huge

-----------------------------------------------------------------------------
(* frame *)

Version == 1
HeaderSize == 28
FlagCritical == 128

KnownFrameTypes == 1..8

Critical(flags) == (flags \div FlagCritical) % 2 = 1

IsKnownFrameType(ft) == ft \in KnownFrameTypes
IsCriticalUnknownFrameType(ft, flags) == ~IsKnownFrameType(ft) /\ Critical(flags)
IsSkippableUnknownFrameType(ft, flags) == ~IsKnownFrameType(ft) /\ ~Critical(flags)

EncodeFrame_SwapsLengths(f) ==
    IF Len(f.payload) > MaxPayloadSize \/ Len(f.extensions) > MaxExtensionSize THEN Fail
    ELSE [res |-> "ok", bytes |->
            <<f.version, f.frameType, f.flags, 0>> \o f.streamID \o
            Small(Len(f.extensions)) \o Small(Len(f.payload)) \o
            f.extensions \o f.payload]

EncodeFrame(f) ==
    IF Len(f.payload) > MaxPayloadSize \/ Len(f.extensions) > MaxExtensionSize THEN Fail
    ELSE [res |-> "ok", bytes |->
            <<f.version, f.frameType, f.flags, 0>> \o f.streamID \o
            Small(Len(f.payload)) \o Small(Len(f.extensions)) \o
            f.extensions \o f.payload]

\* The frame at the start of data and the bytes it takes.
DecodeFrame(data) ==
    LET payloadLen == Length(SubSeq(data, 13, 20))
        extLen == Length(SubSeq(data, 21, 28))
        total == HeaderSize + extLen + payloadLen
    IN  IF \/ Len(data) < HeaderSize
           \/ data[1] # Version
           \/ payloadLen > MaxPayloadSize
           \/ extLen > MaxExtensionSize
           \/ Len(data) < total
           \/ IsCriticalUnknownFrameType(data[2], data[3])
        THEN Fail
        ELSE Value([version |-> data[1], frameType |-> data[2], flags |-> data[3],
                    streamID |-> SubSeq(data, 5, 12),
                    extensions |-> SubSeq(data, HeaderSize + 1, HeaderSize + extLen),
                    payload |-> SubSeq(data, HeaderSize + extLen + 1, total)], total)

-----------------------------------------------------------------------------
(* frameext: [Type:2B][Critical:1B][Reserved:1B][DataLen:4B][Data:N] *)

ExtHeaderSize == 8

EncodeExtension(ext) ==
    SubSeq(Small(ext.extType), 7, 8) \o
    <<IF ext.critical THEN 1 ELSE 0, 0>> \o
    SubSeq(Small(Len(ext.data)), 5, 8) \o ext.data

EncodeExtensions(exts) == FlattenSeq([i \in DOMAIN exts |-> EncodeExtension(exts[i])])

ExtensionAt_NotAdvanced(data, pos) ==
    LET body == pos + ExtHeaderSize
        dataLen == Length(Word(SubSeq(data, pos + 5, pos + 8)))
    IN  IF Len(data) < body THEN Fail
        ELSE IF Len(data) - body < dataLen THEN Fail
        ELSE Value([extType |-> 256 * data[pos + 1] + data[pos + 2],
                    critical |-> data[pos + 3] = 1,
                    data |-> SubSeq(data, body + 1, body + dataLen)],
                   body)

\* The extension that starts after pos bytes of data.
ExtensionAt(data, pos) ==
    LET body == pos + ExtHeaderSize
        dataLen == Length(Word(SubSeq(data, pos + 5, pos + 8)))
    IN  IF Len(data) < body THEN Fail
        ELSE IF Len(data) - body < dataLen THEN Fail
        ELSE Value([extType |-> 256 * data[pos + 1] + data[pos + 2],
                    critical |-> data[pos + 3] = 1,
                    data |-> SubSeq(data, body + 1, body + dataLen)],
                   body + dataLen)

DecodeExtensions(data) ==
    LET from[pos \in 0..Len(data)] ==
            LET first == ExtensionAt(data, pos)
                rest == from[first.pos]
            IN  IF pos >= Len(data) THEN Value(<<>>, pos)
                ELSE IF first.res # "ok" THEN Fail
                ELSE IF rest.res # "ok" THEN Fail
                ELSE Value(<<first.v>> \o rest.v, rest.pos)
    IN  from[0]

\* The first critical extension whose type is not known, 0 if there is none.
FindUnknownCritical(exts, knownTypes) ==
    LET unknown == {i \in DOMAIN exts :
                       exts[i].critical /\ exts[i].extType \notin knownTypes}
    IN  IF unknown = {} THEN 0 ELSE exts[Min(unknown)].extType

\* The first extension of a type, 0 standing for nil.
FindExtension(exts, extType) ==
    LET found == {i \in DOMAIN exts : exts[i].extType = extType}
    IN  IF found = {} THEN 0 ELSE Min(found)
=============================================================================
