----------------------------- MODULE WireFormat -----------------------------
(***************************************************************************)
(* Frames that carry extensions and a payload, from one side's encoders to *)
(* the other side's decoders.  A behaviour either has a message to send,   *)
(* or receives bytes of unknown origin piece by piece, as the payload or   *)
(* as the extension section of some frame, within the size that            *)
(* frame.Decode lets through.  The encoder of the payloads is a parameter  *)
(* (PayloadFormat has the one of cbor.go).                                 *)
(***************************************************************************)
EXTENDS FrameBytes

CONSTANTS
    Encode(_),      \* the bytes of a payload
    Payloads,       \* the payloads sent
    Headers,        \* type and flags of a frame, and its extensions
    Pieces,         \* what is received -> the byte strings it is made of
    MaxPieces,      \* bound on their number
    KnownTypes      \* extension types the receiver understands

Sections == {"payload", "extensions"}

Uint16 == 0..(256 * 256 - 1)

Extensions == [extType : Uint16, critical : BOOLEAN, data : Seq(Byte)]

ASSUME PayloadsAssumption == \A v \in Payloads \cup {Null} : Encode(v) \in Seq(Byte)

ASSUME HeadersAssumption ==
    \A h \in Headers : h.frameType \in Byte /\ h.flags \in Byte /\ h.exts \in Seq(Extensions)

ASSUME PiecesAssumption ==
    /\ MaxPieces \in Nat
    /\ DOMAIN Pieces = Sections
    /\ \A s \in Sections : \A piece \in Pieces[s] : piece \in Seq(Byte)

VARIABLES
    source,         \* "sender", or what the bytes received are taken for
    msg,            \* the message sent: header, payload; and some other payload
    data,           \* the bytes received,
    received        \* in so many pieces

vars == <<source, msg, data, received>>

NoMessage == [header |-> [frameType |-> 1, flags |-> 0, exts |-> <<>>],
              payload |-> Null, other |-> Null]

Messages == [header : Headers, payload : Payloads, other : {Null}]
            \cup [header : {NoMessage.header}, payload : Payloads, other : Payloads]

MaxSectionSize == IF source = "payload" THEN MaxPayloadSize ELSE MaxExtensionSize

Init ==
    /\ data = <<>> /\ received = 0
    /\ \/ source = "sender" /\ msg \in Messages
       \/ source \in Sections /\ msg = NoMessage

Receive(piece) ==
    /\ source # "sender"
    /\ received < MaxPieces
    /\ Len(data) + Len(piece) <= MaxSectionSize
    /\ data' = data \o piece
    /\ received' = received + 1
    /\ UNCHANGED <<source, msg>>

Next == source # "sender" /\ \E piece \in Pieces[source] : Receive(piece)

Spec == Init /\ [][Next]_vars

-----------------------------------------------------------------------------
(* What the properties compare *)

\* The frame of a message.
FrameOf(m) ==
    [version |-> Version, frameType |-> m.header.frameType, flags |-> m.header.flags,
     streamID |-> Small(4), extensions |-> EncodeExtensions(m.header.exts),
     payload |-> Encode(m.payload)]

\* An eight-byte length may be encoded in data.
HasGreatLength ==
    \E i \in DOMAIN data : data[i] >= mtByteStr /\ data[i] % 32 = aiEightBytes

\* The byte at i, taken for the head of an array, claims more elements than can
\* be allocated.
GreatArrayAt(bytes, i) ==
    LET head == readArg(bytes, i, bytes[i] % 32)
    IN  (bytes[i] \div 32) * 32 = mtArray /\ head.res = "ok" /\ ~CanAllocate(head.arg)

HasGreatArray == \E i \in DOMAIN data : GreatArrayAt(data, i)

-----------------------------------------------------------------------------
(* Properties *)

\* Whatever follows it in the buffer, an encoded frame decodes to the same
\* header, extension section and payload and takes exactly its own bytes; a
\* critical frame of unknown type is refused instead (frame.go:62-149).  The
\* section decodes to the extensions that were encoded (frameext.go:28-79).
\* Only a frame that is too large is not encoded.
FrameArrives ==
    source = "sender" =>
        LET f == FrameOf(msg)
            sent == EncodeFrame(f)
            got == DecodeFrame(sent.bytes \o <<1, 255>>)
            exts == DecodeExtensions(got.v.extensions)
        IN  IF sent.res # "ok"
            THEN Len(f.payload) > MaxPayloadSize \/ Len(f.extensions) > MaxExtensionSize
            ELSE IF IsCriticalUnknownFrameType(f.frameType, f.flags) THEN got = Fail
            ELSE /\ got = Value(f, Len(sent.bytes))
                 /\ exts = Value(msg.header.exts, Len(f.extensions))

\* The two decoders agree: what the canonical one accepts, as value and as
\* length, the other one returns (cbor.go:349-476, 544-666).  As long as no
\* length needs eight bytes, the plain decoder returns whatever the bytes, and
\* the canonical one unless an array claims more elements than memory holds.
DecodersAgree ==
    source = "payload" =>
        LET canonical == decodeValueCanonical(data, 0)
            plain == decodeValue(data, 0)
        IN  /\ canonical.res = "ok" => plain = canonical
            /\ plain.res = "panic" => HasGreatLength
            /\ canonical.res = "panic" => HasGreatLength \/ HasGreatArray

\* The extensions decoded from a section are laid out over all of its bytes,
\* none skipped and none read twice, and encoding them again gives a section
\* of the same length that decodes to the same list (frameext.go:28-79).
\* FindUnknownCritical misses an unknown critical one only if the first of
\* them has type 0 (frameext.go:84-100).
ExtensionsTile ==
    source = "extensions" =>
        LET got == DecodeExtensions(data)
            again == EncodeExtensions(got.v)
        IN  got.res = "ok" =>
                /\ Len(again) = Len(data)
                /\ DecodeExtensions(again) = got
                /\ \A i \in DOMAIN got.v :
                      got.v[i].critical /\ got.v[i].extType \notin KnownTypes =>
                          LET found == FindUnknownCritical(got.v, KnownTypes)
                          IN  /\ FindExtension(got.v, found) \in 1..i
                              /\ found \notin KnownTypes
=============================================================================
