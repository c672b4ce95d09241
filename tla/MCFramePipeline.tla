-------------------------- MODULE MCFramePipeline --------------------------
(* Buffers for FramePipeline.  Heads are whole and broken headers with       *)
(* lengths at every boundary of the 6-bit words; Bodies are complete frames  *)
(* with every list of at most two extensions.  Two callbacks are registered  *)
(* for extension x, none for y.                                              *)
EXTENDS FramePipeline, TLC

CONSTANTS x, y

MCCallbacks == <<x, x>>

Buffer(len, version, reserved, type, critical, payloadLen, extLen) ==
    [len |-> len, version |-> version, reserved |-> reserved, type |-> type,
     critical |-> critical, payloadLen |-> payloadLen, extLen |-> extLen,
     canonical |-> "ok", wellFormed |-> FALSE, exts |-> <<>>]

Around(n) == {n - 1, n, n + 1}

Lengths(max) == {0} \cup Around(max) \cup Around(HalfWord) \cup {2 * HalfWord - 1}

Heads ==
    {Buffer(len, version, reserved, type, critical, payloadLen, extLen) :
        len \in Around(HeaderSize) \cup Around(HeaderSize + MaxPayloadSize + MaxExtensionSize),
        version \in BOOLEAN, reserved \in BOOLEAN,
        type \in {"DATA", "UNKNOWN"}, critical \in BOOLEAN,
        payloadLen \in Lengths(MaxPayloadSize), extLen \in Lengths(MaxExtensionSize)}

Lists == {<<>>} \cup {<<e>> : e \in Extension} \cup Extension \X Extension

Body(type, critical, payloadLen, canonical, wellFormed, list) ==
    [len |-> HeaderSize + payloadLen + Len(list), version |-> TRUE, reserved |-> TRUE,
     type |-> type, critical |-> critical, payloadLen |-> payloadLen,
     extLen |-> Len(list), canonical |-> canonical, wellFormed |-> wellFormed,
     exts |-> list]

Bodies ==
    {Body(type, critical, payloadLen, canonical, wellFormed, list) :
        type \in FrameTypes, critical \in BOOLEAN, payloadLen \in {0, 1},
        canonical \in {"ok", "error", "panic"}, wellFormed \in BOOLEAN, list \in Lists}

HeadsAndBodies == Heads \cup Bodies
=============================================================================
