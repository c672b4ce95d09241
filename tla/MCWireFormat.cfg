CONSTANTS
    MaxPayloadSize = 27
    MaxExtensionSize = 24
    KnownTypes = {1}
    MaxPieces = 3
    CanAllocate <- MCCanAllocate
    Encode <- CborEncode
    Payloads <- MCPayloads
    Headers <- MCHeaders
    Pieces <- MCPieces
SPECIFICATION Spec
INVARIANTS FrameArrives EncodingIsFaithful DecodersAgree AcceptedReencodes ExtensionsTile
CHECK_DEADLOCK FALSE
