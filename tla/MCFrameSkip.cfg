CONSTANTS
    x = x  y = y
    ExtTypes = {x, y}
    HalfWord = 16
    HeaderSize = 2
    MaxPayloadSize = 4
    MaxExtensionSize = 3
    Buf <- Bodies
    Callbacks <- MCCallbacks
    Renegotiation = FALSE
SPECIFICATION Spec
INVARIANTS UnknownFramesAreSkipped
CHECK_DEADLOCK FALSE
