CONSTANTS
    x = x  y = y
    ExtTypes = {x, y}
    HalfWord = 16
    HeaderSize = 2
    MaxPayloadSize = 4
    MaxExtensionSize = 3
    Buf <- HeadsAndBodies
    Callbacks <- MCCallbacks
    Renegotiation = TRUE
SPECIFICATION Spec
INVARIANTS TypeOK ExtensionsAfterAuthorization FatalCodesAreFatal ErrorTellsCallbacks EveryExtensionOnce CriticalExtensionsRun OversizedIsRefused
CHECK_DEADLOCK FALSE
