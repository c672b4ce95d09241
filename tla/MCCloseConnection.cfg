CONSTANTS
    a = a  b = b
    fits = fits  long = long  cut = cut
    A = a
    B = b
    Payloads = {fits, long, cut}
    Truncate <- MCTruncate
    CloseTimeout = 2
    MaxCloseMessageLen = 4
    MaxLen = 7
    QueueBound = 3
SPECIFICATION MCSpec
INVARIANTS TypeOK CloseIsLastWord ResponderHasInitiator BothClosedMeansDown PayloadAsSaid
INVARIANTS FitsInFrame CutIsValid LongestPrefixKept
PROPERTIES ClosingEnds ClosedLetsGo
