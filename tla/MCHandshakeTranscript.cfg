CONSTANTS
    Conns = {"x1", "x2"}
    ClientHellos <- MCClientHellos
    ServerHellos <- MCServerHellos
    DosProfile = {"x2"}
    Replacements <- MCReplacements
    MaxAlter = 2
SPECIFICATION Spec
INVARIANTS Agreement NoFalseReject
CHECK_DEADLOCK FALSE
