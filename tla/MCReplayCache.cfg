CONSTANTS
    p1 = p1  p2 = p2
    a1 = a1  a2 = a2
    n1 = n1  n2 = n2  n3 = n3  bad = bad
    Procs = {p1, p2}
    AgentIDs = {a1, a2}
    Prefix <- MCPrefix
    GoodNonces = {n1, n2, n3}
    BadNonces = {bad}
    Retention = 2
    MaxEntries = 2
    BatchSize = 1
    Ops = {"Check", "CheckAndInsert", "Insert", "EvictExpired", "Clear"}
    MaxClock = 3
SPECIFICATION Spec
SYMMETRY Symmetry
INVARIANTS TypeOK BoundedEntries
PROPERTIES ExpiryKept NoEarlyReadmission NoFalseReuse LossOnlyWhenFull
