CONSTANTS
    s1 = s1  s2 = s2  c1 = c1  w = w
    a1 = a1  a2 = a2  a3 = a3
    n1 = n1  bad = bad
    Procs = {s1, s2, c1, w}
    Servers = {s1, s2}
    Clients = {c1}
    Modes = {FALSE}
    AgentIDs = {a1}
    Prefix <- MCPrefix
    GoodNonces = {n1}
    BadNonces = {bad}
    Retention = 1
    MaxEntries = 2
    BatchSize = 64
    Ops = {"Check", "CheckAndInsert", "Insert", "EvictExpired"}
    MaxClock = 2
SPECIFICATION HSpec
INVARIANTS OneAdmissionPerNonce
CHECK_DEADLOCK FALSE
