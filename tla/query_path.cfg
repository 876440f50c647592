SPECIFICATION Spec
CONSTANTS
    Clients = {c1, c2}
    Shards = {s1, s2}
    None = None
    TTL = 1
    Timeout = 1
    Second = 3
    Quota = 3
    MaxWrites = 1
    MaxTime = 3
INVARIANTS TypeOK  UpsertSeen QuotaPerWindow
CHECK_DEADLOCK FALSE
SYMMETRY Symmetry
