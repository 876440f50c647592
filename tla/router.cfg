SPECIFICATION Spec
CONSTANTS
    Shards = {s1, s2, s3}
    Nodes = {n1, n2}
    Local = n1
    Stray = stray
    Records = {r1}
    None = None
    TTL = 1
    MaxVectors = 1
    MaxTime = 1
    MaxChanges = 2
INVARIANTS TypeOK StaleOnlyWithinTTL SettledRouting RoutesAreCurrent
PROPERTIES MinimalMovement NeverShardless
CHECK_DEADLOCK FALSE
SYMMETRY Symmetry
