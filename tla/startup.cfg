SPECIFICATION FairSpec
CONSTANTS
    Namespaces = {a, b}
    ShardCount = 2
    None = None
    MaxCrashes = 2
    Env = {"lifecycle", "membership", "torn", "damage"}
INVARIANTS TypeOK NoOrphanShards NamespaceComplete
PROPERTIES ReadyMeansRecovered RestartKeeps StartupEnds
CHECK_DEADLOCK FALSE
