SPECIFICATION Spec
CONSTANTS
    Nodes = {n1, n2}
    Shards = {s1}
    Migs = {m1, m2}
    Recs = {r1}
    Vals = {v1}
    NoDigest = NoDigest
    MaxVersion = 4
    Env = {"crash", "persist_fail", "transfer_fail", "cleanup_fail", "lifecycle", "change_owner", "cancel", "drop"}
SYMMETRY Symmetry
INVARIANTS TypeOK OneOpenMigration PrimaryNotReplica
PROPERTY OwnershipBoundary
