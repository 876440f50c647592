SPECIFICATION Spec
CONSTANTS
    Nodes = {n1, n2}
    Shards = {s1}
    Migs = {m1, m2}
    Recs = {r1}
    Vals = {v1}
    NoDigest = NoDigest
    MaxVersion = 6
    Env = {"transfer_fail", "cleanup_fail", "write", "lifecycle", "change_owner", "drop", "cancel"}
SYMMETRY Symmetry
INVARIANT FailedNeverMoved
PROPERTY TargetHoldsDigestAtCommit
CHECK_DEADLOCK FALSE
