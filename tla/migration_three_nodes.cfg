SPECIFICATION Spec
CONSTANTS
    Nodes = {n1, n2, n3}
    Shards = {s1}
    Migs = {m1}
    Recs = {r1}
    Vals = {v1}
    NoDigest = NoDigest
    MaxVersion = 3
    Env = {"membership", "tamper", "transfer_fail", "lifecycle", "drop", "recreate"}
SYMMETRY Symmetry
PROPERTIES OwnershipBoundary DigestsAgreeAtCommit
CHECK_DEADLOCK FALSE
