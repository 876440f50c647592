SPECIFICATION Spec
CONSTANTS
    Nodes = {n1, n2}
    Shards = {s1}
    Migs = {m1}
    Recs = {r1}
    Vals = {v1}
    NoDigest = NoDigest
    MaxVersion = 3
    Env = {"crash"}
SYMMETRY Symmetry
PROPERTY DigestsAgreeAtCommit
