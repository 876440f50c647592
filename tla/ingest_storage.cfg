SPECIFICATION Spec
CONSTANTS
    va = va
    vb = vb
    m1 = m1
    m2 = m2
    n0 = n0
    n1 = n1
    n2 = n2
    Ids = {x, y}
    Vecs = {va, vb}
    Mds = {m1, m2}
    Records <- TwoRecords
    None = None
    Gone = Gone
    Unreadable = Unreadable
    Threshold = 2
    Native = FALSE
    Primary = n0
    Replicas <- NoReplicas
    Required = 1
    MaxBatch = 3
    Env = {"crash", "flush_fail", "filter"}
SYMMETRY Symmetry
INVARIANTS TypeOK LiveMatchesDurable IndexMatchesFetch
PROPERTIES FilterLeavesNoMatch ImplementsClientStore
