SPECIFICATION Spec
CONSTANTS
    va = va
    vb = vb
    m1 = m1
    m2 = m2
    n0 = n0
    n1 = n1
    n2 = n2
    Ids = {x}
    Vecs = {va, vb}
    Mds = {m1, m2}
    Records <- ThreeRecords
    None = None
    Gone = Gone
    Unreadable = Unreadable
    Threshold = 1
    Native = FALSE
    Primary = n0
    Replicas <- TwoReplicas
    Required = 2
    MaxBatch = 2
    Env = {"crash", "fault"}
INVARIANTS ReplicaAgrees AckedOnEnough ReadyAfterSuccess
