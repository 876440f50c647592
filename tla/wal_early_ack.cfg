SPECIFICATION Spec
CONSTANTS
    Entries = {e1}
    Torn = Torn
    MaxSegment = 0
    Env = {}
SYMMETRY Symmetry
INVARIANT AckedIsDurable
