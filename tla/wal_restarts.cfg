SPECIFICATION FairSpec
CONSTANTS
    Entries = {e1, e2, e3}
    Torn = Torn
    MaxSegment = 2
    Env = {"crash", "rotate", "close"}
INVARIANTS TypeOK LoggedOnce AckedNotForgotten
PROPERTIES ReadableStays GroupCommitHappens
