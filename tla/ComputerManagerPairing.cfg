\* The activity acts while its pairing thread runs
SPECIFICATION Spec
CONSTANTS
    Tuples = {c1, c2}
    Threads = {t1, t2}
    Adders = {}
    NoThread = NoThread
    NoTuple = NoTuple
    InitialTries = 0
    OfflineTries = 1
    Roles = {{"pair"}}
    Overlap = TRUE
    MaxEvents = 2
INVARIANTS
    PairsUndisturbed
CHECK_DEADLOCK FALSE
