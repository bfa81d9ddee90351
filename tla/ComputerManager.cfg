\* One computer; who else acts is chosen at the start
SPECIFICATION FairSpec
CONSTANTS
    Tuples = {c1, c2}
    Threads = {t1, t2}
    Adders = {a1}
    NoThread = NoThread
    NoTuple = NoTuple
    InitialTries = 0
    OfflineTries = 1
    Roles = {{"add", "remove"}, {"add", "pair"}, {"add", "net"}, {"add", "destroy"}, {"pair", "remove"}}
    Overlap = FALSE
    MaxEvents = 2
INVARIANTS
    TuplesSound
    CountsBalance
PROPERTIES
    StateConverges
    CertPersisted
    PairingProceeds
CHECK_DEADLOCK FALSE
