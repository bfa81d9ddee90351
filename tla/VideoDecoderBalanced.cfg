\* Balanced frame pacing: three codec threads, exceptions, an HDR change, a stop
SPECIFICATION Spec
CONSTANTS
    HasChoreographer = TRUE
    FusedIdr = FALSE
    SlowStart = FALSE
    Stoppers = {"net"}
    CrMaxTries = 1
    MaxFaults = 1
    MaxHdrChanges = 1
INVARIANTS
    RecoveryExclusive
    BuffersFresh
PROPERTIES
    LeaseSpec
CHECK_DEADLOCK FALSE
