\* Frames shown at once: two codec threads, more exceptions, an HDR change, a stop
SPECIFICATION FairSpec
CONSTANTS
    HasChoreographer = FALSE
    FusedIdr = TRUE
    SlowStart = FALSE
    Stoppers = {"net"}
    CrMaxTries = 1
    MaxFaults = 2
    MaxHdrChanges = 1
INVARIANTS
    DecodableInput
    
PROPERTIES
    RecoveryCompletes
    RendererStops
CHECK_DEADLOCK FALSE
