\* Two activities, one left for the other, with every failure and termination
SPECIFICATION FairSpec
CONSTANTS
    Sessions = {s1, s2}
    NoSession = NoSession
INVARIANTS
    PermitAccounted
    CallbacksRouted
    NoDecoderLeft
    StoppedOnce
PROPERTIES
    FailureSeen
    StopFinishes
    PendingProceeds
CHECK_DEADLOCK FALSE
