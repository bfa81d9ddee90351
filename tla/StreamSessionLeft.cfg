\* An activity that is left while it is still connecting
SPECIFICATION FairSpec
CONSTANTS
    Sessions = {s1}
    NoSession = NoSession
PROPERTIES
    SessionEnds
CHECK_DEADLOCK FALSE
