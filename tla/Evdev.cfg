\* One device that comes and goes, or two that stay; see EventWorlds
SPECIFICATION FairSpec
CONSTANTS
    event0 = event0
    event1 = event1
    Names = {event0, event1}
    Mice = {event0, event1}
    Worlds <- EventWorlds
    MaxEntries = 2
    None = none
INVARIANTS
    DevicesSound
PROPERTIES
    PollProceeds
    
    DestroyReturns
CHECK_DEADLOCK FALSE
