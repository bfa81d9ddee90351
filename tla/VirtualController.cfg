\* Pairs of elements that share keys, and two profiles; see ElementWorlds
SPECIFICATION Spec
CONSTANTS
    Ids = {"b1", "b2", "radial", "stick", "aim", "display", "blank"}
    KindOf <- ElementKinds
    Codes = {"ctrl", "alt", "shift", "f1", "f2", "w", "a", "d"}
    Savable <- ElementChoices
    Profiles = {"p1", "p2"}
    Worlds <- ElementWorlds
    MaxPulses = 2
    None = none
    Gone = gone
INVARIANTS
    
    HoldsTouched
    SavedInActive
PROPERTIES
    ProfilesKept
