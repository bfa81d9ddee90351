CONSTANTS
    Plain = {}
    Shortcuts = {"Z", "Q", "C"}
    None = None
    MaxHeld = 1
    MaxPosted = 1
SPECIFICATION Spec
INVARIANTS CaptureSound 
