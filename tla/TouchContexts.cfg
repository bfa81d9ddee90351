SPECIFICATION TouchSpec
CONSTANTS
    MaxFingers = 4
    ReleaseTime = 1
    TapTime = 2
    KeyboardTime = 3
    LongTime = 5
    No = No
INVARIANTS PressSound NoButtonLeft 
