\* Who is there together is chosen at the start: see Parties
SPECIFICATION FairSpec
CONSTANTS
    p1 = p1
    t2 = t2
    t1 = t1
    Pads = {p1, p2, p3, p4}
    Touchpads = {t1, t2}
    Builtins = {b1}
    Usb = {u1}
    Osc = osc
    Joystick <- PadOf
    Main = main
    None = none
    A = A
    Start = Start
    MaxGamepads = 2
    Parties = {{p1, osc}, {p1, b1}, {p2, u1}, {u1, osc}, {p2, p3, p4}, {p2, t2}}
    Emulators = {p1}
    MaxEvents = 3
INVARIANTS
    NumbersSound
    HostAgrees
    GamepadReleased
PROPERTIES
    UnplugReleases
CHECK_DEADLOCK FALSE
