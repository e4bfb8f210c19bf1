SPECIFICATION FairSpec
CONSTANTS
    a = a
    b = b
    Lan = {a, b}
    Usb = Usb
    None = None
    Nil = Nil
    Real = {1, 2}
    Virtual = {3}
    MaxScreens = 2
    Workspace <- OneSaved
    Budget = 2
INVARIANTS StaysAway PanelsFollowHost
PROPERTIES ComesBack
CHECK_DEADLOCK FALSE
