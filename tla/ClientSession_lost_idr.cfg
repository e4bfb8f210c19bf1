SPECIFICATION FairSpec
CONSTANTS
    a = a
    b = b
    Lan = {a}
    Usb = Usb
    None = None
    Nil = Nil
    Real = {1}
    Virtual = {3}
    MaxScreens = 2
    Workspace <- OneSaved
    Budget = 2
PROPERTIES PictureHeals
CHECK_DEADLOCK FALSE
