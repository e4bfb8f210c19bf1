SPECIFICATION Spec
CONSTANTS
    Backends = {"x11", "mutter", "windows"}
    Crtcs = {1, 2}
    Panel = 1
    None = None
    Slots = {0, 1}
    Sessions = {s1, s2, s3}
    Widths = {1, 2}
    Layouts = {2, 3}
    MaxWidth = 6
    MaxRuns = 2
    MaxEvents = 2
SYMMETRY Renamings
INVARIANTS
    NoneLeftBehind
    LitUnlessHeld
    ScreensApart
    NoHiddenScreen
CHECK_DEADLOCK FALSE
