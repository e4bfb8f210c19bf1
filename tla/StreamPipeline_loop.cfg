SPECIFICATION PipelineSpec
CONSTANTS
    GrabLimit = 2
    MftDepth = 2
    Settings <- SettingsChosen
    FirstSetting <- Modest
    RefineFrames = 1
    Budget = 2
INVARIANT KeyframesSelfContained
PROPERTIES StillScreenSent IdrAnswered
CHECK_DEADLOCK FALSE
