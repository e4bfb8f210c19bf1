SPECIFICATION Spec
CONSTANTS
    Frame <- Sizes
    MaxPayload = 2
    FecPercent = 50
    Margin = 2
    MaxQueue = 1
    Slots = 3
    MaxWire = 2
INVARIANT NothingHeldBack
PROPERTIES ShowsTheFeed QueueDrains
CHECK_DEADLOCK FALSE
