\* Three connections, one place and one pending socket: the third finds it full.
SPECIFICATION Spec
CONSTANTS
    MaxConns = 3
    Addrs = {lan}
    Loopback = usb
    Pins = {p1, p2}
    NoPin = none
    StartPin = p1
    MaxClients = 1
    MaxPending = 1
    MaxFailures = 2
    MaxPanel = 1
INVARIANTS PlacesRespected GuessesBounded HandlersKept
PROPERTIES StopReturns QuietPlacesFreed
