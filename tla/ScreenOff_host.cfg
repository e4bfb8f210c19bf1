SPECIFICATION FairSpec
CONSTANTS
  Clients = {c1, c2}
  None = None
  MaxInFlight = 1
CHECK_DEADLOCK FALSE
INVARIANT NeverDarkAlone
PROPERTIES
  LitForAReason
  LitInTheEnd
  SwitchFollowsScreen
