SPECIFICATION Spec
CONSTANTS
  Clients = {c1, c2}
  None = None
  Keys = {keyA, shift}
  Modifiers = {shift}
  Buttons = {left}
  PanelToggles = TRUE
  SessionBusy = FALSE
  NoMessage = NoMessage
SYMMETRY Symmetry
CHECK_DEADLOCK FALSE
INVARIANTS  InputFollowsOwner DownIsHeldByDriver DownIsRecorded
