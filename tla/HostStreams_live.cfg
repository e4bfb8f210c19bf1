SPECIFICATION FairSpec
CONSTANTS
  c1 = c1
  c2 = c2
  m1 = m1
  m2 = m2
  None = None
  Clients = {c1}
  Monitors = {m1}
  Virtual = {}
  MaxWorkers = 2
  MaxFrames = 1
  Configs <- AllConfigs
  DefaultConfig <- Default
  ConfigsOf <- EveryConfig
  Margin = 2
  SlowStages = {"capture"}
INVARIANT
  ConfigApplied
PROPERTIES
  OpsMutexReleased
  QuitExits
