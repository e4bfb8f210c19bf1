SPECIFICATION Spec
CONSTANTS
  c1 = c1
  c2 = c2
  m1 = m1
  m2 = m2
  None = None
  Clients = {c1, c2}
  Monitors = {m1, m2}
  Virtual = {m2}
  MaxWorkers = 2
  MaxFrames = 1
  Configs <- AllConfigs
  DefaultConfig <- Default
  ConfigsOf <- NoConfigs
  Margin = 2
  SlowStages = {"capture", "acquire"}
SYMMETRY ClientSymmetry
INVARIANTS
  StreamsBelongToOwner
  OneStreamPerMonitor
  NoThreadLost
  NumbersGrowUnlessLate
PROPERTY ExclusiveView
