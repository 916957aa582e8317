CONSTANTS
  MaxId = 3
  PublicPorts <- Public
  WorkerPorts <- Internal
  Mbps <- Limits
  MaxSpent = 3
SPECIFICATION Spec
INVARIANTS TypeOK RulesMatchWorkers NoLeftovers SettingsReachAll ProcessesUpToDate
PROPERTIES Implements
CHECK_DEADLOCK FALSE
