CONSTANTS
  c1 = c1
  c2 = c2
  e1 = e1
  Emails = {e1}
  Clients = {c1, c2}
  EmailOf <- SharedEmail
  MaxBytes = 1
  MaxXrayRestarts = 1
  MaxPanelRestarts = 1
  MaxResets = 1
  MaxResetFaults = 1
  MaxPollFaults = 1
  MaxPersistFaults = 1
SPECIFICATION FairSpec
INVARIANTS ChargedAtMostOnce TypeOK IInv
PROPERTY TrafficReachesRow
CHECK_DEADLOCK FALSE
