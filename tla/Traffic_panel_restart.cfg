CONSTANTS
  c1 = c1
  c2 = c2
  e1 = e1
  Emails = {e1}
  Clients = {c1, c2}
  EmailOf <- SharedEmail
  MaxBytes = 2
  MaxXrayRestarts = 0
  MaxPanelRestarts = 1
  MaxResets = 0
  MaxResetFaults = 0
  MaxPollFaults = 0
  MaxPersistFaults = 0
SPECIFICATION Spec
INVARIANT NeverOvercharged
CHECK_DEADLOCK FALSE
