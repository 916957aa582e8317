CONSTANTS
  u1 = u1
  Other = Other
  Loop = Loop
  Nobody = Nobody
  Instances = {0, 1}
  Users = {u1}
  LimitOf <- OneDevice
  Guards = {Loop, Other}
  StaleAfter = 1
  Limits <- Few
SPECIFICATION FairSpec
INVARIANTS TypeOK KeepsLimit StaleIsDead
PROPERTIES KillHitsTarget LimitsHold
CHECK_DEADLOCK FALSE
