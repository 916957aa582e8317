CONSTANTS
  PanelPorts <- TwoPorts
  Target = 2
  MaxTx = 6
  MaxSpent = 3
SPECIFICATION Spec
INVARIANTS TypeOK DataSurvives 
CHECK_DEADLOCK FALSE
