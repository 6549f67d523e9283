SPECIFICATION Spec
CONSTANTS
  MaxTx = 1
  Connectors = {c1}
  Station = cp0
  Reports <- BasicReports
  Slots = {h1}
  NoSlot = none
  MaxCalls = 2
  MaxFaults = 0
PROPERTY
  FailedIsFinal
