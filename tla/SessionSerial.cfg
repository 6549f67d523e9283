SPECIFICATION Spec
CONSTANTS
  MaxTx = 2
  Connectors = {c1, c2}
  Station = cp0
  Reports <- WarningReports
  Slots = {h1}
  NoSlot = none
  MaxCalls = 5
  MaxFaults = 0
SYMMETRY Symmetry
INVARIANTS
  ActiveIsRunning
  BilledIsFinal
  FaultEventsTellErrors
  NoMeterAfterBill
