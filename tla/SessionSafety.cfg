SPECIFICATION Spec
CONSTANTS
  MaxTx = 2
  Connectors = {c1}
  Station = cp0
  Reports <- UnknownReports
  Slots = {h1, h2}
  NoSlot = none
  MaxCalls = 4
  MaxFaults = 2
SYMMETRY Symmetry
INVARIANTS
  TypeOK
  OutboxAgreesWithRows
  StartComesFirst
  OnceUnlessRetried
