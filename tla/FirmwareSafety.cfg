SPECIFICATION Spec
CONSTANTS
  k1 = k1
  cp1 = cp1
  Campaigns = {k1, k2}
  Stations = {cp1, cp2}
  Matching <- Overlapping
  Slots = {h1, h2}
  NoStation = none
  NoCampaign = none
  NoSlot = none
  MaxFaults = 2
SYMMETRY Symmetry
CONSTRAINT FaultsInOneCampaign
INVARIANTS
  TypeOK
  DispatchCoversNoReport
  CompletedIsComplete
  LastReportCompletes
PROPERTY
  EndedIsFinal
