SPECIFICATION Spec
CONSTANTS
  k1 = k1
  cp1 = cp1
  Campaigns = {k1}
  Stations = {cp1, cp2}
  Slots = {h1}
  Matching <- Overlapping
  NoStation = none
  NoCampaign = none
  NoSlot = none
  MaxFaults = 0
INVARIANT
  RunningHasWorkLeft
