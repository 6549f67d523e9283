SPECIFICATION SafeSpec
CONSTANTS
  MaxRows = 3
  MaxAttempts = 2
  BatchSize = 2
  Ticks = {t1, t2}
  MaxFaults = 1
INVARIANTS
  TypeOK
  SnapshotIsCurrent
  BoundedDuplication
  OvertakenOnlyAfterTrouble
PROPERTIES
  RetiredStaysSilent
