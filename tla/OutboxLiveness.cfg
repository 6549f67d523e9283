SPECIFICATION Spec
CONSTANTS
  MaxRows = 2
  MaxAttempts = 2
  BatchSize = 1
  Ticks = {t1, t2}
  MaxFaults = 1
PROPERTIES
  ImplementsDelivery
