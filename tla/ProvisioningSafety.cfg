SPECIFICATION Spec
CONSTANTS
  Serials = {a, b}
  NoSerial = none
  ClientIds = {1}
  Calls = {c1, c2}
  MaxCalls = 4
  Sockets = {k1}
  MaxFaults = 1
SYMMETRY Symmetry
INVARIANTS
  TypeOK
  PasswordWasHandedOut
  OldCredentialsAreOut
PROPERTIES
  RotationsAreExplained
  UndisturbedProvisionKeeps
