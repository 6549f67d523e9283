SPECIFICATION Spec
CONSTANTS
  Sockets = {w1, w2, w3}
  NoSocket = none
  MaxMessages = 2
  MaxFaults = 1
INVARIANTS
  TypeOK
  UnreachableIsAnnounced
PROPERTIES
  OpenStaysRegistered
  UnregisteredSocketsClose
