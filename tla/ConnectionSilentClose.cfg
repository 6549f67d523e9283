SPECIFICATION SafeSpec
CONSTANTS
  Sockets = {w1}
  NoSocket = none
  MaxMessages = 1
  MaxFaults = 1
PROPERTY
  CloseIsAnnounced
