SPECIFICATION OneSpec
CONSTANTS
  c1 = c1
  c2 = c2
  c3 = c3
  c4 = c4
  Calls = {c1, c2, c3, c4}
  Binaries = {b1}
  Originals = {o1, o2}
  NoFile = none
  Stations = {cp1}
  Requests = {d1, d2}
  Slots = {h1, h2}
  Target <- AllOfOne
  NoStation = none
  NoRequest = none
  Payloads = {"Uploading", "Uploaded", "other"}
  cp1 = cp1
  Tags = {t1, t2}
  Sessions = {s1, s2}
  Removals = {r1, r2}
  NoTag = none
  MaxFaults = 1
SYMMETRY Symmetry
CONSTRAINT InOrder
INVARIANTS
  AllTypesOK
  RowsKeepTheirFile
  NothingIsLeftOnDisk
  FailureIsOnBothTables
  OpenSessionsKeepTheirCard
PROPERTY
  EndIsKept
