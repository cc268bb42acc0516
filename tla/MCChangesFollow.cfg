\* Two writers race one client that pages through the log.
CONSTANTS
  Ids = {a, b}
  Writers = {w1, w2}
  Clients = {c1}
  Limits = {0, 1, 2, 3, 9}
  StateFirst = TRUE
  MaxChanges = 3
  MaxFaults = 1
SPECIFICATION FairSpec
CHECK_DEADLOCK FALSE
INVARIANTS
  TypeOK
  NoLostUpdate
  OnlyAheadIsKept
PROPERTIES
  UpdatesArrive
