CONSTANTS
  k1 = k1  k2 = k2  k3 = k3
  b1 = b1  b2 = b2
  Keys = {k1, k2, k3}
  Bodies = {b1, b2}
  Sent <- TwoBodies
  MaxEntries = 2
  MaxRequests = 3
  MaxRestarts = 1
SPECIFICATION FairSpec
CHECK_DEADLOCK FALSE
INVARIANTS
  TypeOK
  AppliedOnce
  AnswerIsOwn
PROPERTIES
  OldestGoesFirst
  KeepsPromise
  WaitingEnds
