CONSTANTS
    s1 = s1  s2 = s2
    d1 = d1  d2 = d2
    r1 = r1  r2 = r2
    p1 = p1  p2 = p2
    NoSub = NoSub
    Subs = {s1}
    Procs = {p1, p2}
    Dispatchers = {d1, d2}
    Requests = {r1}
    Home <- TwoHomes
    Answering = {s1}
    MaxAttempts = 2
    RetryBase = 1
    RetryCap = 2
    MaxHold = 1
    MaxTime = 1
    MaxFaults = 1
    MaxCrashes = 1
    MaxRequests = 2
SPECIFICATION Spec
INVARIANTS
    TypeOK
    SentOnlyWhenDue
    AtMostOneCopy
    UnsentHasNoCopy
    FinalIsDelivered
    OwnerHoldsRow
PROPERTIES
    FrozenWhileSending
    TerminalIsForever
    KeepsPromise
