CONSTANTS
    s1 = s1  s2 = s2
    d1 = d1  d2 = d2
    r1 = r1  r2 = r2
    p1 = p1  p2 = p2
    NoSub = NoSub
    Subs = {s1, s2}
    Procs = {p1}
    Dispatchers = {d1}
    Requests = {r1}
    Home <- OneHome
    Answering = {s1, s2}
    MaxAttempts = 2
    RetryBase = 1
    RetryCap = 2
    MaxHold = 0
    MaxTime = 1
    MaxFaults = 1
    MaxCrashes = 0
    MaxRequests = 2
SPECIFICATION FairSpec
INVARIANTS
    AttemptsLeftWhilePending
PROPERTIES
    WaitingSettles
    AcceptanceIsRecorded
