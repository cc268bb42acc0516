CONSTANTS
    t1 = t1  t2 = t2
    k1 = k1
    i1 = i1  i2 = i2
    r1 = r1  r2 = r2
    NoTask = NoTask  Nobody = Nobody
    Tasks = {t1, t2}
    Kinds = {k1}
    Kind <- OneKind
    Instances = {i1, i2}
    Runs = {r1, r2}
    Knows <- OldBuild
    InWindow = {}
    Valid = {0}
    Lease = 2
    Prompt = TRUE
    MaxEdits = 0
    MaxCalls = 1
    MaxFaults = 0
    MaxCrashes = 1
    MaxTogether = 1
SPECIFICATION FairSpec
INVARIANTS
    ExclusiveWork
PROPERTIES
    KeepsPromise
    RunsEnd
    DueIsServed
