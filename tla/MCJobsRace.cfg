CONSTANTS
    t1 = t1  t2 = t2
    k1 = k1
    i1 = i1  i2 = i2
    r1 = r1  r2 = r2
    NoTask = NoTask  Nobody = Nobody
    Tasks = {t1}
    Kinds = {k1}
    Kind <- OneKind
    Instances = {i1}
    Runs = {r1, r2}
    Knows <- KnowAll
    InWindow = {t1}
    Valid = {0, 1}
    Lease = 1
    Prompt = FALSE
    MaxEdits = 1
    MaxCalls = 1
    MaxFaults = 1
    MaxCrashes = 0
    MaxTogether = 1
SPECIFICATION Spec
INVARIANTS
    TypeOK
    OneRunPerKind
    LeasedIsDue
PROPERTIES
    EndedIsForever
SYMMETRY AnyRowInstance
