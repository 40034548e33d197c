CONSTANTS
    s1 = s1
    s2 = s2
    Server = {s1, s2}
    Requester = {s1}
    PoolSize = 2
    Interval = 2
    MaxHeld = 2
    MaxFaults = 3
SPECIFICATION FairSpec
INVARIANTS
    TypeOK
    MutualExclusion
    StatusCoversRun
PROPERTIES
    DueEventuallyRuns
    StatusEventuallyCleared
