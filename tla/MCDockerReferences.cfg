SPECIFICATION FairSpec
CONSTANTS
    a = a
    b = b
    x = x
    y = y
    t = t
    u = u
    c1 = c1
    c2 = c2
    NoObject = NoObject
    Tags = {t}
    Manifests = {a, b}
    Blobs = {x}
    Refs <- SmallRefs
    Size <- SmallSize
    Clients = {c1, c2}
    Ops <- PushesOnly
    PushRules = {TRUE}
    S3Listing = TRUE
    LegacyStore <- Empty
    MaxRequests = 2
    MaxPasses = 0
    MaxFaults = 0
    RevisionSpan = 3
CHECK_DEADLOCK FALSE
PROPERTY ReferencesRepaired
