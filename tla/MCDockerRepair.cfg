SPECIFICATION FairSpec
CONSTANTS
    a = a
    b = b
    x = x
    y = y
    t = t
    u = u
    c1 = c1
    c2 = c2
    NoObject = NoObject
    Tags = {t}
    Manifests = {a, b}
    Blobs = {x}
    Refs <- IndexRefs
    Size <- SmallSize
    Clients = {c1}
    Ops <- Disturbances
    PushRules = {TRUE, FALSE}
    S3Listing = FALSE
    LegacyStore <- Legacy
    MaxRequests = 2
    MaxPasses = 0
    MaxFaults = 1
    RevisionSpan = 2
CHECK_DEADLOCK FALSE
PROPERTY DriftRepaired
