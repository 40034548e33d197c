SPECIFICATION Spec
CONSTANTS
    a = a
    b = b
    x = x
    y = y
    t = t
    u = u
    c1 = c1
    c2 = c2
    NoObject = NoObject
    Tags = {t, u}
    Manifests = {a, b}
    Blobs = {x, y}
    Refs <- SharedRefs
    Size <- SharedSize
    Clients = {c1}
    Ops <- PushesAndDeletions
    PushRules = {TRUE}
    S3Listing = TRUE
    LegacyStore <- Empty
    MaxRequests = 4
    MaxPasses = 1
    MaxFaults = 0
    RevisionSpan = 0
CHECK_DEADLOCK FALSE
PROPERTY SharedBlobsPreserved
