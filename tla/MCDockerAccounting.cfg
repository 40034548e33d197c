SPECIFICATION Spec
CONSTANTS
    a = a
    b = b
    x = x
    y = y
    t = t
    u = u
    c1 = c1
    c2 = c2
    NoObject = NoObject
    Tags = {t}
    Manifests = {a, b}
    Blobs = {x}
    Refs <- SmallRefs
    Size <- SmallSize
    Clients = {c1}
    Ops <- NoDeletions
    PushRules = {TRUE, FALSE}
    S3Listing = TRUE
    LegacyStore <- EmptyOrLegacy
    MaxRequests = 3
    MaxPasses = 1
    MaxFaults = 0
    RevisionSpan = 0
CHECK_DEADLOCK FALSE
INVARIANTS TypeOK AccurateWhenQuiet
PROPERTY GuardsHold
