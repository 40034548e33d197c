CONSTANTS
    s1 = s1
    s2 = s2
    t1 = t1
    t2 = t2
    t3 = t3
    t4 = t4
    h1 = h1
    None = None
    Server = {s1, s2}
    Token = {t1, t2, t3, t4}
    Webhook = {h1}
    Delivery = {1}
    MaxAttempts = 3
    ClaimTTL = 2
    MaxLate = 0
    MaxFaults = 1
SPECIFICATION FairSpec
INVARIANTS
    TypeOK
    ClaimExclusive
    PostsAccounted
    DuplicatesNeedFaults
    OutcomeJustified
PROPERTIES
    TerminalStable
    ImplementsQueue
    EventuallySettled
    ImplementsFairQueue
