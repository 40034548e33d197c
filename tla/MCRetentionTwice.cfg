CONSTANTS
    s1 = s1
    s2 = s2
    Server = {s1, s2}
    Requester = {}
    PoolSize = 2
    Interval = 2
    MaxHeld = 2
    MaxFaults = 0
SPECIFICATION Spec
PROPERTY OncePerInterval
SYMMETRY Sym
