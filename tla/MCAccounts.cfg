SPECIFICATION Spec
CONSTANTS
    Clients = {1, 2}
    Workloads <- MCWorkloads
    Bases = {"ann", "bob"}
    Secrets = {"first", "next"}
    Repositories = {"pub", "priv"}
    Public = {"pub"}
    SessionLife = 1
    ResetLife = 1
    CacheTtl = 2
    DockerLife = 3
    Principals <- MCPrincipals
    Attempts = 1
    StateTtl = 1
    PruneAge = 2
    JwksTtl = 1
    MaxKeys = 2
INVARIANTS SessionsFollowUsers AdminRemains OneTimeCodes AccountPerPrincipal SettingsPersisted
PROPERTIES AuthCachesBounded
CHECK_DEADLOCK FALSE
