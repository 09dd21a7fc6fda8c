SPECIFICATION ManagerSpec
CONSTANTS
    Registry <- MCRegistry
    Configs <- MCConfigs
    Order <- MCOrder
    Threads = {t1, t2}
    States = {s1, s2, s3}
    First = s1
    NoState = none
    MaxCalls = 3
    u1 = u1
    u2 = u2
    Users = {u1, u2}
    Probe = probe
    Conns = {c1, c2}
    NoConn = none
    MaxIdle = 1
    MaxWire = 2
    Plans <- MCPlans
    Scripts <- MCScripts
    Routes <- MCRoutes
    MaxHead = 5
    MaxBody = 3
    Pipelined = FALSE
    Managed = 2
    MaxStarts = 2
    MaxFetches = 3
CHECK_DEADLOCK FALSE
INVARIANTS StartedIsComplete OneRefresher
PROPERTIES NeverOlder StopReturns
