SPECIFICATION Spec
CONSTANTS
    s1 = s1
    s2 = s2
    s3 = s3
    u = u
    v = v
    Sessions = {s1, s2, s3}
    Users = {u, v}
    UserOf <- MCUserOf
    None = None
    Sectors = {1}
    Adjacent <- MCAdjacent
    Home = {1}
    SpawnSector = 1
    Workers = 1
    MaxBurst = 2
INVARIANTS
    ManagerSound
    Findable
PROPERTIES
    ClosedLeaves
    Rearmed
CHECK_DEADLOCK FALSE
