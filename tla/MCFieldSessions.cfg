SPECIFICATION Spec
CONSTANTS
    s1 = s1
    s2 = s2
    Sessions = {s1, s2}
    Users = {s1, s2}
    UserOf <- MCUserOf
    None = None
    Sectors <- MCSectors
    Adjacent <- MCAdjacent
    Home = {1}
    SpawnSector = 3
    Workers = 2
    MaxBurst = 1
SYMMETRY MCSymmetry
CONSTRAINT MCBound
INVARIANTS
    TypeOK
    SectorExact
    ViewsExact
CHECK_DEADLOCK FALSE
