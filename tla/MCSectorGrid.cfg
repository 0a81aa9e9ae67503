SPECIFICATION GridSpec
CONSTANTS
    SectorBlockSize = 2
    Maps <- MCMaps
INVARIANTS
    SightCovered
    AdjacentMutual
