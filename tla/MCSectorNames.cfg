SPECIFICATION GridSpec
CONSTANTS
    SectorBlockSize = 2
    Maps <- MCWideMaps
INVARIANTS
    OffsetsAsNamed
