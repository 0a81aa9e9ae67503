SPECIFICATION Spec
CONSTANTS
    Players = {p}
    Monsters = {m, n}
    None = None
    Sectors <- MCSectors
    Adjacent <- MCAdjacent
    SpawnSector = 2
INVARIANTS ViewsExact
