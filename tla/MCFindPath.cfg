SPECIFICATION Spec
CONSTANTS
    XSize = 5
    ZSize = 4
    Terrains <- MCTerrains
    None = None
    MaxPath = 10
INVARIANTS TypeOK SearchComplete RouteSound RouteSimple ConnersFollow
PROPERTIES WalkArrives LoopsEnd
CHECK_DEADLOCK FALSE
