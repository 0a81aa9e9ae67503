CONSTANTS
    NumMonsters = 2
    NumZones = 2
    Players = {p1, p2}
    None = None
    Sectors = {s0, s1}
    Origin = s0
    MaxSpawn <- MCMaxSpawn
    Word = 16
    Aggressive <- MCAggressive
    MaxHp = 2
    Damages = {1}
    SpawnTicks = 1
    IdleTicks = 1
    AttackedTicks = 1
    CoolTicks = 1
    StartTicks = {0}
    MaxCorners = 1
    MaxPending = 2
SPECIFICATION Spec
SYMMETRY MCSymmetry
INVARIANTS TypeOK PoolExact CountExact SectorExact TargetHeld DeadMeansNoHp
PROPERTIES NoRevival IsMonsterLife
