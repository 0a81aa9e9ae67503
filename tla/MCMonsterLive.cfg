CONSTANTS
    NumMonsters = 2
    NumZones = 2
    Players = {p1}
    None = None
    Sectors = {s0}
    Origin = s0
    MaxSpawn <- MCMaxSpawn
    Word = 16
    Aggressive <- MCAggressive
    MaxHp = 1
    Damages = {1}
    SpawnTicks = 2
    IdleTicks = 2
    AttackedTicks = 2
    CoolTicks = 2
    StartTicks = {0, 2}
    MaxCorners = 1
    MaxPending = 2
SPECIFICATION Spec
PROPERTIES DeadLeave HitsApplied ZoneRefills
