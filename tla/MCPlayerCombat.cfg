SPECIFICATION Spec
CONSTANTS
    Main = Main
    Own = Own
    Attackers = {a}
    None = None
    TrueDamages <- MCTrueDamages
    HpMaxOf <- MCHpMaxOf
    MaxLevel = 3
    MinHp <- MCMinHp
    MaxHp = 3
INVARIANTS TypeOK LifeAgrees PointsExact
CHECK_DEADLOCK FALSE
