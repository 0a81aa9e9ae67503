---------------------------- MODULE PlayerCombat ----------------------------
(***************************************************************************)
(* Hit points, levels and stat points of one Player (requies_server).      *)
(*                                                                         *)
(* Three kinds of thread work on it at once: the main loop (a monster's    *)
(* Attacked, and ExpUp when a monster it killed dies), the dispatch thread *)
(* inside its own session's handler (ReSpawn, UpStat), and those inside    *)
(* the handlers of others (PLAYERATTACK).  Experience and stat points have *)
(* the lock _cs, hit points and _death have none: each load and store of   *)
(* them is a step, with a register of the thread between.                  *)
(***************************************************************************)
EXTENDS Integers

CONSTANTS
    Main, Own,      \* the main loop; the thread in the player's own handler
    Attackers,      \* threads in the handlers of other players
    None,
    TrueDamages,    \* damage - _defensive, below 0 for a well defended player
    HpMaxOf,        \* _hpMax at each level above the first, by LevelUp
    MaxLevel,       \* bound: levels
    MinHp, MaxHp    \* bounds: the hit points that an attack may leave

Threads == {Main, Own} \cup Attackers
Levels == 1..MaxLevel

ASSUME ThreadAssumption ==
    /\ Main # Own /\ {Main, Own} \cap Attackers = {} /\ None \notin Threads
ASSUME NumberAssumption ==
    /\ MaxLevel \in Nat \ {0} /\ MinHp \in Int /\ MaxHp \in Int
    /\ TrueDamages \subseteq Int /\ HpMaxOf \in [Levels -> Nat \ {0}]

VARIABLES
    hp, death,      \* _hp, _death
    hpMax, level,   \* _hpMax, levels gained since the login, from 1
    full,           \* _exp >= _expMax
    statPoint,      \* _statPoint
    cs,             \* the owner of _cs, or None
    at, reg, damage,   \* each thread: where it is, its register, trueDamage
    spent,          \* history: points that UpStat has taken
    crossed         \* history: what has overlapped since the last ReSpawn

vars == <<hp, death, hpMax, level, full, statPoint, cs, at, reg, damage,
          spent, crossed>>
life == <<hp, death, crossed>>
growth == <<hpMax, level, full, statPoint, cs, spent>>

Init ==
    /\ hpMax = HpMaxOf[1] /\ hp = hpMax /\ death = FALSE
    /\ level = 1 /\ full \in BOOLEAN /\ statPoint = 0
    /\ cs = None
    /\ at = [t \in Threads |-> "idle"]
    /\ reg = [t \in Threads |-> 0] /\ damage = [t \in Threads |-> 0]
    /\ spent = 0 /\ crossed = {}

Goto(t, from, to) == at[t] = from /\ at' = [at EXCEPT ![t] = to]
Load(t, value) == reg' = [reg EXCEPT ![t] = value]

-----------------------------------------------------------------------------
(* Player::Attacked.                                                       *)

StrikeStages == {"load", "store", "clamp", "zero", "judge", "die"}
Strikers == {t \in Threads : at[t] \in StrikeStages}

Strike(t, d) ==
    /\ ~ death
    /\ Goto(t, "idle", "load")
    /\ damage' = [damage EXCEPT ![t] = d]
    /\ crossed' = crossed \cup {"attacks" : u \in Strikers}
                          \cup (IF at[Own] = "revive" THEN {"respawn"} ELSE {})
    /\ UNCHANGED <<hp, death, growth, reg>>

StrikeLoad(t) ==
    /\ Goto(t, "load", "store")
    /\ Load(t, hp)
    /\ UNCHANGED <<life, growth, damage>>

StrikeStore(t) ==
    /\ Goto(t, "store", "clamp")
    /\ hp' = reg[t] - damage[t] /\ hp' \in MinHp..MaxHp
    /\ Load(t, hp')
    /\ UNCHANGED <<death, crossed, growth, damage>>

\* The test may read _hp again or use the value that was just stored.
Clamp(t) ==
    /\ \E seen \in {hp, reg[t]} :
        Goto(t, "clamp", IF seen <= 0 THEN "zero" ELSE "judge")
    /\ UNCHANGED <<life, growth, reg, damage>>

ClampZero(t) ==
    /\ Goto(t, "zero", "judge")
    /\ hp' = 0
    /\ UNCHANGED <<death, crossed, growth, reg, damage>>

\* After the broadcast, and so from memory.
JudgeBelowZero(t) ==
    /\ Goto(t, "judge", IF hp < 0 THEN "die" ELSE "idle")
    /\ Load(t, 0) /\ damage' = [damage EXCEPT ![t] = 0]
    /\ UNCHANGED <<life, growth>>
Judge(t) ==
    /\ Goto(t, "judge", IF hp = 0 THEN "die" ELSE "idle")
    /\ Load(t, 0) /\ damage' = [damage EXCEPT ![t] = 0]
    /\ UNCHANGED <<life, growth>>

Die(t) ==
    /\ Goto(t, "die", "idle")
    /\ death' = TRUE
    /\ UNCHANGED <<hp, crossed, growth, reg, damage>>

Attacked(t) ==
    \/ \E d \in TrueDamages : Strike(t, d)
    \/ StrikeLoad(t) \/ StrikeStore(t) \/ Clamp(t) \/ ClampZero(t)
    \/ Judge(t) \/ Die(t)

-----------------------------------------------------------------------------
(* Player::ReSpawn, in the player's own handler; its moves on the map are  *)
(* in FieldSessions.  Nobody asks whether the player is dead.              *)

\* Past the locked part, reading _hpMax.
ReSpawn ==
    /\ cs = None
    /\ Goto(Own, "idle", "heal")
    /\ Load(Own, hpMax)
    /\ UNCHANGED <<life, growth, damage>>

ReSpawnHeal ==
    /\ Goto(Own, "heal", "revive")
    /\ hp' = reg[Own]
    /\ Load(Own, 0)
    /\ crossed' = {"respawn" : u \in Strikers}
    /\ UNCHANGED <<death, growth, damage>>

Revive ==
    /\ Goto(Own, "revive", "idle")
    /\ death' = FALSE
    /\ UNCHANGED <<hp, crossed, growth, reg, damage>>

-----------------------------------------------------------------------------
(* Player::ExpUp, in the main loop, holding _cs throughout; StatPointUp    *)
(* takes it once more, which its owner may.                                *)

ExpUp ==
    /\ cs = None /\ level < MaxLevel
    /\ cs' = Main
    /\ full' \in {full, TRUE}
    /\ Goto(Main, "idle", IF full' THEN "level" ELSE "expDone")
    /\ UNCHANGED <<life, hpMax, level, statPoint, spent, reg, damage>>

\* _exp is not taken down: from now on every ExpUp comes here.
LevelUp ==
    /\ Goto(Main, "level", "levelHeal")
    /\ level' = level + 1
    /\ hpMax' = HpMaxOf[level']
    /\ UNCHANGED <<life, full, statPoint, cs, spent, reg, damage>>

LevelHeal ==
    /\ Goto(Main, "levelHeal", "points")
    /\ hp' = hpMax
    /\ crossed' = crossed \cup {"levelUp" : u \in Strikers}
                          \cup (IF death THEN {"levelUp"} ELSE {})
    /\ UNCHANGED <<death, growth, reg, damage>>

StatPointUpLoad ==
    /\ cs \in {None, Main}
    /\ Goto(Main, "points", "pointsStore")
    /\ Load(Main, statPoint)
    /\ UNCHANGED <<life, growth, damage>>

StatPointUpUnlocks ==
    /\ Goto(Main, "pointsStore", "expDone")
    /\ statPoint' = reg[Main] + 4
    /\ Load(Main, 0)
    /\ cs' = None
    /\ UNCHANGED <<life, hpMax, level, full, spent, damage>>
StatPointUp ==
    /\ Goto(Main, "pointsStore", "expDone")
    /\ statPoint' = reg[Main] + 4
    /\ Load(Main, 0)
    /\ UNCHANGED <<life, hpMax, level, full, cs, spent, damage>>

ExpDone ==
    /\ Goto(Main, "expDone", "idle")
    /\ cs' = None
    /\ UNCHANGED <<life, hpMax, level, full, statPoint, spent, reg, damage>>

-----------------------------------------------------------------------------
(* Player::UpStat, in the player's own handler.                            *)

\* The look at _statPoint is outside the lock.
UpStat ==
    /\ statPoint # 0
    /\ Goto(Own, "idle", "down")
    /\ spent' = spent + 1
    /\ UNCHANGED <<life, hpMax, level, full, statPoint, cs, reg, damage>>

StatPointDownOutside ==
    /\ Goto(Own, "down", "downStore")
    /\ cs' = Own
    /\ Load(Own, statPoint)
    /\ UNCHANGED <<life, hpMax, level, full, statPoint, spent, damage>>
StatPointDownLoad ==
    /\ cs = None
    /\ cs' = Own
    /\ Goto(Own, "down", "downStore")
    /\ Load(Own, statPoint)
    /\ UNCHANGED <<life, hpMax, level, full, statPoint, spent, damage>>

StatPointDown ==
    /\ Goto(Own, "downStore", "idle")
    /\ statPoint' = IF reg[Own] - 1 <= 0 THEN 0 ELSE reg[Own] - 1
    /\ Load(Own, 0)
    /\ cs' = None
    /\ UNCHANGED <<life, hpMax, level, full, spent, damage>>

-----------------------------------------------------------------------------
Next ==
    \/ \E t \in Threads : Attacked(t)
    \/ ReSpawn \/ ReSpawnHeal \/ Revive
    \/ ExpUp \/ LevelUp \/ LevelHeal \/ StatPointUpLoad \/ StatPointUp
    \/ ExpDone
    \/ UpStat \/ StatPointDownLoad \/ StatPointDown

Spec == Init /\ [][Next]_vars

-----------------------------------------------------------------------------
(* Properties.                                                             *)

Locked == {"level", "levelHeal", "points", "pointsStore", "expDone"}

TypeOK ==
    /\ hp \in Int /\ death \in BOOLEAN /\ hpMax \in Nat \ {0}
    /\ level \in Levels /\ full \in BOOLEAN /\ statPoint \in Nat
    /\ at \in [Threads -> StrikeStages \cup Locked \cup
                            {"idle", "heal", "revive", "down", "downStore"}]
    /\ cs = Main <=> at[Main] \in Locked
    /\ cs = Own <=> at[Own] = "downStore"
    /\ cs \in {None, Main, Own}
    /\ reg \in [Threads -> Int] /\ damage \in [Threads -> Int]
    /\ spent \in Nat /\ crossed \subseteq {"attacks", "respawn", "levelUp"}

Rest == \A t \in Threads : at[t] = "idle"

\* However the unlocked loads and stores fall together: once nobody is at work
\* the hit points are not negative; a player without any is dead, unless an
\* attack overlapped a ReSpawn; and a dead player has none, unless attacks
\* overlapped too, or one a LevelUp, or LevelUp healed the dead.  A ReSpawn
\* that no attack overlaps repairs what there was before.
LifeAgrees ==
    Rest => /\ hp >= 0
            /\ "respawn" \notin crossed => (hp = 0 => death)
            /\ crossed = {} => (death => hp = 0)

\* Each level brings four points and each raise takes one: UpStat, which looks
\* at _statPoint without the lock, neither spends a point that is not there
\* nor loses those of a LevelUp in the other thread.
PointsExact ==
    cs = None /\ at[Own] # "down" => statPoint + spent = 4 * (level - 1)
=============================================================================
