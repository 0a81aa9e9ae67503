------------------------- MODULE PlayerCombat_proofs -------------------------
(***************************************************************************)
(* For any number of attackers, damages, levels and bounds: the stat       *)
(* points are exact under their lock, and the hit points, which have none, *)
(* agree with _death except after the overlaps that LifeAgrees names.      *)
(***************************************************************************)
EXTENDS PlayerCombat, TLAPS

\* Steps to the next level only below the last one.
LevelLeft == at[Main] = "level" => level < MaxLevel

\* What is stored under the lock is computed from what is there.
RegExact ==
    /\ at[Main] = "pointsStore" => reg[Main] = statPoint
    /\ at[Own] = "downStore" => reg[Own] = statPoint

\* A point that UpStat has found is still there when it is taken.
PointLeft == at[Own] \in {"down", "downStore"} => statPoint >= 1

\* The points of a level that are still to come, and the one already counted
\* as spent that is still to be taken.
Owed == IF at[Main] \in {"levelHeal", "points", "pointsStore"} THEN 4 ELSE 0
Due == IF at[Own] \in {"down", "downStore"} THEN 1 ELSE 0
Balance == statPoint + spent + Owed = 4 * (level - 1) + Due

GrowthInv == TypeOK /\ LevelLeft /\ RegExact /\ PointLeft /\ Balance

-----------------------------------------------------------------------------
(* Types and stat points.                                                  *)

\* A step of an attack or of ReSpawn.
LifeStep ==
    \/ \E t \in Threads : Attacked(t)
    \/ ReSpawn \/ ReSpawnHeal \/ Revive

LEMMA InitGrowth == Init => GrowthInv
<1> SUFFICES ASSUME Init PROVE GrowthInv
  OBVIOUS
<1>1. /\ Main \in Threads /\ Own \in Threads /\ None \notin Threads
      /\ MaxLevel \in Nat /\ MaxLevel >= 1
      /\ HpMaxOf \in [1..MaxLevel -> Nat \ {0}]
  BY ThreadAssumption, NumberAssumption DEF Threads, Levels
<1>2. /\ hpMax \in Nat \ {0} /\ hp = hpMax /\ death = FALSE
      /\ level = 1 /\ full \in BOOLEAN /\ statPoint = 0 /\ spent = 0
      /\ cs = None /\ crossed = {}
  BY <1>1 DEF Init
<1>3. /\ at = [t \in Threads |-> "idle"] /\ at[Main] = "idle" /\ at[Own] = "idle"
      /\ reg \in [Threads -> Int] /\ damage \in [Threads -> Int]
  BY <1>1 DEF Init
<1>4. TypeOK
  <2>1. level \in Levels /\ statPoint \in Nat /\ spent \in Nat /\ hp \in Int
    BY <1>1, <1>2 DEF Levels
  <2>2. /\ (cs = Main <=> at[Main] \in Locked) /\ (cs = Own <=> at[Own] = "downStore")
        /\ cs \in {None, Main, Own}
    BY <1>1, <1>2, <1>3 DEF Locked
  <2> QED
    BY <1>2, <1>3, <2>1, <2>2 DEF TypeOK
<1>5. LevelLeft /\ RegExact /\ PointLeft /\ Balance
  BY <1>2, <1>3 DEF LevelLeft, RegExact, PointLeft, Balance, Owed, Due
<1> QED
  BY <1>4, <1>5 DEF GrowthInv

\* An attack writes hit points, death and its own register, and moves its
\* thread among the stages of an attack.
LEMMA AttackedShape ==
    ASSUME TypeOK, NEW t \in Threads, Attacked(t)
    PROVE  /\ UNCHANGED growth
           /\ hp' \in Int /\ death' \in BOOLEAN
           /\ crossed' \subseteq {"attacks", "respawn", "levelUp"}
           /\ \E from, to \in StrikeStages \cup {"idle"}, value, d \in Int :
                /\ Goto(t, from, to)
                /\ reg' = [reg EXCEPT ![t] = value]
                /\ damage' = [damage EXCEPT ![t] = d]
<1> USE NumberAssumption DEF TypeOK
<1> DEFINE shape(from, to, value, d) ==
             /\ Goto(t, from, to)
             /\ reg' = [reg EXCEPT ![t] = value]
             /\ damage' = [damage EXCEPT ![t] = d]
<1>1. reg[t] \in Int /\ damage[t] \in Int /\ reg[t] - damage[t] \in Int
  OBVIOUS
<1>2. reg = [reg EXCEPT ![t] = reg[t]] /\ damage = [damage EXCEPT ![t] = damage[t]]
  OBVIOUS
<1>3. ASSUME NEW d \in TrueDamages, Strike(t, d) PROVE shape("idle", "load", reg[t], d)
  BY <1>1, <1>2, <1>3 DEF Strike, growth
<1>4. CASE StrikeLoad(t)
  <2>1. shape("load", "store", hp, damage[t])
    BY <1>2, <1>4 DEF StrikeLoad, Load
  <2> QED
    BY <1>1, <1>4, <2>1 DEF StrikeLoad, life, growth, StrikeStages
<1>5. CASE StrikeStore(t)
  <2>1. hp' = reg[t] - damage[t]
    BY <1>5 DEF StrikeStore
  <2>2. shape("store", "clamp", reg[t] - damage[t], damage[t])
    BY <1>2, <1>5, <2>1 DEF StrikeStore, Load
  <2> QED
    BY <1>1, <1>5, <2>1, <2>2 DEF StrikeStore, growth, StrikeStages
<1>6. CASE Clamp(t)
  <2>1. \E to \in {"zero", "judge"} : shape("clamp", to, reg[t], damage[t])
    BY <1>2, <1>6 DEF Clamp
  <2> QED
    BY <1>1, <1>6, <2>1 DEF Clamp, life, growth, StrikeStages
<1>7. CASE ClampZero(t)
  <2>1. shape("zero", "judge", reg[t], damage[t])
    BY <1>2, <1>7 DEF ClampZero
  <2> QED
    BY <1>1, <1>7, <2>1 DEF ClampZero, growth, StrikeStages
<1>8. CASE Judge(t)
  <2>1. PICK to \in {"die", "idle"} : shape("judge", to, 0, 0)
    BY <1>8 DEF Judge, Load
  <2>2. to \in StrikeStages \cup {"idle"} /\ "judge" \in StrikeStages /\ 0 \in Int
    BY DEF StrikeStages
  <2>3. UNCHANGED <<life, growth>>
    BY <1>8 DEF Judge
  <2>4. /\ UNCHANGED growth
        /\ hp' \in Int /\ death' \in BOOLEAN
        /\ crossed' \subseteq {"attacks", "respawn", "levelUp"}
    BY <2>3 DEF life
  <2> QED
    BY <2>1, <2>2, <2>4, Zenon
<1>9. CASE Die(t)
  <2>1. shape("die", "idle", reg[t], damage[t])
    BY <1>2, <1>9 DEF Die
  <2> QED
    BY <1>1, <1>9, <2>1 DEF Die, growth, StrikeStages
<1>10. CASE \E d \in TrueDamages : Strike(t, d)
  <2> PICK d \in TrueDamages : Strike(t, d)
    BY <1>10
  <2>1. shape("idle", "load", reg[t], d) /\ d \in Int
    BY <1>3
  <2> QED
    BY <1>1, <2>1 DEF Strike, growth, StrikeStages
<1> HIDE DEF shape, TypeOK
<1> QED
  BY <1>4, <1>5, <1>6, <1>7, <1>8, <1>9, <1>10, Zenon DEF Attacked

\* Whatever moves a thread among stages that hold no lock and touch no points,
\* and leaves levels and points alone.
LEMMA GrowthKept ==
    ASSUME GrowthInv, NEW t \in Threads,
           NEW from \in StrikeStages \cup {"idle", "heal", "revive"},
           NEW to \in StrikeStages \cup {"idle", "heal", "revive"},
           Goto(t, from, to), UNCHANGED growth,
           hp' \in Int, death' \in BOOLEAN,
           crossed' \subseteq {"attacks", "respawn", "levelUp"},
           NEW value \in Int, reg' = [reg EXCEPT ![t] = value],
           damage' \in [Threads -> Int]
    PROVE  GrowthInv'
<1> USE DEF GrowthInv, Goto, growth
<1>1. /\ at[t] = from /\ at' = [at EXCEPT ![t] = to]
      /\ at \in [Threads -> StrikeStages \cup Locked \cup
                              {"idle", "heal", "revive", "down", "downStore"}]
      /\ Main \in Threads /\ Own \in Threads
      /\ reg \in [Threads -> Int]
  BY DEF TypeOK, Threads
<1>2. \A u \in Threads : u # t => at'[u] = at[u] /\ reg'[u] = reg[u]
  BY <1>1
<1>3. \A u \in {Main, Own} :
        /\ at'[u] \in Locked <=> at[u] \in Locked
        /\ \A s \in Locked \cup {"down", "downStore"} : at'[u] = s <=> at[u] = s
        /\ at[u] \in {"pointsStore", "downStore"} => reg'[u] = reg[u]
  BY <1>1, <1>2 DEF StrikeStages, Locked
<1>4. TypeOK'
  BY <1>1, <1>3 DEF TypeOK
<1>5. LevelLeft' /\ RegExact' /\ PointLeft' /\ Balance'
  BY <1>3 DEF LevelLeft, RegExact, PointLeft, Balance, Owed, Due, Locked
<1> QED
  BY <1>4, <1>5

LEMMA LifeStepGrowth ==
    ASSUME GrowthInv, LifeStep
    PROVE  GrowthInv'
<1>1. Own \in Threads /\ hpMax \in Int /\ damage \in [Threads -> Int] /\ reg[Own] \in Int
      /\ reg = [reg EXCEPT ![Own] = reg[Own]] /\ 0 \in Int
      /\ TypeOK
  BY DEF GrowthInv, TypeOK, Threads
<1>2. ASSUME NEW t \in Threads, Attacked(t) PROVE GrowthInv'
  <2>1. PICK from, to \in StrikeStages \cup {"idle"}, value, d \in Int :
          /\ Goto(t, from, to)
          /\ reg' = [reg EXCEPT ![t] = value]
          /\ damage' = [damage EXCEPT ![t] = d]
    BY <1>1, <1>2, AttackedShape
  <2>2. /\ UNCHANGED growth
        /\ hp' \in Int /\ death' \in BOOLEAN
        /\ crossed' \subseteq {"attacks", "respawn", "levelUp"}
    BY <1>1, <1>2, AttackedShape
  <2>3. damage' \in [Threads -> Int]
    BY <1>1, <2>1
  <2> QED
    <3>1. from \in StrikeStages \cup {"idle", "heal", "revive"}
      OBVIOUS
    <3>2. to \in StrikeStages \cup {"idle", "heal", "revive"}
      OBVIOUS
    <3> QED
      BY <1>2, <2>1, <2>2, <2>3, <3>1, <3>2, GrowthKept
<1>3. CASE ReSpawn
  <2>1. /\ Goto(Own, "idle", "heal") /\ UNCHANGED <<life, growth, damage>>
        /\ reg' = [reg EXCEPT ![Own] = hpMax]
    BY <1>3 DEF ReSpawn, Load
  <2>2. /\ hp' \in Int /\ death' \in BOOLEAN /\ damage' \in [Threads -> Int]
        /\ crossed' \subseteq {"attacks", "respawn", "levelUp"} /\ UNCHANGED growth
    BY <1>1, <2>1 DEF TypeOK, life
  <2> QED
    BY <1>1, <2>1, <2>2, GrowthKept
<1>4. CASE ReSpawnHeal
  <2>1. /\ Goto(Own, "heal", "revive") /\ UNCHANGED <<death, growth, damage>>
        /\ reg' = [reg EXCEPT ![Own] = 0] /\ hp' = reg[Own]
        /\ crossed' \subseteq {"respawn"}
    BY <1>4 DEF ReSpawnHeal, Load
  <2>2. /\ hp' \in Int /\ death' \in BOOLEAN /\ damage' \in [Threads -> Int]
        /\ crossed' \subseteq {"attacks", "respawn", "levelUp"} /\ UNCHANGED growth
    BY <1>1, <2>1 DEF TypeOK
  <2> QED
    BY <2>1, <2>2, <1>1, GrowthKept
<1>5. CASE Revive
  <2>1. /\ Goto(Own, "revive", "idle") /\ UNCHANGED <<hp, crossed, growth, damage>>
        /\ reg' = [reg EXCEPT ![Own] = reg[Own]] /\ death' = FALSE
    BY <1>1, <1>5 DEF Revive
  <2>2. /\ hp' \in Int /\ death' \in BOOLEAN /\ damage' \in [Threads -> Int]
        /\ crossed' \subseteq {"attacks", "respawn", "levelUp"} /\ UNCHANGED growth
    BY <1>1, <2>1 DEF TypeOK
  <2> QED
    BY <1>1, <2>1, <2>2, GrowthKept
<1> QED
  BY <1>2, <1>3, <1>4, <1>5 DEF LifeStep

\* What a step of ExpUp or UpStat has to work with.
LEMMA GrowthFacts ==
    ASSUME GrowthInv
    PROVE  /\ Main \in Threads /\ Own \in Threads /\ Main # Own
           /\ None # Main /\ None # Own
           /\ at[Main] \in Locked => cs = Main /\ at[Own] # "downStore"
           /\ at[Own] = "downStore" => cs = Own /\ at[Main] \notin Locked
           /\ cs = None => at[Main] \notin Locked /\ at[Own] # "downStore"
           /\ level \in Nat /\ statPoint \in Nat /\ spent \in Nat
BY ThreadAssumption, NumberAssumption
   DEF GrowthInv, TypeOK, Threads, Levels

\* A step of ExpUp moves the main loop, one of UpStat the player's handler.
LEMMA StageMoves ==
    ASSUME TypeOK, Main # Own, Main \in Threads, Own \in Threads,
           NEW t \in {Main, Own},
           NEW from \in StrikeStages \cup Locked \cup
                           {"idle", "heal", "revive", "down", "downStore"},
           NEW to \in StrikeStages \cup Locked \cup
                           {"idle", "heal", "revive", "down", "downStore"},
           Goto(t, from, to)
    PROVE  /\ at[t] = from /\ at'[t] = to
           /\ \A u \in {Main, Own} \ {t} : at'[u] = at[u]
           /\ at' \in [Threads -> StrikeStages \cup Locked \cup
                                {"idle", "heal", "revive", "down", "downStore"}]
BY DEF TypeOK, Goto

ExpStep ==
    \/ ExpUp \/ LevelUp \/ LevelHeal \/ StatPointUpLoad \/ StatPointUp
    \/ ExpDone

LEMMA ExpStepGrowth ==
    ASSUME GrowthInv, ExpStep
    PROVE  GrowthInv'
<1>1. /\ Main \in Threads /\ Own \in Threads /\ Main # Own
      /\ None # Main /\ None # Own
      /\ at[Main] \in Locked => cs = Main /\ at[Own] # "downStore"
      /\ cs = None => at[Main] \notin Locked /\ at[Own] # "downStore"
      /\ level \in Nat /\ statPoint \in Nat /\ spent \in Nat
  BY GrowthFacts
<1>2. ASSUME NEW from \in {"idle"} \cup Locked, NEW to \in {"idle"} \cup Locked,
             Goto(Main, from, to)
      PROVE  /\ at[Main] = from /\ at'[Main] = to /\ at'[Own] = at[Own]
             /\ at' \in [Threads -> StrikeStages \cup Locked \cup
                                  {"idle", "heal", "revive", "down", "downStore"}]
  BY <1>1, <1>2, StageMoves DEF GrowthInv
<1>3. ASSUME NEW value \in Int, Load(Main, value)
      PROVE  /\ reg' \in [Threads -> Int]
             /\ reg'[Main] = value /\ reg'[Own] = reg[Own]
  BY <1>1, <1>3 DEF GrowthInv, TypeOK, Load
<1>4. CASE ExpUp
  <2>1. PICK to \in {"level", "expDone"} : Goto(Main, "idle", to)
    BY <1>4 DEF ExpUp
  <2>2. /\ at[Main] = "idle" /\ at'[Main] = to /\ at'[Own] = at[Own]
        /\ at' \in [Threads -> StrikeStages \cup Locked \cup
                             {"idle", "heal", "revive", "down", "downStore"}]
    BY <1>2, <2>1 DEF Locked
  <2>3. /\ cs = None /\ cs' = Main /\ level < MaxLevel
        /\ UNCHANGED <<life, hpMax, level, statPoint, spent, reg, damage>>
        /\ full' \in {full, TRUE}
    BY <1>4 DEF ExpUp
  <2>4. TypeOK'
    BY <1>1, <2>1, <2>2, <2>3 DEF GrowthInv, TypeOK, life, Locked
  <2>5. LevelLeft' /\ RegExact' /\ PointLeft' /\ Balance'
    BY <1>1, <2>1, <2>2, <2>3
       DEF GrowthInv, LevelLeft, RegExact, PointLeft, Balance, Owed, Due
  <2> QED
    BY <2>4, <2>5 DEF GrowthInv
<1>5. CASE LevelUp
  <2>1. /\ at[Main] = "level" /\ at'[Main] = "levelHeal" /\ at'[Own] = at[Own]
        /\ at' \in [Threads -> StrikeStages \cup Locked \cup
                             {"idle", "heal", "revive", "down", "downStore"}]
    BY <1>2, <1>5 DEF LevelUp, Locked
  <2>2. /\ level' = level + 1 /\ hpMax' = HpMaxOf[level + 1]
        /\ UNCHANGED <<life, full, statPoint, cs, spent, reg, damage>>
    BY <1>5 DEF LevelUp
  <2>3. level' \in Levels /\ hpMax' \in Nat \ {0}
    BY <2>1, <2>2, NumberAssumption DEF GrowthInv, TypeOK, LevelLeft, Levels
  <2>4. TypeOK'
    BY <1>1, <2>1, <2>2, <2>3 DEF GrowthInv, TypeOK, life, Locked
  <2>5. LevelLeft' /\ RegExact' /\ PointLeft' /\ Balance'
    BY <1>1, <2>1, <2>2
       DEF GrowthInv, LevelLeft, RegExact, PointLeft, Balance, Owed, Due
  <2> QED
    BY <2>4, <2>5 DEF GrowthInv
<1>6. CASE LevelHeal
  <2>1. /\ at[Main] = "levelHeal" /\ at'[Main] = "points" /\ at'[Own] = at[Own]
        /\ at' \in [Threads -> StrikeStages \cup Locked \cup
                             {"idle", "heal", "revive", "down", "downStore"}]
    BY <1>2, <1>6 DEF LevelHeal, Locked
  <2>2. /\ hp' = hpMax /\ crossed' \subseteq crossed \cup {"levelUp"}
        /\ UNCHANGED <<death, growth, reg, damage>>
    BY <1>6 DEF LevelHeal
  <2>3. TypeOK'
    BY <1>1, <2>1, <2>2 DEF GrowthInv, TypeOK, growth, Locked
  <2>4. LevelLeft' /\ RegExact' /\ PointLeft' /\ Balance'
    BY <1>1, <2>1, <2>2
       DEF GrowthInv, LevelLeft, RegExact, PointLeft, Balance, Owed, Due, growth
  <2> QED
    BY <2>3, <2>4 DEF GrowthInv
<1>7. CASE StatPointUpLoad
  <2>1. /\ at[Main] = "points" /\ at'[Main] = "pointsStore" /\ at'[Own] = at[Own]
        /\ at' \in [Threads -> StrikeStages \cup Locked \cup
                             {"idle", "heal", "revive", "down", "downStore"}]
    BY <1>2, <1>7 DEF StatPointUpLoad, Locked
  <2>2. /\ reg' \in [Threads -> Int] /\ reg'[Main] = statPoint
        /\ reg'[Own] = reg[Own] /\ UNCHANGED <<life, growth, damage>>
    BY <1>1, <1>3, <1>7 DEF StatPointUpLoad
  <2>3. TypeOK'
    BY <1>1, <2>1, <2>2 DEF GrowthInv, TypeOK, life, growth, Locked
  <2>4. LevelLeft' /\ RegExact' /\ PointLeft' /\ Balance'
    BY <1>1, <2>1, <2>2
       DEF GrowthInv, LevelLeft, RegExact, PointLeft, Balance, Owed, Due, growth
  <2> QED
    BY <2>3, <2>4 DEF GrowthInv
<1>8. CASE StatPointUp
  <2>1. /\ at[Main] = "pointsStore" /\ at'[Main] = "expDone" /\ at'[Own] = at[Own]
        /\ at' \in [Threads -> StrikeStages \cup Locked \cup
                             {"idle", "heal", "revive", "down", "downStore"}]
    BY <1>2, <1>8 DEF StatPointUp, Locked
  <2>2. /\ reg' \in [Threads -> Int] /\ reg'[Main] = 0
        /\ reg'[Own] = reg[Own]
        /\ UNCHANGED <<life, hpMax, level, full, cs, spent, damage>>
    BY <1>1, <1>3, <1>8 DEF StatPointUp
  <2>3. statPoint' = statPoint + 4
    BY <1>8, <2>1 DEF StatPointUp, GrowthInv, RegExact
  <2>4. TypeOK'
    BY <1>1, <2>1, <2>2, <2>3 DEF GrowthInv, TypeOK, life, Locked
  <2>5. LevelLeft' /\ RegExact' /\ PointLeft' /\ Balance'
    <3>1. at[Own] # "downStore"
      BY <1>1, <2>1 DEF Locked
    <3> QED
      BY <1>1, <2>1, <2>2, <2>3, <3>1
         DEF GrowthInv, LevelLeft, RegExact, PointLeft, Balance, Owed, Due
  <2> QED
    BY <2>4, <2>5 DEF GrowthInv
<1>9. CASE ExpDone
  <2>1. /\ at[Main] = "expDone" /\ at'[Main] = "idle" /\ at'[Own] = at[Own]
        /\ at' \in [Threads -> StrikeStages \cup Locked \cup
                             {"idle", "heal", "revive", "down", "downStore"}]
    BY <1>2, <1>9 DEF ExpDone, Locked
  <2>2. /\ cs' = None
        /\ UNCHANGED <<life, hpMax, level, full, statPoint, spent, reg, damage>>
    BY <1>9 DEF ExpDone
  <2>3. TypeOK'
    BY <1>1, <2>1, <2>2 DEF GrowthInv, TypeOK, life, Locked
  <2>4. LevelLeft' /\ RegExact' /\ PointLeft' /\ Balance'
    BY <1>1, <2>1, <2>2
       DEF GrowthInv, LevelLeft, RegExact, PointLeft, Balance, Owed, Due
  <2> QED
    BY <2>3, <2>4 DEF GrowthInv
<1> QED
  BY <1>4, <1>5, <1>6, <1>7, <1>8, <1>9 DEF ExpStep

SpendStep == UpStat \/ StatPointDownLoad \/ StatPointDown

LEMMA SpendStepGrowth ==
    ASSUME GrowthInv, SpendStep
    PROVE  GrowthInv'
<1>1. /\ Main \in Threads /\ Own \in Threads /\ Main # Own
      /\ None # Main /\ None # Own
      /\ at[Own] = "downStore" => cs = Own /\ at[Main] \notin Locked
      /\ cs = None => at[Main] \notin Locked /\ at[Own] # "downStore"
      /\ level \in Nat /\ statPoint \in Nat /\ spent \in Nat
  BY GrowthFacts
<1>2. ASSUME NEW from \in {"idle", "down", "downStore"},
             NEW to \in {"idle", "down", "downStore"},
             Goto(Own, from, to)
      PROVE  /\ at[Own] = from /\ at'[Own] = to /\ at'[Main] = at[Main]
             /\ at' \in [Threads -> StrikeStages \cup Locked \cup
                                  {"idle", "heal", "revive", "down", "downStore"}]
  BY <1>1, <1>2, StageMoves DEF GrowthInv
<1>3. ASSUME NEW value \in Int, Load(Own, value)
      PROVE  /\ reg' \in [Threads -> Int]
             /\ reg'[Own] = value /\ reg'[Main] = reg[Main]
  BY <1>1, <1>3 DEF GrowthInv, TypeOK, Load
<1>4. CASE UpStat
  <2>1. /\ at[Own] = "idle" /\ at'[Own] = "down" /\ at'[Main] = at[Main]
        /\ at' \in [Threads -> StrikeStages \cup Locked \cup
                             {"idle", "heal", "revive", "down", "downStore"}]
    BY <1>2, <1>4 DEF UpStat
  <2>2. /\ statPoint >= 1 /\ spent' = spent + 1
        /\ UNCHANGED <<life, hpMax, level, full, statPoint, cs, reg, damage>>
    BY <1>1, <1>4 DEF UpStat
  <2>3. TypeOK'
    BY <1>1, <2>1, <2>2 DEF GrowthInv, TypeOK, life
  <2>4. LevelLeft' /\ RegExact' /\ PointLeft' /\ Balance'
    BY <1>1, <2>1, <2>2
       DEF GrowthInv, LevelLeft, RegExact, PointLeft, Balance, Owed, Due
  <2> QED
    BY <2>3, <2>4 DEF GrowthInv
<1>5. CASE StatPointDownLoad
  <2>1. /\ at[Own] = "down" /\ at'[Own] = "downStore" /\ at'[Main] = at[Main]
        /\ at' \in [Threads -> StrikeStages \cup Locked \cup
                             {"idle", "heal", "revive", "down", "downStore"}]
    BY <1>2, <1>5 DEF StatPointDownLoad
  <2>2. /\ reg' \in [Threads -> Int] /\ reg'[Own] = statPoint
        /\ reg'[Main] = reg[Main] /\ cs = None /\ cs' = Own
        /\ UNCHANGED <<life, hpMax, level, full, statPoint, spent, damage>>
    BY <1>1, <1>3, <1>5 DEF StatPointDownLoad
  <2>3. TypeOK'
    BY <1>1, <2>1, <2>2 DEF GrowthInv, TypeOK, life
  <2>4. LevelLeft' /\ RegExact' /\ PointLeft' /\ Balance'
    BY <1>1, <2>1, <2>2
       DEF GrowthInv, LevelLeft, RegExact, PointLeft, Balance, Owed, Due
  <2> QED
    BY <2>3, <2>4 DEF GrowthInv
<1>6. CASE StatPointDown
  <2>1. /\ at[Own] = "downStore" /\ at'[Own] = "idle" /\ at'[Main] = at[Main]
        /\ at' \in [Threads -> StrikeStages \cup Locked \cup
                             {"idle", "heal", "revive", "down", "downStore"}]
    BY <1>2, <1>6 DEF StatPointDown
  <2>2. /\ reg' \in [Threads -> Int] /\ reg'[Main] = reg[Main] /\ cs' = None
        /\ UNCHANGED <<life, hpMax, level, full, spent, damage>>
    BY <1>1, <1>3, <1>6 DEF StatPointDown
  <2>3. statPoint >= 1 /\ statPoint' = statPoint - 1
    BY <1>1, <1>6, <2>1 DEF StatPointDown, GrowthInv, RegExact, PointLeft
  <2>4. TypeOK'
    BY <1>1, <2>1, <2>2, <2>3 DEF GrowthInv, TypeOK, life
  <2>5. LevelLeft' /\ RegExact' /\ PointLeft' /\ Balance'
    <3>1. at[Main] \notin Locked
      BY <1>1, <2>1
    <3> QED
      BY <1>1, <2>1, <2>2, <2>3, <3>1
         DEF GrowthInv, LevelLeft, RegExact, PointLeft, Balance, Owed, Due, Locked
  <2> QED
    BY <2>4, <2>5 DEF GrowthInv
<1> QED
  BY <1>4, <1>5, <1>6 DEF SpendStep

LEMMA NextGrowth ==
    ASSUME GrowthInv, [Next]_vars
    PROVE  GrowthInv'
<1>1. CASE LifeStep
  BY <1>1, LifeStepGrowth
<1>2. CASE ExpStep
  BY <1>2, ExpStepGrowth
<1>3. CASE SpendStep
  BY <1>3, SpendStepGrowth
<1>4. CASE UNCHANGED vars
  BY <1>4 DEF vars, GrowthInv, TypeOK, LevelLeft, RegExact, PointLeft, Balance,
              Owed, Due
<1> QED
  BY <1>1, <1>2, <1>3, <1>4 DEF Next, LifeStep, ExpStep, SpendStep

LEMMA Growing == Spec => []GrowthInv
<1>1. Init => GrowthInv
  BY InitGrowth
<1>2. GrowthInv /\ [Next]_vars => GrowthInv'
  BY NextGrowth
<1> QED
  BY <1>1, <1>2, PTL DEF Spec

\* The variables of the player keep their types, and _cs is held exactly
\* inside its critical sections.
THEOREM TypeSafe == Spec => []TypeOK
<1>1. GrowthInv => TypeOK
  BY DEF GrowthInv
<1> QED
  BY <1>1, Growing, PTL

\* UpStat looks at _statPoint without the lock under which ExpUp adds to it;
\* still each level brings four points and each raise takes one.
THEOREM PointsAreExact == Spec => []PointsExact
<1>1. GrowthInv => PointsExact
  <2> SUFFICES ASSUME GrowthInv, cs = None, at[Own] # "down"
               PROVE  statPoint + spent = 4 * (level - 1)
    BY DEF PointsExact
  <2>1. /\ at[Main] \notin Locked /\ at[Own] # "downStore"
        /\ level \in Nat /\ statPoint \in Nat /\ spent \in Nat
    BY GrowthFacts
  <2>2. Owed = 0 /\ Due = 0
    BY <2>1 DEF Owed, Due, Locked
  <2> QED
    BY <2>1, <2>2 DEF GrowthInv, Balance
<1> QED
  BY <1>1, Growing, PTL

-----------------------------------------------------------------------------
(* Hit points and death.                                                   *)

\* A ReSpawn heals.
HealPositive == at[Own] = "heal" => reg[Own] > 0

\* Below zero only while the attack that did it has still to clamp, and the
\* value it stored, should it look at that one, says so too.
Clamping(t) == at[t] = "zero" \/ (at[t] = "clamp" /\ reg[t] <= 0)
BelowZero == hp < 0 => \E t \in Threads : Clamping(t)

\* Without hit points only while an attack has still to judge them.
Judging(t) == at[t] \in {"clamp", "zero", "judge", "die"}
ZeroNoted ==
    "respawn" \notin crossed /\ hp = 0 => death \/ \E t \in Threads : Judging(t)

\* What a ReSpawn that no attack has overlapped finds when it clears _death.
Revived ==
    "respawn" \notin crossed /\ at[Own] = "revive" => Strikers = {} /\ hp > 0

\* One attack at a time, none on the dead, who have no hit points until they
\* respawn; and none dies who has some.
Alone == crossed = {} => \A t, u \in Strikers : t = u
DeadRests ==
    crossed = {} /\ death => Strikers = {} /\ (hp = 0 \/ at[Own] = "revive")
Dying == crossed = {} => \A t \in Threads : at[t] = "die" => hp = 0

LifeInv ==
    /\ HealPositive /\ BelowZero /\ ZeroNoted /\ Revived
    /\ Alone /\ DeadRests /\ Dying

LEMMA InitLife == Init => LifeInv
<1> SUFFICES ASSUME Init PROVE LifeInv
  OBVIOUS
<1>1. Own \in Threads /\ HpMaxOf[1] \in Nat \ {0}
  BY NumberAssumption DEF Threads, Levels
<1>2. /\ hp > 0 /\ death = FALSE /\ crossed = {}
      /\ \A t \in Threads : at[t] = "idle"
  BY <1>1 DEF Init
<1>3. Strikers = {}
  BY <1>2 DEF Strikers, StrikeStages
<1>4. hp # 0 /\ ~ (hp < 0)
  BY <1>1 DEF Init
<1> QED
  BY <1>1, <1>2, <1>3, <1>4
     DEF LifeInv, HealPositive, BelowZero, ZeroNoted, Revived, Alone, DeadRests, Dying

\* One thread moves, with its register, and the others stay.
LEMMA Moved ==
    ASSUME TypeOK, NEW t \in Threads, NEW from, NEW to, Goto(t, from, to)
    PROVE  /\ at[t] = from /\ at'[t] = to
           /\ \A u \in Threads : u # t => at'[u] = at[u]
BY DEF TypeOK, Goto

LEMMA Loaded ==
    ASSUME TypeOK, NEW t \in Threads, NEW value, Load(t, value)
    PROVE  /\ reg'[t] = value
           /\ \A u \in Threads : u # t => reg'[u] = reg[u]
BY DEF TypeOK, Load

\* A blow against a living player.
LEMMA StrikeLife ==
    ASSUME TypeOK, LifeInv, NEW t \in Threads, NEW d \in TrueDamages, Strike(t, d)
    PROVE  LifeInv'
<1> USE DEF LifeInv
<1>1. /\ ~ death /\ UNCHANGED <<hp, death, reg>>
      /\ crossed' = crossed \cup {"attacks" : u \in Strikers}
                            \cup (IF at[Own] = "revive" THEN {"respawn"} ELSE {})
  BY DEF Strike, growth
<1>2. /\ at[t] = "idle" /\ at'[t] = "load"
      /\ \A u \in Threads : u # t => at'[u] = at[u]
  BY Moved DEF Strike
<1>3. Own \in Threads
  BY DEF Threads
<1>4. \A u \in Threads : /\ Clamping(u) => Clamping(u)'
                         /\ Judging(u) => Judging(u)'
  BY <1>1, <1>2 DEF Clamping, Judging
<1>5. crossed' = {} => crossed = {} /\ Strikers = {}
  BY <1>1
<1>6. "respawn" \notin crossed' => "respawn" \notin crossed /\ at[Own] # "revive"
  BY <1>1
<1>7. HealPositive'
  BY <1>1, <1>2, <1>3 DEF HealPositive
<1>8. BelowZero' /\ ZeroNoted'
  <2>1. hp' = hp /\ ~ death
    BY <1>1
  <2>2. BelowZero'
    BY <1>4, <2>1 DEF BelowZero
  <2>3. ZeroNoted'
    BY <1>4, <1>6, <2>1 DEF ZeroNoted
  <2> QED
    BY <2>2, <2>3
<1>9. Revived'
  BY <1>2, <1>3, <1>6 DEF Revived
<1>10. Alone'
  BY <1>2, <1>5 DEF Alone, Strikers
<1>11. DeadRests'
  BY <1>1 DEF DeadRests
<1>12. Dying'
  <2> SUFFICES ASSUME crossed' = {}, NEW u \in Threads, at'[u] = "die" PROVE FALSE
    BY DEF Dying
  <2> QED
    BY <1>2, <1>5 DEF Strikers, StrikeStages
<1> QED
  BY <1>7, <1>8, <1>9, <1>10, <1>11, <1>12

\* A step within an attack: no other attack is under way if none is crossed,
\* the player is not dead then, and no ReSpawn is past its healing.
LEMMA InAttack ==
    ASSUME TypeOK, LifeInv, NEW t \in Threads, at[t] \in StrikeStages
    PROVE  /\ Own \in Threads /\ t \in Strikers
           /\ "respawn" \notin crossed => at[Own] # "revive"
           /\ crossed = {} => ~ death /\ \A u \in Threads : at[u] \in StrikeStages => u = t
BY DEF LifeInv, Revived, Alone, DeadRests, Strikers, Threads

LEMMA AttackLife ==
    ASSUME TypeOK, LifeInv, NEW t \in Threads,
           \/ StrikeLoad(t) \/ StrikeStore(t) \/ Clamp(t) \/ ClampZero(t)
           \/ Judge(t) \/ Die(t)
    PROVE  LifeInv'
<1> USE DEF LifeInv
<1>1. /\ at[t] \in StrikeStages
      /\ at'[t] \in StrikeStages \cup {"idle"}
      /\ crossed' = crossed
      /\ \A u \in Threads : u # t => at'[u] = at[u] /\ reg'[u] = reg[u]
  <2>1. CASE StrikeLoad(t)
    <3>1. at[t] = "load" /\ at'[t] = "store"
          /\ \A u \in Threads : u # t => at'[u] = at[u] /\ reg'[u] = reg[u]
      BY <2>1, Moved, Loaded DEF StrikeLoad
    <3> QED
      BY <2>1, <3>1 DEF StrikeLoad, life, StrikeStages
  <2>2. CASE StrikeStore(t)
    <3>1. at[t] = "store" /\ at'[t] = "clamp"
          /\ \A u \in Threads : u # t => at'[u] = at[u] /\ reg'[u] = reg[u]
      BY <2>2, Moved, Loaded DEF StrikeStore
    <3> QED
      BY <2>2, <3>1 DEF StrikeStore, StrikeStages
  <2>3. CASE Clamp(t)
    <3>1. PICK seen \in {hp, reg[t]} : Goto(t, "clamp", IF seen <= 0 THEN "zero" ELSE "judge")
      BY <2>3 DEF Clamp
    <3>2. at[t] = "clamp" /\ at'[t] \in {"zero", "judge"}
          /\ \A u \in Threads : u # t => at'[u] = at[u]
      BY <3>1, Moved
    <3> QED
      BY <2>3, <3>2 DEF Clamp, life, StrikeStages
  <2>4. CASE ClampZero(t)
    <3>1. at[t] = "zero" /\ at'[t] = "judge"
          /\ \A u \in Threads : u # t => at'[u] = at[u]
      BY <2>4, Moved DEF ClampZero
    <3> QED
      BY <2>4, <3>1 DEF ClampZero, StrikeStages
  <2>5. CASE Judge(t)
    <3>1. at[t] = "judge" /\ at'[t] \in {"die", "idle"}
          /\ \A u \in Threads : u # t => at'[u] = at[u] /\ reg'[u] = reg[u]
      BY <2>5, Moved, Loaded DEF Judge
    <3> QED
      BY <2>5, <3>1 DEF Judge, life, StrikeStages
  <2>6. CASE Die(t)
    <3>1. at[t] = "die" /\ at'[t] = "idle"
          /\ \A u \in Threads : u # t => at'[u] = at[u]
      BY <2>6, Moved DEF Die
    <3> QED
      BY <2>6, <3>1 DEF Die, StrikeStages
  <2> QED
    BY <2>1, <2>2, <2>3, <2>4, <2>5, <2>6
<1>2. /\ Own \in Threads /\ t \in Strikers
      /\ "respawn" \notin crossed => at[Own] # "revive"
      /\ crossed = {} => ~ death /\ \A u \in Threads : at[u] \in StrikeStages => u = t
  BY <1>1, InAttack
<1>3. HealPositive'
  BY <1>1, <1>2 DEF HealPositive, StrikeStages
<1>4. Revived'
  BY <1>1, <1>2 DEF Revived, StrikeStages
<1>5. Alone'
  BY <1>1, <1>2 DEF Alone, Strikers, StrikeStages
<1>6. \A u \in Threads : u # t => /\ Clamping(u) => Clamping(u)'
                                  /\ Judging(u) => Judging(u)'
  BY <1>1 DEF Clamping, Judging
<1>7. hp \in Int /\ reg[t] \in Int
  BY DEF TypeOK
<1>8. CASE StrikeLoad(t)
  <2>1. /\ at[t] = "load" /\ at'[t] = "store" /\ UNCHANGED <<hp, death>>
    BY <1>8, Moved DEF StrikeLoad, life
  <2>2. ~ Clamping(t) /\ ~ Judging(t)
    BY <2>1 DEF Clamping, Judging
  <2>3. BelowZero' /\ ZeroNoted'
    BY <1>1, <1>6, <2>1, <2>2 DEF BelowZero, ZeroNoted
  <2>4. DeadRests' /\ Dying'
    BY <1>1, <1>2, <2>1 DEF DeadRests, Dying
  <2> QED
    BY <1>3, <1>4, <1>5, <2>3, <2>4
<1>9. CASE StrikeStore(t)
  <2>1. /\ at[t] = "store" /\ at'[t] = "clamp" /\ UNCHANGED death
        /\ hp' = reg[t] - damage[t]
    BY <1>9, Moved DEF StrikeStore
  <2>2. reg'[t] = hp'
    BY <1>9, Loaded DEF StrikeStore
  <2>3. Judging(t)' /\ (hp' < 0 => Clamping(t)')
    <3>1. damage[t] \in Int
      BY DEF TypeOK
    <3>2. hp' < 0 => reg'[t] <= 0
      BY <1>7, <2>1, <2>2, <3>1
    <3> QED
      BY <2>1, <3>2 DEF Judging, Clamping
  <2>4. BelowZero' /\ ZeroNoted'
    BY <2>3 DEF BelowZero, ZeroNoted
  <2>5. DeadRests'
    BY <1>1, <1>2, <2>1 DEF DeadRests
  <2>6. Dying'
    BY <1>1, <1>2, <2>1 DEF Dying, StrikeStages
  <2> QED
    BY <1>3, <1>4, <1>5, <2>4, <2>5, <2>6
<1>10. CASE Clamp(t)
  <2>1. PICK seen \in {hp, reg[t]} : Goto(t, "clamp", IF seen <= 0 THEN "zero" ELSE "judge")
    BY <1>10 DEF Clamp
  <2>2. /\ at[t] = "clamp" /\ at'[t] = (IF seen <= 0 THEN "zero" ELSE "judge")
    BY <2>1, Moved
  <2>3. UNCHANGED <<hp, death, reg>>
    BY <1>10 DEF Clamp, life
  <2>4. Judging(t)'
    BY <2>2 DEF Judging
  <2>5. hp < 0 /\ Clamping(t) => Clamping(t)'
    <3>1. hp < 0 /\ reg[t] <= 0 => seen <= 0
      BY <1>7, <2>1
    <3> QED
      BY <2>2, <3>1 DEF Clamping
  <2>6. BelowZero'
    BY <1>6, <2>3, <2>5 DEF BelowZero
  <2>7. ZeroNoted'
    BY <2>4 DEF ZeroNoted
  <2>8. DeadRests' /\ Dying'
    BY <1>1, <1>2, <2>2, <2>3 DEF DeadRests, Dying
  <2> QED
    BY <1>3, <1>4, <1>5, <2>6, <2>7, <2>8
<1>11. CASE ClampZero(t)
  <2>1. /\ at[t] = "zero" /\ at'[t] = "judge" /\ UNCHANGED death /\ hp' = 0
    BY <1>11, Moved DEF ClampZero
  <2>2. Judging(t)'
    BY <2>1 DEF Judging
  <2>3. BelowZero' /\ ZeroNoted'
    BY <2>1, <2>2 DEF BelowZero, ZeroNoted
  <2>4. DeadRests' /\ Dying'
    BY <1>1, <1>2, <2>1 DEF DeadRests, Dying
  <2> QED
    BY <1>3, <1>4, <1>5, <2>3, <2>4
<1>12. CASE Judge(t)
  <2>1. /\ at[t] = "judge" /\ at'[t] = (IF hp = 0 THEN "die" ELSE "idle")
        /\ UNCHANGED <<hp, death>>
    BY <1>12, Moved DEF Judge, life
  <2>2. ~ Clamping(t) /\ (hp = 0 => Judging(t)')
    BY <2>1 DEF Clamping, Judging
  <2>3. BelowZero' /\ ZeroNoted'
    BY <1>6, <2>1, <2>2 DEF BelowZero, ZeroNoted
  <2>4. DeadRests'
    BY <1>1, <1>2, <2>1 DEF DeadRests
  <2>5. Dying'
    BY <1>1, <2>1 DEF Dying
  <2> QED
    BY <1>3, <1>4, <1>5, <2>3, <2>4, <2>5
<1>13. CASE Die(t)
  <2>1. /\ at[t] = "die" /\ at'[t] = "idle" /\ hp' = hp /\ death' = TRUE
    BY <1>13, Moved DEF Die
  <2>2. ~ Clamping(t)
    BY <2>1 DEF Clamping
  <2>3. BelowZero' /\ ZeroNoted'
    BY <1>6, <2>1, <2>2 DEF BelowZero, ZeroNoted
  <2>4. DeadRests'
    <3> SUFFICES ASSUME crossed' = {} PROVE Strikers' = {} /\ hp' = 0
      BY DEF DeadRests
    <3>1. hp = 0
      BY <1>1, <2>1 DEF Dying
    <3>2. \A u \in Threads : at'[u] \notin StrikeStages
      BY <1>1, <1>2, <2>1 DEF StrikeStages
    <3> QED
      BY <2>1, <3>1, <3>2 DEF Strikers
  <2>5. Dying'
    BY <1>1, <2>1 DEF Dying
  <2> QED
    BY <1>3, <1>4, <1>5, <2>3, <2>4, <2>5
<1> QED
  BY <1>8, <1>9, <1>10, <1>11, <1>12, <1>13

\* A step that is none of an attack: each thread stays where it is in its
\* attack, so that with the same hit points nothing changes.
LEMMA OutsideAttack ==
    ASSUME TypeOK, NEW t \in Threads,
           at[t] \notin StrikeStages, at'[t] \notin StrikeStages,
           \A u \in Threads : u # t => at'[u] = at[u] /\ reg'[u] = reg[u]
    PROVE  /\ Strikers' = Strikers
           /\ \A u \in Threads : /\ Clamping(u)' <=> Clamping(u)
                                 /\ Judging(u)' <=> Judging(u)
                                 /\ at'[u] = "die" <=> at[u] = "die"
<1>1. \A u \in Threads : at'[u] \in StrikeStages <=> at[u] \in StrikeStages
  OBVIOUS
<1>2. Strikers' = Strikers
  BY <1>1 DEF Strikers
<1>3. \A u \in Threads : u # t => /\ Clamping(u)' <=> Clamping(u)
                                  /\ Judging(u)' <=> Judging(u)
                                  /\ at'[u] = "die" <=> at[u] = "die"
  BY DEF Clamping, Judging
<1>4. /\ ~ Clamping(t) /\ ~ Judging(t) /\ at[t] # "die"
      /\ ~ Clamping(t)' /\ ~ Judging(t)' /\ at'[t] # "die"
  BY DEF Clamping, Judging, StrikeStages
<1> QED
  BY <1>2, <1>3, <1>4

\* Nothing happens to hit points and death.
LEMMA LifeKept ==
    ASSUME TypeOK, LifeInv, NEW t \in Threads,
           at[t] \notin StrikeStages, at'[t] \notin StrikeStages,
           \A u \in Threads : u # t => at'[u] = at[u] /\ reg'[u] = reg[u],
           at[Own] = "revive" <=> at'[Own] = "revive",
           HealPositive', UNCHANGED life
    PROVE  LifeInv'
<1>1. /\ Strikers' = Strikers
      /\ \A u \in Threads : /\ Clamping(u)' <=> Clamping(u)
                            /\ Judging(u)' <=> Judging(u)
                            /\ at'[u] = "die" <=> at[u] = "die"
  BY OutsideAttack
<1>2. UNCHANGED <<hp, death, crossed>>
  BY DEF life
<1>3. BelowZero'
  BY <1>1, <1>2, Zenon DEF LifeInv, BelowZero
<1>4. ZeroNoted'
  BY <1>1, <1>2, Zenon DEF LifeInv, ZeroNoted
<1>5. Revived' /\ Alone' /\ DeadRests' /\ Dying'
  BY <1>1, <1>2 DEF LifeInv, Revived, Alone, DeadRests, Dying
<1> QED
  BY <1>3, <1>4, <1>5 DEF LifeInv

\* LevelUp fills the hit points, and crosses if there is anything to cross.
LEMMA LevelHealLife ==
    ASSUME GrowthInv, LifeInv, LevelHeal
    PROVE  LifeInv'
<1>1. /\ TypeOK /\ Main \in Threads /\ Own \in Threads /\ Main # Own
  BY GrowthFacts DEF GrowthInv
<1>2. /\ at[Main] = "levelHeal" /\ at'[Main] = "points"
      /\ \A u \in Threads : u # Main => at'[u] = at[u]
  BY <1>1, Moved DEF LevelHeal
<1>3. /\ hp' = hpMax /\ UNCHANGED <<death, reg>>
      /\ crossed' = crossed \cup {"levelUp" : u \in Strikers}
                            \cup (IF death THEN {"levelUp"} ELSE {})
  BY DEF LevelHeal, growth
<1>4. hp' > 0
  BY <1>1, <1>3 DEF TypeOK
<1>5. /\ Strikers' = Strikers
      /\ \A u \in Threads : at'[u] = "die" <=> at[u] = "die"
  BY <1>1, <1>2, <1>3, OutsideAttack DEF StrikeStages
<1>6. crossed' = {} => crossed = {} /\ Strikers = {} /\ ~ death
  BY <1>3
<1>7. "respawn" \notin crossed' => "respawn" \notin crossed
  BY <1>3
<1>8. HealPositive'
  BY <1>1, <1>2, <1>3 DEF LifeInv, HealPositive
<1>9. BelowZero' /\ ZeroNoted'
  BY <1>1, <1>3, <1>4 DEF BelowZero, ZeroNoted, TypeOK
<1>10. Revived'
  BY <1>1, <1>2, <1>4, <1>5, <1>7 DEF LifeInv, Revived
<1>11. Alone' /\ DeadRests'
  BY <1>3, <1>5, <1>6 DEF Alone, DeadRests
<1>12. Dying'
  <2>1. \A u \in Threads : at[u] = "die" => u \in Strikers
    BY DEF Strikers, StrikeStages
  <2> QED
    BY <1>5, <1>6, <2>1 DEF Dying
<1> QED
  BY <1>8, <1>9, <1>10, <1>11, <1>12 DEF LifeInv

\* ReSpawn heals whoever asks for it, and starts the history anew.
LEMMA ReSpawnHealLife ==
    ASSUME GrowthInv, LifeInv, ReSpawnHeal
    PROVE  LifeInv'
<1>1. TypeOK /\ Own \in Threads
  BY GrowthFacts DEF GrowthInv
<1>2. /\ at[Own] = "heal" /\ at'[Own] = "revive"
      /\ \A u \in Threads : u # Own => at'[u] = at[u] /\ reg'[u] = reg[u]
  BY <1>1, Moved, Loaded DEF ReSpawnHeal
<1>3. /\ hp' = reg[Own] /\ UNCHANGED death
      /\ crossed' = {"respawn" : u \in Strikers}
  BY DEF ReSpawnHeal
<1>4. hp' > 0 /\ hp' # 0 /\ ~ (hp' < 0)
  <2>1. reg[Own] \in Int /\ reg[Own] > 0
    BY <1>1, <1>2 DEF LifeInv, HealPositive, TypeOK
  <2> QED
    BY <1>3, <2>1
<1>5. /\ Strikers' = Strikers
      /\ \A u \in Threads : at'[u] = "die" <=> at[u] = "die"
  BY <1>1, <1>2, OutsideAttack DEF StrikeStages
<1>6. /\ crossed' = {} => Strikers = {}
      /\ "respawn" \notin crossed' => Strikers = {}
  BY <1>3
<1>7. HealPositive'
  BY <1>2 DEF HealPositive
<1>8. BelowZero' /\ ZeroNoted'
  BY <1>4 DEF BelowZero, ZeroNoted
<1>9. Revived' /\ Alone' /\ DeadRests'
  BY <1>2, <1>4, <1>5, <1>6 DEF Revived, Alone, DeadRests
<1>10. Dying'
  <2>1. \A u \in Threads : at[u] = "die" => u \in Strikers
    BY DEF Strikers, StrikeStages
  <2> QED
    BY <1>5, <1>6, <2>1 DEF Dying
<1> QED
  BY <1>7, <1>8, <1>9, <1>10 DEF LifeInv

LEMMA ReviveLife ==
    ASSUME GrowthInv, LifeInv, Revive
    PROVE  LifeInv'
<1>1. TypeOK /\ Own \in Threads /\ hp \in Int
  BY GrowthFacts DEF GrowthInv, TypeOK
<1>2. /\ at[Own] = "revive" /\ at'[Own] = "idle"
      /\ \A u \in Threads : u # Own => at'[u] = at[u]
  BY <1>1, Moved DEF Revive
<1>3. UNCHANGED <<hp, crossed, reg>> /\ death' = FALSE
  BY DEF Revive
<1>4. /\ Strikers' = Strikers
      /\ \A u \in Threads : /\ Clamping(u)' <=> Clamping(u)
                            /\ Judging(u)' <=> Judging(u)
                            /\ at'[u] = "die" <=> at[u] = "die"
  BY <1>1, <1>2, <1>3, OutsideAttack DEF StrikeStages
<1>5. HealPositive'
  BY <1>2 DEF HealPositive
<1>6. BelowZero'
  BY <1>3, <1>4, Zenon DEF LifeInv, BelowZero
<1>7. ZeroNoted'
  <2>1. "respawn" \notin crossed => hp # 0
    BY <1>1, <1>2 DEF LifeInv, Revived
  <2> QED
    BY <1>3, <2>1 DEF ZeroNoted
<1>8. Revived' /\ DeadRests'
  BY <1>2, <1>3 DEF Revived, DeadRests
<1>9. Alone' /\ Dying'
  BY <1>3, <1>4 DEF LifeInv, Alone, Dying
<1> QED
  BY <1>5, <1>6, <1>7, <1>8, <1>9 DEF LifeInv

\* The other steps leave hit points and death alone.
LEMMA ElseLife ==
    ASSUME GrowthInv, LifeInv,
           \/ ReSpawn \/ ExpUp \/ LevelUp \/ StatPointUpLoad \/ StatPointUp
           \/ ExpDone \/ UpStat \/ StatPointDownLoad \/ StatPointDown
    PROVE  LifeInv'
<1>1. /\ TypeOK /\ Main \in Threads /\ Own \in Threads /\ Main # Own
      /\ hpMax > 0
  BY GrowthFacts DEF GrowthInv, TypeOK
<1>2. UNCHANGED life
  BY DEF ReSpawn, ExpUp, LevelUp, StatPointUpLoad, StatPointUp, ExpDone, UpStat,
         StatPointDownLoad, StatPointDown
<1>3. ASSUME NEW from \in {"idle"} \cup Locked, NEW to \in {"idle"} \cup Locked,
             Goto(Main, from, to),
             \/ UNCHANGED reg
             \/ \E value : Load(Main, value)
      PROVE  LifeInv'
  <2>1. /\ at[Main] = from /\ at'[Main] = to
        /\ \A u \in Threads : u # Main => at'[u] = at[u]
    BY <1>1, <1>3, Moved
  <2>2. \A u \in Threads : u # Main => reg'[u] = reg[u]
    BY <1>1, <1>3, Loaded
  <2>3. at[Main] \notin StrikeStages /\ at'[Main] \notin StrikeStages
    BY <1>3, <2>1 DEF Locked, StrikeStages
  <2>4. HealPositive' /\ (at[Own] = "revive" <=> at'[Own] = "revive")
    BY <1>1, <2>1, <2>2 DEF LifeInv, HealPositive
  <2>5. \A u \in Threads : u # Main => at'[u] = at[u] /\ reg'[u] = reg[u]
    BY <2>1, <2>2
  <2> QED
    BY <1>1, <1>2, <2>3, <2>4, <2>5, LifeKept
<1>4. ASSUME NEW from \in {"idle", "down", "downStore"},
             NEW to \in {"idle", "down", "downStore", "heal"},
             Goto(Own, from, to),
             \/ UNCHANGED reg
             \/ \E value : Load(Own, value) /\ (to = "heal" => value > 0),
             to = "heal" => reg' # reg \/ reg[Own] > 0
      PROVE  LifeInv'
  <2>1. /\ at[Own] = from /\ at'[Own] = to
        /\ \A u \in Threads : u # Own => at'[u] = at[u]
    BY <1>1, <1>4, Moved
  <2>2. \A u \in Threads : u # Own => reg'[u] = reg[u]
    BY <1>1, <1>4, Loaded
  <2>3. at[Own] \notin StrikeStages /\ at'[Own] \notin StrikeStages
    BY <1>4, <2>1 DEF StrikeStages
  <2>4. HealPositive' /\ (at[Own] = "revive" <=> at'[Own] = "revive")
    BY <1>1, <1>4, <2>1, <2>2, Loaded DEF HealPositive
  <2>5. \A u \in Threads : u # Own => at'[u] = at[u] /\ reg'[u] = reg[u]
    BY <2>1, <2>2
  <2> QED
    BY <1>1, <1>2, <2>3, <2>4, <2>5, LifeKept
<1>5. CASE ReSpawn
  <2>1. Goto(Own, "idle", "heal") /\ Load(Own, hpMax)
    BY <1>5 DEF ReSpawn
  <2>2. reg'[Own] = hpMax
    BY <1>1, <2>1, Loaded
  <2> QED
    BY <1>1, <1>4, <2>1, <2>2
<1>6. CASE ExpUp
  <2>1. \E to \in {"level", "expDone"} : Goto(Main, "idle", to)
    BY <1>6 DEF ExpUp
  <2>2. UNCHANGED reg
    BY <1>6 DEF ExpUp
  <2> QED
    BY <1>3, <2>1, <2>2 DEF Locked
<1>7. CASE LevelUp
  BY <1>3, <1>7 DEF LevelUp, Locked
<1>8. CASE StatPointUpLoad
  BY <1>3, <1>8 DEF StatPointUpLoad, Locked
<1>9. CASE StatPointUp
  BY <1>3, <1>9 DEF StatPointUp, Locked
<1>10. CASE ExpDone
  BY <1>3, <1>10 DEF ExpDone, Locked
<1>11. CASE UpStat
  BY <1>4, <1>11 DEF UpStat
<1>12. CASE StatPointDownLoad
  BY <1>4, <1>12 DEF StatPointDownLoad
<1>13. CASE StatPointDown
  BY <1>4, <1>13 DEF StatPointDown
<1> QED
  BY <1>5, <1>6, <1>7, <1>8, <1>9, <1>10, <1>11, <1>12, <1>13

LEMMA NextLife ==
    ASSUME GrowthInv, LifeInv, [Next]_vars
    PROVE  LifeInv'
<1>1. TypeOK
  BY DEF GrowthInv
<1>2. ASSUME NEW t \in Threads, Attacked(t) PROVE LifeInv'
  <2>1. CASE \E d \in TrueDamages : Strike(t, d)
    BY <1>1, <1>2, <2>1, StrikeLife
  <2>2. CASE \/ StrikeLoad(t) \/ StrikeStore(t) \/ Clamp(t) \/ ClampZero(t)
             \/ Judge(t) \/ Die(t)
    BY <1>1, <1>2, <2>2, AttackLife
  <2> QED
    BY <1>2, <2>1, <2>2 DEF Attacked
<1>3. CASE UNCHANGED vars
  BY <1>3 DEF vars, LifeInv, HealPositive, BelowZero, Clamping, ZeroNoted,
              Judging, Revived, Alone, DeadRests, Dying, Strikers
<1>4. CASE LevelHeal \/ ReSpawnHeal \/ Revive
  BY <1>4, LevelHealLife, ReSpawnHealLife, ReviveLife
<1>5. CASE \/ ReSpawn \/ ExpUp \/ LevelUp \/ StatPointUpLoad \/ StatPointUp
           \/ ExpDone \/ UpStat \/ StatPointDownLoad \/ StatPointDown
  BY <1>5, ElseLife
<1> QED
  BY <1>2, <1>3, <1>4, <1>5 DEF Next

\* However the unlocked loads and stores of _hp and _death fall together, when
\* nobody is at work hit points are not negative, no attack that no ReSpawn
\* overlapped leaves a living player without any, and a dead player with some
\* is the work of overlapping attacks or of a LevelUp.
THEOREM LifeAgreesAtRest == Spec => []LifeAgrees
<1>1. Init => LifeInv
  BY InitLife
<1>2. GrowthInv /\ LifeInv /\ [Next]_vars => LifeInv'
  BY NextLife
<1>3. GrowthInv /\ LifeInv => LifeAgrees
  <2> SUFFICES ASSUME GrowthInv, LifeInv, Rest PROVE
                 /\ hp >= 0
                 /\ "respawn" \notin crossed => (hp = 0 => death)
                 /\ crossed = {} => (death => hp = 0)
    BY DEF LifeAgrees
  <2>1. hp \in Int /\ Own \in Threads
    BY GrowthFacts DEF GrowthInv, TypeOK
  <2>2. \A t \in Threads : ~ Clamping(t) /\ ~ Judging(t) /\ at[t] # "revive"
    BY DEF Rest, Clamping, Judging
  <2>3. hp >= 0
    BY <2>1, <2>2 DEF LifeInv, BelowZero
  <2>4. "respawn" \notin crossed => (hp = 0 => death)
    BY <2>2 DEF LifeInv, ZeroNoted
  <2>5. crossed = {} => (death => hp = 0)
    BY <2>1, <2>2 DEF LifeInv, DeadRests
  <2> QED
    BY <2>3, <2>4, <2>5
<1> QED
  BY <1>1, <1>2, <1>3, Growing, PTL DEF Spec
=============================================================================
