------------------------ MODULE MonsterField_proofs ------------------------
(***************************************************************************)
(* The safety properties of MonsterField for any number of monsters, zones *)
(* and attackers, any damage and any timer lengths.                        *)
(***************************************************************************)
EXTENDS MonsterField, FiniteSetTheorems, TLAPS

\* Where the main thread goes next is a place of the main loop.
LEMMA LoopTyped ==
    /\ \A z \in Zones : AfterZone(z) \in MainType
    /\ \A m \in Monsters : AfterMonster(m) \in MainType
BY CountAssumption
   DEF AfterZone, AfterMonster, AtZone, AtMonster, MainType, Zones, Monsters

\* The spawn loop counts down within its type.
LEMMA StillSpawning ==
    ASSUME main \in MainType, NEW z \in Zones, InSpawnLoop(z), main.left > 0
    PROVE  [main EXCEPT !.left = @ - 1] \in MainType
<1>1. main \in [at : {"zone", "spawn"}, i : Zones, left : Nat]
  BY DEF MainType, InSpawnLoop
<1>2. main.left - 1 \in Nat
  BY <1>1
<1>3. [main EXCEPT !.left = @ - 1]
        \in [at : {"zone", "spawn"}, i : Zones, left : Nat]
  BY <1>1, <1>2
<1> QED
  BY <1>3 DEF MainType

\* Any one field of a monster may be overwritten by a value of its type.
LEMMA WithField ==
    ASSUME NEW r \in MonsterType
    PROVE  /\ \A x \in States : [r EXCEPT !.state = x] \in MonsterType
           /\ \A x \in BOOLEAN : [r EXCEPT !.death = x] \in MonsterType
           /\ \A x \in Int : [r EXCEPT !.hp = x] \in MonsterType
           /\ \A x \in Players \cup {None} :
                [r EXCEPT !.target = x] \in MonsterType
           /\ \A x \in Zones : [r EXCEPT !.zone = x] \in MonsterType
           /\ \A x \in Sectors : [r EXCEPT !.pos = x] \in MonsterType
           /\ \A x \in Nat : /\ [r EXCEPT !.corners = x] \in MonsterType
                             /\ [r EXCEPT !.idle = x] \in MonsterType
                             /\ [r EXCEPT !.hurt = x] \in MonsterType
                             /\ [r EXCEPT !.cool = x] \in MonsterType
BY DEF MonsterType

\* The next state may be written over a monster together with its corners.
LEMMA WithStateCorners ==
    ASSUME NEW r \in MonsterType, NEW st \in States, NEW c \in Nat
    PROVE  /\ [r EXCEPT !.state = st, !.corners = c] \in MonsterType
           /\ [r EXCEPT !.corners = c, !.state = st] \in MonsterType
<1>1. /\ [[r EXCEPT !.state = st] EXCEPT !.corners = c] \in MonsterType
      /\ [[r EXCEPT !.corners = c] EXCEPT !.state = st] \in MonsterType
  <2>1. /\ [r EXCEPT !.state = st] \in MonsterType
        /\ [r EXCEPT !.corners = c] \in MonsterType
    BY WithField
  <2> QED
    BY <2>1, WithField
<1> QED
  BY <1>1

\* Every search leaves a well-typed monster.
LEMMA SearchTyped ==
    ASSUME NEW r \in MonsterType
    PROVE  /\ \A t \in TraceSearch(r) : t \in MonsterType
           /\ \A t \in PatrolDestSearch(r) : t \in MonsterType
           /\ \A t \in IdleChoices(r) : t \in MonsterType
<1>1. {"IDLE", "ATTACK", "TRACE", "PATROL"} \subseteq States
  BY DEF States
<1>2. 0 \in Nat /\ 1..MaxCorners \subseteq Nat
  BY NumberAssumption
<1>3. \A q \in MonsterType : \A t \in TraceSearch(q) : t \in MonsterType
  <2> SUFFICES ASSUME NEW q \in MonsterType, NEW t \in TraceSearch(q)
               PROVE  t \in MonsterType
    OBVIOUS
  <2>1. CASE t = [q EXCEPT !.state = "IDLE"]
    BY <2>1, <1>1, WithField
  <2>2. CASE t = [q EXCEPT !.state = "ATTACK", !.corners = 0]
    BY <2>2, <1>1, <1>2, WithStateCorners
  <2>3. ASSUME NEW c \in 1..MaxCorners,
               t = [q EXCEPT !.state = "TRACE", !.corners = c]
        PROVE  t \in MonsterType
    BY <2>3, <1>1, <1>2, WithStateCorners
  <2> QED
    BY <2>1, <2>2, <2>3 DEF TraceSearch
<1>4. \A t \in PatrolDestSearch(r) : t \in MonsterType
  <2> SUFFICES ASSUME NEW c \in 1..MaxCorners
               PROVE  [r EXCEPT !.state = "PATROL", !.corners = c]
                        \in MonsterType
    BY DEF PatrolDestSearch
  <2> QED
    BY <1>1, <1>2, WithStateCorners
<1>5. \A t \in AttackCheck(r) : t \in MonsterType
  BY <1>1, WithField DEF AttackCheck
<1>6. \A t \in IdleChoices(r) : t \in MonsterType
  <2> SUFFICES ASSUME NEW p \in Players,
                      NEW t \in TraceSearch([r EXCEPT !.target = p])
               PROVE  t \in MonsterType
    BY <1>4, <1>5 DEF IdleChoices
  <2>1. [r EXCEPT !.target = p] \in MonsterType
    BY WithField
  <2> QED
    BY <2>1, <1>3
<1> QED
  BY <1>3, <1>4, <1>6

\* So does everything else that overwrites several fields.
LEMMA OverwriteTyped ==
    ASSUME NEW r \in MonsterType
    PROVE  /\ \A z \in Zones, s \in Sectors : Spawned(r, z, s) \in MonsterType
           /\ Woken(r) \in MonsterType
           /\ \A h \in Hits : HitBy(r, h) \in MonsterType
           /\ Settled(r) \in MonsterType
           /\ Cleared(r) \in MonsterType
           /\ [r EXCEPT !.idle = @ + 1] \in MonsterType
           /\ [r EXCEPT !.hurt = @ + 1] \in MonsterType
           /\ [r EXCEPT !.cool = @ + 1] \in MonsterType
           /\ [r EXCEPT !.cool = 0, !.state = "IDLE"] \in MonsterType
<1>1. {"IDLE", "DEATH", "ATTACKED", "RESPAWN"} \subseteq States
  BY DEF States
<1>2. MaxHp \in Int /\ 0 \in Int /\ TRUE \in BOOLEAN /\ FALSE \in BOOLEAN
  BY NumberAssumption
<1>3. /\ r.hp \in Int
      /\ r.idle + 1 \in Nat /\ r.hurt + 1 \in Nat /\ r.cool + 1 \in Nat
  BY DEF MonsterType
<1>4. ASSUME NEW z \in Zones, NEW s \in Sectors
      PROVE  Spawned(r, z, s) \in MonsterType
  <2>1. [r EXCEPT !.state = "IDLE"] \in MonsterType
    BY <1>1, WithField
  <2>2. [[r EXCEPT !.state = "IDLE"] EXCEPT !.death = FALSE] \in MonsterType
    BY <2>1, <1>2, WithField
  <2>3. [[[r EXCEPT !.state = "IDLE"] EXCEPT !.death = FALSE]
            EXCEPT !.hp = MaxHp] \in MonsterType
    BY <2>2, <1>2, WithField
  <2>4. [[[[r EXCEPT !.state = "IDLE"] EXCEPT !.death = FALSE]
            EXCEPT !.hp = MaxHp] EXCEPT !.zone = z] \in MonsterType
    BY <2>3, WithField
  <2>5. [[[[[r EXCEPT !.state = "IDLE"] EXCEPT !.death = FALSE]
            EXCEPT !.hp = MaxHp] EXCEPT !.zone = z] EXCEPT !.pos = s]
          \in MonsterType
    BY <2>4, WithField
  <2> QED
    BY <2>5 DEF Spawned
<1>5. Woken(r) \in MonsterType
  BY <1>1, WithField DEF Woken
<1>6. ASSUME NEW h \in Hits PROVE HitBy(r, h) \in MonsterType
  <2>1. h.from \in Players \cup {None} /\ r.hp - h.damage \in Int
    <3>1. h.from \in Players /\ h.damage \in Damages
      BY DEF Hits
    <3>2. h.damage \in Int
      <4>1. \A d \in Damages : d \in Nat /\ d \in Int
        BY NumberAssumption
      <4> QED
        BY <3>1, <4>1
    <3> QED
      BY <1>3, <3>1, <3>2
  <2>2. [r EXCEPT !.state = "ATTACKED"] \in MonsterType
    BY <1>1, WithField
  <2>3. [[r EXCEPT !.state = "ATTACKED"] EXCEPT !.target = h.from]
          \in MonsterType
    BY <2>1, <2>2, WithField
  <2>4. [[[r EXCEPT !.state = "ATTACKED"] EXCEPT !.target = h.from]
            EXCEPT !.hp = r.hp - h.damage] \in MonsterType
    BY <2>1, <2>3, WithField
  <2> QED
    BY <2>4 DEF HitBy
<1>7. Settled(r) \in MonsterType
  <2>1. [r EXCEPT !.hp = 0] \in MonsterType
    BY <1>2, WithField
  <2>2. [[r EXCEPT !.hp = 0] EXCEPT !.death = TRUE] \in MonsterType
    BY <2>1, <1>2, WithField
  <2> QED
    BY <2>2 DEF Settled
<1>8. Cleared(r) \in MonsterType
  <2>1. [r EXCEPT !.state = "RESPAWN"] \in MonsterType
    BY <1>1, WithField
  <2>2. [[r EXCEPT !.state = "RESPAWN"] EXCEPT !.death = FALSE]
          \in MonsterType
    BY <2>1, <1>2, WithField
  <2>3. [[[r EXCEPT !.state = "RESPAWN"] EXCEPT !.death = FALSE]
            EXCEPT !.target = None] \in MonsterType
    BY <2>2, WithField
  <2>4. [[[[r EXCEPT !.state = "RESPAWN"] EXCEPT !.death = FALSE]
            EXCEPT !.target = None] EXCEPT !.pos = Origin] \in MonsterType
    BY <2>3, SectorAssumption, WithField
  <2>5. [[[[[r EXCEPT !.state = "RESPAWN"] EXCEPT !.death = FALSE]
            EXCEPT !.target = None] EXCEPT !.pos = Origin]
            EXCEPT !.corners = 0] \in MonsterType
    BY <2>4, WithField
  <2> QED
    BY <2>5 DEF Cleared
<1>9. [r EXCEPT !.cool = 0, !.state = "IDLE"] \in MonsterType
  <2>1. [r EXCEPT !.cool = 0] \in MonsterType
    BY WithField
  <2>2. [[r EXCEPT !.cool = 0] EXCEPT !.state = "IDLE"] \in MonsterType
    BY <2>1, <1>1, WithField
  <2> QED
    BY <2>2
<1> QED
  BY <1>3, <1>4, <1>5, <1>6, <1>7, <1>8, <1>9, WithField

\* The shape of the state is preserved by every step of every thread.
LEMMA TypeCorrect == Spec => []TypeOK
<1>1. Init => TypeOK
  <2> SUFFICES ASSUME Init PROVE TypeOK
    OBVIOUS
  <2> USE CountAssumption, NumberAssumption, SectorAssumption DEF Init
  <2>1. mon \in [Monsters -> MonsterType]
    BY DEF Pooled, MonsterType, States, Zones
  <2>2. /\ hits \in [Monsters -> Seq(Hits)] /\ batch \in Seq(Hits)
        /\ sector \in [Sectors -> SUBSET Monsters]
        /\ now \in [Zones -> Int] /\ sum \in [Zones -> Nat]
        /\ credited \in Players \cup {None}
        /\ hand \in [Players -> Monsters \cup {None}]
    OBVIOUS
  <2>3. waitQueue \in Seq(Monsters)
    BY DEF Monsters
  <2>4. main \in MainType
    BY DEF MainType, Zones
  <2> QED
    BY <2>1, <2>2, <2>3, <2>4 DEF TypeOK
<1>2. TypeOK /\ [Next]_vars => TypeOK'
  <2> SUFFICES ASSUME TypeOK, [Next]_vars PROVE TypeOK'
    OBVIOUS
  <2> USE DEF TypeOK, field
  <2>1. ASSUME NEW z \in Zones, ZoneStep(z) PROVE TypeOK'
    <3>1. CASE ZoneWaits(z)
      BY <3>1, LoopTyped DEF ZoneWaits
    <3>2. CASE ZoneDue(z)
      <4>1. SpawnCnt(z) \in Nat
        BY CountAssumption DEF SpawnCnt
      <4> QED
        BY <3>2, <4>1 DEF ZoneDue, MainType
    <3>3. CASE SpawnNothing(z)
      <4>1. main' \in MainType
        BY <3>3, StillSpawning DEF SpawnNothing
      <4> QED
        BY <3>3, <4>1 DEF SpawnNothing
    <3>4. ASSUME NEW s \in Sectors, SpawnOne(z, s) PROVE TypeOK'
      <4>1. main' \in MainType
        BY <3>4, StillSpawning DEF SpawnOne
      <4>2. Head(waitQueue) \in Monsters
        BY <3>4 DEF SpawnOne
      <4>3. Spawned(mon[Head(waitQueue)], z, s) \in MonsterType
        BY <4>2, OverwriteTyped
      <4> QED
        BY <3>4, <4>1, <4>2, <4>3 DEF SpawnOne
    <3>5. CASE SpawnDone(z)
      BY <3>5, LoopTyped DEF SpawnDone
    <3> QED
      BY <2>1, <3>1, <3>2, <3>3, <3>4, <3>5 DEF ZoneStep
  <2>2. ASSUME NEW m \in Monsters, HitStep(m) PROVE TypeOK'
    <3>1. Woken(mon[m]) \in MonsterType /\ Settled(mon[m]) \in MonsterType
      BY OverwriteTyped
    <3>2. ASSUME main = AtMonster(m) \/ main.at = "drain",
                 NEW at \in {"drain", "act"}
          PROVE  [main EXCEPT !.at = at] \in MainType
      <4>1. main \in [at : {"monster", "drain", "act"}, i : Monsters,
                      left : {0}]
        BY <3>2 DEF AtMonster, MainType
      <4>2. [main EXCEPT !.at = at]
              \in [at : {"monster", "drain", "act"}, i : Monsters,
                   left : {0}]
        BY <4>1
      <4> QED
        BY <4>2 DEF MainType
    <3>3. CASE SkipPooled(m)
      BY <3>3, LoopTyped DEF SkipPooled
    <3>4. CASE NothingToApply(m)
      BY <3>1, <3>2, <3>4 DEF NothingToApply
    <3>5. CASE SwapHits(m)
      BY <3>1, <3>2, <3>5 DEF SwapHits
    <3>6. CASE DrainOne(m)
      <4>1. Head(batch) \in Hits
        BY <3>6 DEF DrainOne
      <4>2. HitBy(mon[m], Head(batch)) \in MonsterType
        BY <4>1, OverwriteTyped
      <4> QED
        BY <3>6, <4>2 DEF DrainOne
    <3>7. CASE DrainDone(m)
      BY <3>1, <3>2, <3>7 DEF DrainDone
    <3> QED
      BY <2>2, <3>3, <3>4, <3>5, <3>6, <3>7 DEF HitStep
  <2>3. ASSUME NEW m \in Monsters, ActStep(m) PROVE TypeOK'
    <3>1. ASSUME NEW r \in MonsterType, Stays(m, r) PROVE TypeOK'
      BY <3>1, LoopTyped DEF Stays, Becomes
    <3>2. ASSUME NEW r \in MonsterType, NEW s \in Sectors, Moves(m, r, s)
          PROVE  TypeOK'
      <4>1. [r EXCEPT !.pos = s] \in MonsterType
        BY DEF MonsterType
      <4>2. sector' \in [Sectors -> SUBSET Monsters]
        BY <3>2 DEF Moves, MoveTo
      <4> QED
        BY <3>2, <4>1, <4>2, LoopTyped DEF Moves, MoveTo
    <3> HIDE DEF TypeOK
    <3>m. mon[m] \in MonsterType
      BY DEF TypeOK
    <3>i. [mon[m] EXCEPT !.idle = 0] \in MonsterType
      BY <3>m, WithField
    <3>h. [mon[m] EXCEPT !.hurt = 0] \in MonsterType
      BY <3>m, WithField
    <3>3. CASE UpdateIdle(m)
      <4>1. CASE Stays(m, [mon[m] EXCEPT !.idle = @ + 1])
        BY <3>1, <3>m, <4>1, OverwriteTyped
      <4>2. ASSUME NEW r \in IdleChoices([mon[m] EXCEPT !.idle = 0]),
                   Stays(m, r)
            PROVE  TypeOK'
        BY <3>1, <3>i, <4>2, SearchTyped
      <4> QED
        BY <3>3, <4>1, <4>2 DEF UpdateIdle
    <3>4. CASE UpdateAttack(m)
      <4>1. [mon[m] EXCEPT !.state = "COOL_TIME"] \in MonsterType
        BY <3>m, WithField DEF States
      <4> QED
        BY <3>1, <3>4, <4>1 DEF UpdateAttack
    <3>5. CASE UpdateCoolTime(m)
      BY <3>1, <3>5, <3>m, OverwriteTyped DEF UpdateCoolTime
    <3>6. CASE UpdateAttacked(m)
      <4>1. CASE Stays(m, [mon[m] EXCEPT !.hurt = @ + 1])
        BY <3>1, <3>m, <4>1, OverwriteTyped
      <4>2. CASE Stays(m, [mon[m] EXCEPT !.hurt = 0])
        BY <3>1, <3>h, <4>2
      <4>3. ASSUME NEW t \in TraceSearch([mon[m] EXCEPT !.hurt = 0]),
                   Stays(m, t)
            PROVE  TypeOK'
        BY <3>1, <3>h, <4>3, SearchTyped
      <4> QED
        BY <3>6, <4>1, <4>2, <4>3 DEF UpdateAttacked
    <3>7. ASSUME NEW s \in Sectors, Walk(m, s) PROVE TypeOK'
      <4>1. PICK c \in {mon[m].corners, mon[m].corners - 1} \cap 1..MaxCorners :
                Moves(m, [mon[m] EXCEPT !.corners = c], s)
        BY <3>7 DEF Walk
      <4>2. c \in Nat
        BY <4>1, NumberAssumption
      <4>3. [mon[m] EXCEPT !.corners = c] \in MonsterType
        BY <3>m, <4>2, WithField
      <4> QED
        BY <3>2, <4>1, <4>3
    <3>8. ASSUME NEW s \in Sectors, PatrolEnds(m, s) PROVE TypeOK'
      <4>1. [mon[m] EXCEPT !.corners = 0, !.state = "IDLE"] \in MonsterType
        BY <3>m, WithStateCorners DEF States
      <4> QED
        BY <3>2, <3>8, <4>1 DEF PatrolEnds
    <3>9. ASSUME NEW s \in Sectors, TraceEnds(m, s) PROVE TypeOK'
      <4> DEFINE r == [mon[m] EXCEPT !.corners = 0, !.state = "ATTACK"]
      <4>1. r \in MonsterType
        BY <3>m, WithStateCorners DEF States
      <4>2. PICK t \in TraceSearch(r) : Moves(m, t, s)
        BY <3>9 DEF TraceEnds
      <4>3. t \in MonsterType
        BY <4>1, <4>2, SearchTyped
      <4> QED
        BY <3>2, <4>2, <4>3, Zenon
    <3>10. CASE UpdateDeath(m)
      <4>1. /\ Cleared(mon[m]) \in MonsterType
            /\ mon[m].target \in Players \cup {None}
            /\ mon[m].zone \in Zones /\ mon[m].pos \in Sectors
        BY <3>m, OverwriteTyped DEF MonsterType
      <4>2. (now[mon[m].zone] - 1) % Word \in Int
        BY <4>1, CountAssumption DEF TypeOK
      <4>3. Append(waitQueue, m) \in Seq(Monsters)
        BY DEF TypeOK
      <4> QED
        BY <3>10, <4>1, <4>2, <4>3, LoopTyped DEF UpdateDeath, TypeOK
    <3> QED
      BY <2>3, <3>3, <3>4, <3>5, <3>6, <3>7, <3>8, <3>9, <3>10 DEF ActStep
  <2>6. ASSUME NEW m \in Monsters, NoWayStep(m) PROVE TypeOK'
    <3>1. mon[m] \in MonsterType
      OBVIOUS
    <3>2. main' \in MainType
      <4>1. main.at = "act" /\ main' = [main EXCEPT !.at = "trapped"]
        BY <2>6 DEF NoWayStep, IdleNoWay, AttackedNoWay, TraceNoWay, Acts,
                    GetsTrapped
      <4> QED
        BY <4>1 DEF MainType
    <3>3. ASSUME NEW r \in MonsterType, Becomes(m, r) PROVE TypeOK'
      BY <3>2, <3>3 DEF Becomes
    <3>4. CASE IdleNoWay(m)
      <4>1. PICK t \in {None} \cup Players :
                Becomes(m, [mon[m] EXCEPT !.idle = @ + 1, !.target = t])
        BY <3>4 DEF IdleNoWay
      <4>2. [[mon[m] EXCEPT !.idle = @ + 1] EXCEPT !.target = t] \in MonsterType
        BY <3>1, OverwriteTyped, WithField
      <4> QED
        BY <3>3, <4>1, <4>2
    <3>5. CASE AttackedNoWay(m)
      BY <3>1, <3>3, <3>5, OverwriteTyped DEF AttackedNoWay
    <3>6. ASSUME NEW s \in Sectors, TraceNoWay(m, s) PROVE TypeOK'
      <4> DEFINE r == [mon[m] EXCEPT !.corners = 0, !.state = "ATTACK"]
      <4>1. r \in MonsterType
        BY <3>1, WithStateCorners DEF States
      <4>2. [r EXCEPT !.pos = s] \in MonsterType
        BY <4>1, WithField
      <4>3. MoveTo(m, r, s)
        BY <3>6 DEF TraceNoWay
      <4> HIDE DEF r
      <4>4. sector' \in [Sectors -> SUBSET Monsters]
        BY <4>3 DEF MoveTo
      <4> QED
        BY <3>2, <4>2, <4>3, <4>4, SMTT(30) DEF MoveTo
    <3> QED
      BY <2>6, <3>4, <3>5, <3>6 DEF NoWayStep
  <2>4. ASSUME NEW p \in Players, DispatchStep(p) PROVE TypeOK'
    <3>1. ASSUME NEW m \in Monsters, CheckTarget(p, m) PROVE TypeOK'
      BY <3>1 DEF CheckTarget
    <3>2. ASSUME NEW d \in Damages, PushHit(p, d) PROVE TypeOK'
      <4>1. [from |-> p, damage |-> d] \in Hits
        BY DEF Hits
      <4>2. hand[p] \in Monsters
        BY <3>2 DEF PushHit
      <4>3. Append(hits[hand[p]], [from |-> p, damage |-> d]) \in Seq(Hits)
        BY <4>1, <4>2
      <4> QED
        BY <3>2, <4>2, <4>3 DEF PushHit
    <3> QED
      BY <2>4, <3>1, <3>2 DEF DispatchStep
  <2>5. CASE UNCHANGED vars
    BY <2>5 DEF vars
  <2> QED
    BY <2>1, <2>2, <2>3, <2>4, <2>5, <2>6 DEF Next, MainStep, WalksBackForEver
<1> QED
  BY <1>1, <1>2, PTL DEF Spec

-----------------------------------------------------------------------------
(* What the state of one monster must satisfy, and where the main thread   *)
(* stands, make the property of each monster inductive.                    *)

TargetStates == {"ATTACK", "ATTACKED", "TRACE", "DEATH", "COOL_TIME"}

Sane(r) ==
    /\ r.state \in TargetStates => r.target # None
    /\ r.death => r.state \in {"ATTACKED", "DEATH"}
    /\ r.state = "DEATH" => r.death
    /\ r.state = "RESPAWN" => r.target = None

Counted(r) ==
    /\ r.hp >= 0
    /\ r.state # "RESPAWN" => (r.death <=> r.hp = 0)

Draining(m) == main.at = "drain" /\ main.i = m

MonsterInv ==
    \A m \in Monsters :
        /\ Sane(mon[m])
        /\ ~ Draining(m) => Counted(mon[m])
        /\ Draining(m) => /\ mon[m].death => mon[m].hp <= 0
                          /\ mon[m].state = "ATTACKED" \/ batch # << >>
        /\ main.at \in {"drain", "act"} /\ main.i = m => Live(m)

\* What an act other than dying leaves of the monster q: a dead one still has
\* the target that is to be paid.
Keeps(q, r) ==
    /\ r \in MonsterType /\ r.state # "RESPAWN" /\ Sane(r)
    /\ r.death = q.death /\ r.hp = q.hp /\ r.zone = q.zone /\ r.pos = q.pos
    /\ q.death => r.target = q.target

\* A search by a living monster keeps it sane, with a target in hand.
LEMMA SearchKeeps ==
    ASSUME NEW r \in MonsterType, ~ r.death, r.target # None
    PROVE  \A t \in TraceSearch(r) : Keeps(r, t)
<1> SUFFICES ASSUME NEW t \in TraceSearch(r) PROVE Keeps(r, t)
  OBVIOUS
<1>1. t \in MonsterType
  BY SearchTyped
<1>2. CASE t = [r EXCEPT !.state = "IDLE"]
  BY <1>1, <1>2 DEF Keeps, Sane, TargetStates, MonsterType
<1>3. CASE t = [r EXCEPT !.state = "ATTACK", !.corners = 0]
  BY <1>1, <1>3 DEF Keeps, Sane, TargetStates, MonsterType
<1>4. ASSUME NEW c \in 1..MaxCorners,
             t = [r EXCEPT !.state = "TRACE", !.corners = c]
      PROVE  Keeps(r, t)
  BY <1>1, <1>4 DEF Keeps, Sane, TargetStates, MonsterType
<1> QED
  BY <1>2, <1>3, <1>4 DEF TraceSearch

\* So does everything UpdateIdle may choose for an idle monster.
LEMMA IdleKeeps ==
    ASSUME NEW r \in MonsterType, ~ r.death, r.state = "IDLE"
    PROVE  \A t \in IdleChoices(r) : Keeps(r, t)
<1> SUFFICES ASSUME NEW t \in IdleChoices(r) PROVE Keeps(r, t)
  OBVIOUS
<1>1. t \in MonsterType
  BY SearchTyped
<1>2. ASSUME r.target # None, t \in AttackCheck(r) PROVE Keeps(r, t)
  BY <1>1, <1>2 DEF AttackCheck, Keeps, Sane, TargetStates, MonsterType
<1>3. ASSUME t \in PatrolDestSearch(r) PROVE Keeps(r, t)
  <2>1. CASE t = r
    BY <1>1, <2>1 DEF Keeps, Sane, TargetStates
  <2>2. ASSUME NEW c \in 1..MaxCorners,
               t = [r EXCEPT !.state = "PATROL", !.corners = c]
        PROVE  Keeps(r, t)
    BY <1>1, <2>2 DEF Keeps, Sane, TargetStates, MonsterType
  <2> QED
    BY <1>3, <2>1, <2>2 DEF PatrolDestSearch
<1>4. ASSUME NEW p \in Players, t \in TraceSearch([r EXCEPT !.target = p])
      PROVE  Keeps(r, t)
  <2> DEFINE q == [r EXCEPT !.target = p]
  <2>1. /\ q \in MonsterType /\ q.death = r.death /\ q.hp = r.hp
        /\ q.zone = r.zone /\ q.pos = r.pos /\ q.target = p
    BY WithField DEF MonsterType
  <2>2. Keeps(q, t)
    BY <1>4, <2>1, SearchKeeps, NoneAssumption
  <2> QED
    BY <2>1, <2>2 DEF Keeps
<1> QED
  BY <1>2, <1>3, <1>4 DEF IdleChoices

\* Every act but UpdateDeath leaves a sane, living monster with the same hp,
\* death flag and zone, where it stood or in some sector.
LEMMA ActKeepsOrMoves ==
    ASSUME TypeOK, MonsterInv, NEW m \in Monsters, ActStep(m),
           ~ UpdateDeath(m)
    PROVE  \E r : /\ Keeps(mon[m], r)
                  /\ Stays(m, r) \/ \E s \in Sectors : Moves(m, r, s)
<1> DEFINE q == mon[m]
<1>1. q \in MonsterType /\ Sane(q)
  BY DEF TypeOK, MonsterInv
<1>2. CASE UpdateIdle(m)
  <2>1. q.state = "IDLE" /\ ~ q.death
    BY <1>1, <1>2 DEF UpdateIdle, Acts, Sane
  <2>2. CASE Stays(m, [q EXCEPT !.idle = @ + 1])
    <3>1. Keeps(q, [q EXCEPT !.idle = @ + 1])
      BY <1>1, <2>1, OverwriteTyped DEF Keeps, Sane, TargetStates, MonsterType
    <3> QED
      BY <2>2, <3>1
  <2>3. ASSUME NEW t \in IdleChoices([q EXCEPT !.idle = 0]), Stays(m, t)
        PROVE  Keeps(q, t)
    <3> DEFINE r == [q EXCEPT !.idle = 0]
    <3>1. /\ r \in MonsterType /\ r.state = "IDLE" /\ r.death = q.death
          /\ r.hp = q.hp /\ r.zone = q.zone /\ r.pos = q.pos
      BY <1>1, <2>1, WithField DEF MonsterType
    <3>2. Keeps(r, t)
      BY <2>1, <3>1, IdleKeeps
    <3> QED
      BY <3>1, <3>2 DEF Keeps
  <2> QED
    BY <1>2, <2>2, <2>3 DEF UpdateIdle
<1>3. CASE UpdateAttack(m)
  <2>1. q.state = "ATTACK"
    BY <1>3 DEF UpdateAttack, Acts
  <2>2. [q EXCEPT !.state = "COOL_TIME"] \in MonsterType
    BY <1>1, WithField DEF States
  <2>3. Keeps(q, [q EXCEPT !.state = "COOL_TIME"])
    BY <1>1, <2>1, <2>2 DEF Keeps, Sane, TargetStates, MonsterType
  <2> QED
    BY <1>3, <2>3 DEF UpdateAttack
<1>4. CASE UpdateCoolTime(m)
  <2>1. q.state = "COOL_TIME"
    BY <1>4 DEF UpdateCoolTime, Acts
  <2>2. Keeps(q, [q EXCEPT !.cool = @ + 1])
    BY <1>1, <2>1, OverwriteTyped DEF Keeps, Sane, TargetStates, MonsterType
  <2>3. Keeps(q, [q EXCEPT !.cool = 0, !.state = "IDLE"])
    BY <1>1, <2>1, OverwriteTyped DEF Keeps, Sane, TargetStates, MonsterType
  <2> QED
    BY <1>4, <2>2, <2>3 DEF UpdateCoolTime
<1>5. CASE UpdateAttacked(m)
  <2>1. q.state = "ATTACKED" /\ q.target # None
    BY <1>1, <1>5 DEF UpdateAttacked, Acts, Sane, TargetStates
  <2>2. Keeps(q, [q EXCEPT !.hurt = @ + 1])
    BY <1>1, <2>1, OverwriteTyped DEF Keeps, Sane, TargetStates, MonsterType
  <2> DEFINE r == [q EXCEPT !.hurt = 0]
  <2>3. /\ r \in MonsterType /\ r.state = "ATTACKED" /\ r.death = q.death
        /\ r.hp = q.hp /\ r.zone = q.zone /\ r.pos = q.pos
        /\ r.target = q.target /\ r.corners = q.corners
    BY <1>1, <2>1, WithField DEF MonsterType
  <2>4. Keeps(q, r)
    BY <1>1, <2>1, <2>3 DEF Keeps, Sane, TargetStates
  <2>5. ASSUME ~ r.death, NEW t \in TraceSearch(r) PROVE Keeps(q, t)
    <3>1. Keeps(r, t)
      BY <2>1, <2>3, <2>5, SearchKeeps
    <3> QED
      BY <2>3, <3>1 DEF Keeps
  <2> HIDE DEF r
  <2> QED
    BY <1>5, <2>2, <2>4, <2>5 DEF UpdateAttacked, r
<1>6. ASSUME NEW s \in Sectors, Walk(m, s)
      PROVE  \E r : Keeps(q, r) /\ Moves(m, r, s)
  <2>1. PICK c \in {q.corners, q.corners - 1} \cap 1..MaxCorners :
            Moves(m, [q EXCEPT !.corners = c], s)
    BY <1>6 DEF Walk
  <2>2. c \in Nat /\ c > 0
    BY <2>1, NumberAssumption
  <2>3. q.state \in {"PATROL", "TRACE"}
    BY <1>6 DEF Walk, Acts
  <2>4. [q EXCEPT !.corners = c] \in MonsterType
    BY <1>1, <2>2, WithField
  <2>5. Keeps(q, [q EXCEPT !.corners = c])
    BY <1>1, <2>2, <2>3, <2>4 DEF Keeps, Sane, TargetStates, MonsterType
  <2> QED
    BY <2>1, <2>5
<1>7. ASSUME NEW s \in Sectors, PatrolEnds(m, s)
      PROVE  \E r : Keeps(q, r) /\ Moves(m, r, s)
  <2> DEFINE r == [q EXCEPT !.corners = 0, !.state = "IDLE"]
  <2>1. q.state = "PATROL" /\ Moves(m, r, s)
    BY <1>7 DEF PatrolEnds, Acts
  <2>2. r \in MonsterType
    BY <1>1, WithStateCorners DEF States
  <2>3. Keeps(q, r)
    BY <1>1, <2>1, <2>2 DEF Keeps, Sane, TargetStates, MonsterType
  <2> QED
    BY <2>1, <2>3
<1>8. ASSUME NEW s \in Sectors, TraceEnds(m, s)
      PROVE  \E r : Keeps(q, r) /\ Moves(m, r, s)
  <2> DEFINE r == [q EXCEPT !.corners = 0, !.state = "ATTACK"]
  <2>1. q.state = "TRACE" /\ \E t \in TraceSearch(r) : Moves(m, t, s)
    BY <1>8, Zenon DEF TraceEnds, Acts
  <2>2. r \in MonsterType
    BY <1>1, WithStateCorners DEF States
  <2>3. /\ ~ r.death /\ r.target # None /\ r.death = q.death /\ r.hp = q.hp
        /\ r.zone = q.zone /\ r.pos = q.pos
    BY <1>1, <2>1 DEF Sane, TargetStates, MonsterType
  <2>4. ASSUME NEW t \in TraceSearch(r) PROVE Keeps(q, t)
    <3>1. Keeps(r, t)
      BY <2>2, <2>3, SearchKeeps
    <3> QED
      BY <2>3, <3>1 DEF Keeps
  <2> QED
    BY <2>1, <2>4
<1> QED
  BY <1>2, <1>3, <1>4, <1>5, <1>6, <1>7, <1>8 DEF ActStep

\* After any step the main thread is at work only on the monster it had, or
\* on none.
LEMMA LoopPlaces ==
    /\ \A z \in Zones : AfterZone(z).at \notin {"drain", "act"}
    /\ \A m \in Monsters : AfterMonster(m).at \notin {"drain", "act"}
BY DEF AfterZone, AfterMonster, AtZone, AtMonster

\* Nor is it in the middle of a batch of spawns.
LEMMA LoopSpawns ==
    /\ \A z \in Zones : AfterZone(z).at # "spawn"
    /\ \A m \in Monsters : AfterMonster(m).at # "spawn"
BY DEF AfterZone, AfterMonster, AtZone, AtMonster

\* A search that does not end leaves the monster sane, too.
LEMMA NoWayKeeps ==
    ASSUME TypeOK, MonsterInv, NEW m \in Monsters, NoWayStep(m)
    PROVE  \E r : /\ Keeps(mon[m], r)
                  /\ Becomes(m, r) \/ \E s \in Sectors : MoveTo(m, r, s)
<1> DEFINE q == mon[m]
<1>1. q \in MonsterType /\ Sane(q)
  BY DEF TypeOK, MonsterInv
<1>2. CASE IdleNoWay(m)
  <2>1. q.state = "IDLE" /\ ~ q.death
    BY <1>1, <1>2 DEF IdleNoWay, Acts, Sane
  <2>2. PICK t \in {None} \cup Players :
            Becomes(m, [q EXCEPT !.idle = @ + 1, !.target = t])
    BY <1>2 DEF IdleNoWay
  <2> DEFINE r == [q EXCEPT !.idle = @ + 1, !.target = t]
  <2>3. [[q EXCEPT !.idle = @ + 1] EXCEPT !.target = t] \in MonsterType
    BY <1>1, OverwriteTyped, WithField
  <2>4. Keeps(q, r)
    BY <1>1, <2>1, <2>3 DEF Keeps, Sane, TargetStates, MonsterType
  <2> QED
    BY <2>2, <2>4
<1>3. CASE AttackedNoWay(m)
  <2>1. q.state = "ATTACKED"
    BY <1>3 DEF AttackedNoWay, Acts
  <2>2. Keeps(q, [q EXCEPT !.hurt = @ + 1])
    BY <1>1, <2>1, OverwriteTyped, ZenonT(30) DEF Keeps, Sane, TargetStates, MonsterType
  <2> QED
    BY <1>3, <2>2 DEF AttackedNoWay
<1>4. ASSUME NEW s \in Sectors, TraceNoWay(m, s)
      PROVE  \E r : Keeps(q, r) /\ MoveTo(m, r, s)
  <2> DEFINE r == [q EXCEPT !.corners = 0, !.state = "ATTACK"]
  <2>1. q.state = "TRACE" /\ MoveTo(m, r, s)
    BY <1>4 DEF TraceNoWay, Acts
  <2>2. r \in MonsterType
    BY <1>1, WithStateCorners DEF States
  <2>3. Keeps(q, r)
    BY <1>1, <2>1, <2>2 DEF Keeps, Sane, TargetStates, MonsterType
  <2> QED
    BY <2>1, <2>3
<1> QED
  BY <1>2, <1>3, <1>4 DEF NoWayStep

\* The second half of an update that does not bury the monster, whether its
\* search comes to an end or not.
Acted(m) == NoWayStep(m) \/ (ActStep(m) /\ ~ UpdateDeath(m))

LEMMA ActKeeps ==
    ASSUME TypeOK, MonsterInv, NEW m \in Monsters, Acted(m)
    PROVE  /\ main.at = "act" /\ main.i = m
           /\ main'.at \notin {"drain", "act", "spawn"}
           /\ UNCHANGED <<hits, batch, waitQueue, now, sum, credited, hand>>
           /\ \E r : /\ Keeps(mon[m], r)
                     /\ Becomes(m, r) \/ \E s \in Sectors : MoveTo(m, r, s)
<1>1. main.at = "act" /\ main.i = m
  BY DEF Acted, ActStep, UpdateIdle, UpdateAttack, UpdateCoolTime,
         UpdateAttacked, Walk, PatrolEnds, TraceEnds, Acts,
         NoWayStep, IdleNoWay, AttackedNoWay, TraceNoWay
<1>2. CASE NoWayStep(m)
  <2>1. main'.at = "trapped"
    BY <1>2 DEF NoWayStep, IdleNoWay, AttackedNoWay, TraceNoWay, GetsTrapped,
                TypeOK, MainType
  <2>2. PICK r : /\ Keeps(mon[m], r)
                 /\ Becomes(m, r) \/ \E s \in Sectors : MoveTo(m, r, s)
    BY <1>2, NoWayKeeps
  <2>3. UNCHANGED <<hits, batch, waitQueue, now, sum, credited, hand>>
    BY <2>2 DEF Becomes, MoveTo, field
  <2> QED
    BY <1>1, <2>1, <2>2, <2>3
<1>3. CASE ActStep(m) /\ ~ UpdateDeath(m)
  <2>1. PICK r : /\ Keeps(mon[m], r)
                 /\ Stays(m, r) \/ \E s \in Sectors : Moves(m, r, s)
    BY <1>3, ActKeepsOrMoves
  <2>2. UNCHANGED <<hits, batch, waitQueue, now, sum, credited, hand>>
    BY <2>1 DEF Stays, Moves, Becomes, MoveTo, field
  <2>3. main'.at \notin {"drain", "act", "spawn"}
    BY <2>1, LoopPlaces, LoopSpawns DEF Stays, Moves
  <2>4. Becomes(m, r) \/ \E s \in Sectors : MoveTo(m, r, s)
    BY <2>1 DEF Stays, Moves
  <2> QED
    BY <1>1, <2>1, <2>2, <2>3, <2>4
<1> QED
  BY <1>2, <1>3 DEF Acted

\* MonsterInv survives every step.
LEMMA MonsterStep ==
    ASSUME TypeOK, MonsterInv, [Next]_vars
    PROVE  MonsterInv'
<1> USE DEF MonsterInv
<1>0. \A m \in Monsters : mon[m] \in MonsterType
  BY DEF TypeOK
<1>1. ASSUME NEW z \in Zones, ZoneStep(z) PROVE MonsterInv'
  <2>1. CASE ZoneWaits(z)
    BY <2>1, LoopPlaces DEF ZoneWaits, AtZone, Draining, Live
  <2>2. CASE ZoneDue(z)
    BY <2>2 DEF ZoneDue, AtZone, Draining, Live
  <2>3. CASE SpawnNothing(z)
    BY <2>3 DEF SpawnNothing, InSpawnLoop, Draining, Live, TypeOK, MainType
  <2>4. ASSUME NEW s \in Sectors, SpawnOne(z, s) PROVE MonsterInv'
    <3> DEFINE m == Head(waitQueue)
               r == Spawned(mon[m], z, s)
    <3>1. m \in Monsters
      BY <2>4 DEF SpawnOne, TypeOK
    <3>2. Sane(r) /\ Counted(r)
      BY <1>0, <3>1, NumberAssumption
         DEF Spawned, Sane, Counted, TargetStates, MonsterType
    <3>3. main.at = "spawn" /\ main'.at = "spawn"
      BY <2>4 DEF SpawnOne, InSpawnLoop, TypeOK, MainType
    <3>4. mon' = [mon EXCEPT ![m] = r]
      BY <2>4 DEF SpawnOne
    <3> HIDE DEF r, m
    <3> QED
      BY <3>1, <3>2, <3>3, <3>4 DEF Draining, TypeOK
  <2>5. CASE SpawnDone(z)
    BY <2>5, LoopPlaces DEF SpawnDone, InSpawnLoop, Draining, Live
  <2> QED
    BY <1>1, <2>1, <2>2, <2>3, <2>4, <2>5 DEF ZoneStep
<1>2. ASSUME NEW m \in Monsters, HitStep(m) PROVE MonsterInv'
  <2> DEFINE q == mon[m]
  <2>1. CASE SkipPooled(m)
    BY <2>1, LoopPlaces DEF SkipPooled, AtMonster, Draining, Live
  <2>2. ASSUME main = AtMonster(m), Live(m),
               mon' = [mon EXCEPT ![m] = Woken(mon[m])],
               NEW at \in {"drain", "act"},
               main' = [main EXCEPT !.at = at],
               at = "drain" => batch' # << >>
        PROVE  MonsterInv'
    <3>1. Sane(q) /\ Counted(q) /\ q.state # "RESPAWN"
      BY <2>2 DEF AtMonster, Draining, Live
    <3>2. /\ Sane(Woken(q)) /\ Counted(Woken(q))
          /\ Woken(q).state # "RESPAWN"
          /\ Woken(q).death => Woken(q).hp <= 0
      BY <1>0, <3>1 DEF Woken, Sane, Counted, TargetStates, MonsterType
    <3>3. main'.i = m /\ main'.at = at /\ main.at = "monster"
      BY <2>2 DEF AtMonster
    <3> QED
      BY <2>2, <3>2, <3>3 DEF Draining, Live, TypeOK
  <2>3. CASE NothingToApply(m)
    BY <2>2, <2>3 DEF NothingToApply
  <2>4. CASE SwapHits(m)
    BY <2>2, <2>4 DEF SwapHits
  <2>5. CASE DrainOne(m)
    <3> DEFINE h == Head(batch)
    <3>1. h \in Hits
      BY <2>5 DEF DrainOne, TypeOK
    <3>2. h.from # None /\ h.damage >= 0 /\ h.damage \in Int
      <4>1. h.from \in Players /\ h.damage \in Damages
        BY <3>1 DEF Hits
      <4>2. \A d \in Damages : d \in Nat
        BY NumberAssumption
      <4> QED
        BY <4>1, <4>2, NoneAssumption
    <3>3. q.death => q.hp <= 0
      BY <2>5 DEF DrainOne, Draining
    <3>4. q.hp \in Int
      BY <1>0 DEF MonsterType
    <3>5. /\ HitBy(q, h).state = "ATTACKED" /\ HitBy(q, h).target = h.from
          /\ HitBy(q, h).death = q.death /\ HitBy(q, h).hp = q.hp - h.damage
      BY <1>0 DEF HitBy, MonsterType
    <3>6. /\ Sane(HitBy(q, h)) /\ HitBy(q, h).state # "RESPAWN"
          /\ HitBy(q, h).death => HitBy(q, h).hp <= 0
      BY <3>2, <3>3, <3>4, <3>5 DEF Sane, TargetStates
    <3> QED
      BY <2>5, <3>5, <3>6 DEF DrainOne, Draining, Live, TypeOK
  <2>6. CASE DrainDone(m)
    <3>1. /\ Sane(q) /\ q.state # "RESPAWN"
          /\ q.death => q.hp <= 0
          /\ q.hp \in Int
      BY <1>0, <2>6 DEF DrainDone, Draining, Live, MonsterType
    <3>2. q.state = "ATTACKED"
      BY <2>6 DEF DrainDone, Draining
    <3>3. /\ Sane(Settled(q)) /\ Counted(Settled(q))
          /\ Settled(q).state # "RESPAWN"
      BY <1>0, <3>1, <3>2
         DEF Settled, Sane, Counted, TargetStates, MonsterType
    <3>4. main'.at = "act" /\ main'.i = m
      BY <2>6 DEF DrainDone, TypeOK, MainType
    <3> QED
      BY <2>6, <3>3, <3>4 DEF DrainDone, Draining, Live, TypeOK
  <2> QED
    BY <1>2, <2>1, <2>3, <2>4, <2>5, <2>6 DEF HitStep
<1>3. ASSUME NEW m \in Monsters, Acted(m)
      PROVE  MonsterInv'
  <2>1. PICK r : /\ Keeps(mon[m], r)
                 /\ Becomes(m, r) \/ \E s \in Sectors : MoveTo(m, r, s)
    BY <1>3, ActKeeps
  <2>2. main.at = "act" /\ main.i = m /\ main'.at \notin {"drain", "act"}
    BY <1>3, ActKeeps
  <2>3. Counted(mon[m])
    BY <2>2 DEF Draining
  <2>4. main.at = "act" /\ main.i = m
    BY <2>2
  <2>5. mon[m].state # "RESPAWN"
    BY <2>4 DEF Live
  <2>6. Sane(r) /\ Counted(r)
    BY <2>1, <2>3, <2>5 DEF Keeps, Counted
  <2>7. CASE Becomes(m, r)
    BY <2>2, <2>6, <2>7 DEF Becomes, Draining, TypeOK
  <2>8. ASSUME NEW s \in Sectors, MoveTo(m, r, s) PROVE MonsterInv'
    <3>1. Sane([r EXCEPT !.pos = s]) /\ Counted([r EXCEPT !.pos = s])
      BY <2>1, <2>6 DEF Keeps, Sane, Counted, TargetStates, MonsterType
    <3> QED
      BY <2>2, <2>8, <3>1 DEF MoveTo, Draining, TypeOK
  <2> QED
    BY <2>1, <2>7, <2>8
<1>4. ASSUME NEW m \in Monsters, UpdateDeath(m) PROVE MonsterInv'
  <2>1. main.at = "act" /\ main.i = m
    BY <1>4 DEF UpdateDeath, Acts
  <2>2. Counted(mon[m])
    BY <2>1 DEF Draining
  <2>3. Sane(Cleared(mon[m])) /\ Counted(Cleared(mon[m]))
    BY <1>0, <2>2 DEF Cleared, Sane, Counted, TargetStates, MonsterType
  <2> QED
    BY <1>4, <2>1, <2>3, LoopPlaces DEF UpdateDeath, Draining, TypeOK
<1>5. ASSUME NEW p \in Players, DispatchStep(p) PROVE MonsterInv'
  BY <1>5 DEF DispatchStep, CheckTarget, PushHit, Draining, Live
<1>6. CASE UNCHANGED vars
  BY <1>6 DEF vars, Draining, Live
<1> QED
  BY <1>1, <1>2, <1>3, <1>4, <1>5, <1>6
     DEF Next, MainStep, WalksBackForEver, Acted

-----------------------------------------------------------------------------
(* The wait queue, the sectors and the counters change only when a monster *)
(* enters or leaves the field.                                             *)

\* Any other step keeps who lives, in which zone, who waits, and the counts.
Quiet ==
    /\ UNCHANGED <<waitQueue, now>>
    /\ \A m \in Monsters : /\ Live(m)' <=> Live(m)
                           /\ mon'[m].zone = mon[m].zone

Enters == \E z \in Zones, s \in Sectors : SpawnOne(z, s)
Leaves == \E m \in Monsters : UpdateDeath(m)

\* A step that neither spawns nor buries a monster is quiet.
LEMMA OtherwiseQuiet ==
    ASSUME TypeOK, MonsterInv, [Next]_vars
    PROVE  Enters \/ Leaves \/ Quiet
<1> SUFFICES ASSUME ~ Enters, ~ Leaves PROVE Quiet
  OBVIOUS
<1>0. \A m \in Monsters : mon[m] \in MonsterType
  BY DEF TypeOK
<1>1. ASSUME NEW z \in Zones, ZoneStep(z) PROVE Quiet
  BY <1>1 DEF ZoneStep, ZoneWaits, ZoneDue, SpawnNothing, SpawnDone, Enters,
              Quiet, Live, field
<1>2. ASSUME NEW m \in Monsters, HitStep(m) PROVE Quiet
  <2>1. /\ Woken(mon[m]).zone = mon[m].zone
        /\ mon[m].state # "RESPAWN" => Woken(mon[m]).state # "RESPAWN"
    BY <1>0 DEF Woken, MonsterType
  <2>2. ASSUME NEW h PROVE HitBy(mon[m], h).zone = mon[m].zone
                           /\ HitBy(mon[m], h).state = "ATTACKED"
    BY <1>0 DEF HitBy, MonsterType
  <2>3. /\ Settled(mon[m]).zone = mon[m].zone
        /\ Settled(mon[m]).state = mon[m].state
    BY <1>0 DEF Settled, MonsterType
  <2>4. CASE SkipPooled(m)
    BY <2>4 DEF SkipPooled, Quiet, Live, field
  <2>5. CASE NothingToApply(m) \/ SwapHits(m)
    BY <2>1, <2>5 DEF NothingToApply, SwapHits, Quiet, Live, field, TypeOK
  <2>6. CASE DrainOne(m)
    <3>1. Live(m)
      BY <2>6 DEF DrainOne, MonsterInv, Draining
    <3> QED
      BY <2>2, <2>6, <3>1 DEF DrainOne, Quiet, Live, field, TypeOK
  <2>7. CASE DrainDone(m)
    BY <2>3, <2>7 DEF DrainDone, Quiet, Live, field, TypeOK
  <2> QED
    BY <1>2, <2>4, <2>5, <2>6, <2>7 DEF HitStep
<1>3. ASSUME NEW m \in Monsters, Acted(m) PROVE Quiet
  <2>1. PICK r : /\ Keeps(mon[m], r)
                 /\ Becomes(m, r) \/ \E s \in Sectors : MoveTo(m, r, s)
    BY <1>3, ActKeeps
  <2>2. Live(m)
    BY <1>3, ActKeeps DEF MonsterInv
  <2>3. CASE Becomes(m, r)
    BY <2>1, <2>2, <2>3 DEF Becomes, Keeps, Quiet, Live, field, TypeOK
  <2>4. ASSUME NEW s \in Sectors, MoveTo(m, r, s) PROVE Quiet
    <3>1. /\ [r EXCEPT !.pos = s].state = r.state
          /\ [r EXCEPT !.pos = s].zone = r.zone
      BY <2>1 DEF Keeps, MonsterType
    <3> QED
      BY <2>1, <2>2, <2>4, <3>1 DEF MoveTo, Keeps, Quiet, Live, TypeOK
  <2> QED
    BY <2>1, <2>3, <2>4
<1>4. ASSUME NEW p \in Players, DispatchStep(p) PROVE Quiet
  BY <1>4 DEF DispatchStep, CheckTarget, PushHit, Quiet, Live, field
<1>5. CASE UNCHANGED vars
  BY <1>5 DEF vars, Quiet, Live
<1> QED
  BY <1>1, <1>2, <1>3, <1>4, <1>5
     DEF Next, MainStep, WalksBackForEver, Acted, Leaves

\* The monster at the head of the queue is not alive: it is spawned into the
\* field from nowhere.
LEMMA HeadWaits ==
    ASSUME TypeOK, PoolExact, waitQueue # << >>
    PROVE  /\ Head(waitQueue) \in Monsters
           /\ ~ Live(Head(waitQueue))
BY DEF TypeOK, PoolExact

\* Taking the head and appending a stranger keep the queue free of repeats.
LEMMA PoolStep ==
    ASSUME TypeOK, MonsterInv, PoolExact, [Next]_vars
    PROVE  PoolExact'
<1>1. ASSUME NEW z \in Zones, NEW s \in Sectors, SpawnOne(z, s)
      PROVE  PoolExact'
  <2> DEFINE h == Head(waitQueue)
  <2>1. /\ h \in Monsters /\ ~ Live(h) /\ waitQueue # << >>
        /\ waitQueue' = Tail(waitQueue)
        /\ mon' = [mon EXCEPT ![h] = Spawned(mon[h], z, s)]
    BY <1>1, HeadWaits DEF SpawnOne
  <2>2. \A i \in 1..Len(Tail(waitQueue)) :
            /\ Tail(waitQueue)[i] = waitQueue[i + 1]
            /\ i + 1 \in 1..Len(waitQueue)
    BY <2>1 DEF TypeOK
  <2>3. \A i \in 2..Len(waitQueue) : /\ waitQueue[i] = Tail(waitQueue)[i - 1]
                                     /\ i - 1 \in 1..Len(Tail(waitQueue))
    BY <2>1 DEF TypeOK
  <2>4. Spawned(mon[h], z, s).state = "IDLE"
    BY <2>1 DEF Spawned, TypeOK, MonsterType
  <2>5. \A i, j \in 1..Len(waitQueue') : waitQueue'[i] = waitQueue'[j] => i = j
    BY <2>1, <2>2 DEF PoolExact, TypeOK
  <2>6. \A m \in Monsters : Live(m)' <=> Live(m) \/ m = h
    BY <2>1, <2>4 DEF Live, TypeOK
  <2>7. \A i \in 1..Len(waitQueue') : waitQueue'[i] # h
    BY <2>1, <2>2 DEF PoolExact, TypeOK
  <2>8. ASSUME NEW m \in Monsters, m # h
        PROVE  (\A i \in 1..Len(waitQueue) : waitQueue[i] # m)
                <=> (\A i \in 1..Len(waitQueue') : waitQueue'[i] # m)
    <3>1. waitQueue[1] = h
      BY <2>1 DEF TypeOK
    <3>2. ASSUME \A i \in 1..Len(waitQueue') : waitQueue'[i] # m,
                 NEW i \in 1..Len(waitQueue)
          PROVE  waitQueue[i] # m
      <4>1. CASE i = 1
        BY <2>8, <3>1, <4>1
      <4>2. CASE i # 1
        <5>1. i \in 2..Len(waitQueue)
          BY <4>2 DEF TypeOK
        <5> QED
          BY <2>1, <2>3, <3>2, <5>1
      <4> QED
        BY <4>1, <4>2
    <3>3. ASSUME \A i \in 1..Len(waitQueue) : waitQueue[i] # m,
                 NEW i \in 1..Len(waitQueue')
          PROVE  waitQueue'[i] # m
      BY <2>1, <2>2, <3>3
    <3> QED
      BY <3>2, <3>3
  <2> QED
    BY <2>5, <2>6, <2>7, <2>8 DEF PoolExact
<1>2. ASSUME NEW m \in Monsters, UpdateDeath(m) PROVE PoolExact'
  <2>1. /\ Live(m) /\ waitQueue' = Append(waitQueue, m)
        /\ mon' = [mon EXCEPT ![m] = Cleared(mon[m])]
    BY <1>2 DEF UpdateDeath, Acts, Live
  <2>2. Cleared(mon[m]).state = "RESPAWN"
    BY DEF Cleared, TypeOK, MonsterType
  <2>3. \A n \in Monsters : Live(n)' <=> Live(n) /\ n # m
    BY <2>1, <2>2 DEF Live, TypeOK
  <2>4. /\ Len(waitQueue') = Len(waitQueue) + 1
        /\ waitQueue'[Len(waitQueue) + 1] = m
        /\ \A i \in 1..Len(waitQueue) : waitQueue'[i] = waitQueue[i]
    BY <2>1 DEF TypeOK
  <2>5. \A i \in 1..Len(waitQueue) : waitQueue[i] # m
    BY <2>1 DEF PoolExact
  <2>6. Len(waitQueue) \in Nat
    BY DEF TypeOK
  <2>7. \A i, j \in 1..Len(waitQueue') : waitQueue'[i] = waitQueue'[j] => i = j
    BY <2>4, <2>5, <2>6 DEF PoolExact
  <2>8. \A n \in Monsters :
            Live(n)' <=> \A i \in 1..Len(waitQueue') : waitQueue'[i] # n
    BY <2>3, <2>4, <2>5, <2>6 DEF PoolExact
  <2> QED
    BY <2>7, <2>8 DEF PoolExact
<1>3. CASE Quiet
  BY <1>3 DEF Quiet, PoolExact
<1> QED
  BY <1>1, <1>2, <1>3, OtherwiseQuiet DEF Enters, Leaves

\* A monster is put into a sector when it enters, moved with its position and
\* taken out of the one it stands in when it leaves.
LEMMA SectorStep ==
    ASSUME TypeOK, MonsterInv, PoolExact, SectorExact, [Next]_vars
    PROVE  SectorExact'
<1>0. \A m \in Monsters : mon[m] \in MonsterType
  BY DEF TypeOK
<1>1. ASSUME NEW z \in Zones, ZoneStep(z) PROVE SectorExact'
  <2>1. ASSUME NEW s \in Sectors, SpawnOne(z, s) PROVE SectorExact'
    <3> DEFINE h == Head(waitQueue)
    <3>1. /\ h \in Monsters /\ ~ Live(h)
          /\ mon' = [mon EXCEPT ![h] = Spawned(mon[h], z, s)]
          /\ sector' = [sector EXCEPT ![s] = @ \cup {h}]
      BY <2>1, HeadWaits DEF SpawnOne
    <3>2. /\ Spawned(mon[h], z, s).state = "IDLE"
          /\ Spawned(mon[h], z, s).pos = s
      BY <1>0, <3>1 DEF Spawned, MonsterType
    <3> HIDE DEF h
    <3> QED
      BY <3>1, <3>2 DEF SectorExact, Live, TypeOK
  <2> QED
    BY <1>1, <2>1 DEF ZoneStep, ZoneWaits, ZoneDue, SpawnNothing, SpawnDone,
                      SectorExact, Live, field
<1>2. ASSUME NEW m \in Monsters, HitStep(m) PROVE SectorExact'
  <2>1. /\ Woken(mon[m]).pos = mon[m].pos
        /\ mon[m].state # "RESPAWN" => Woken(mon[m]).state # "RESPAWN"
    BY <1>0 DEF Woken, MonsterType
  <2>2. ASSUME NEW h PROVE HitBy(mon[m], h).pos = mon[m].pos
                           /\ HitBy(mon[m], h).state = "ATTACKED"
    BY <1>0 DEF HitBy, MonsterType
  <2>3. /\ Settled(mon[m]).pos = mon[m].pos
        /\ Settled(mon[m]).state = mon[m].state
    BY <1>0 DEF Settled, MonsterType
  <2>4. CASE SkipPooled(m)
    BY <2>4 DEF SkipPooled, SectorExact, Live, field
  <2>5. CASE NothingToApply(m) \/ SwapHits(m)
    BY <2>1, <2>5 DEF NothingToApply, SwapHits, SectorExact, Live, field, TypeOK
  <2>6. CASE DrainOne(m)
    <3>1. Live(m)
      BY <2>6 DEF DrainOne, MonsterInv, Draining
    <3> QED
      BY <2>2, <2>6, <3>1 DEF DrainOne, SectorExact, Live, field, TypeOK
  <2>7. CASE DrainDone(m)
    BY <2>3, <2>7 DEF DrainDone, SectorExact, Live, field, TypeOK
  <2> QED
    BY <1>2, <2>4, <2>5, <2>6, <2>7 DEF HitStep
<1>3. ASSUME NEW m \in Monsters, Acted(m)
      PROVE  SectorExact'
  <2>1. PICK r : /\ Keeps(mon[m], r)
                 /\ Becomes(m, r) \/ \E s \in Sectors : MoveTo(m, r, s)
    BY <1>3, ActKeeps
  <2>2. Live(m)
    BY <1>3, ActKeeps DEF MonsterInv
  <2>3. CASE Becomes(m, r)
    BY <2>1, <2>2, <2>3 DEF Becomes, Keeps, SectorExact, Live, field, TypeOK
  <2>4. ASSUME NEW s \in Sectors, MoveTo(m, r, s) PROVE SectorExact'
    <3>1. /\ [r EXCEPT !.pos = s].state = r.state
          /\ [r EXCEPT !.pos = s].pos = s
      BY <2>1 DEF Keeps, MonsterType
    <3>2. mon' = [mon EXCEPT ![m] = [r EXCEPT !.pos = s]]
      BY <2>4 DEF MoveTo
    <3>3. \A t \in Sectors :
            sector'[t] = IF t = s THEN sector[t] \cup {m}
                         ELSE IF t = mon[m].pos THEN sector[t] \ {m}
                         ELSE sector[t]
      BY <2>4 DEF MoveTo
    <3>4. \A t \in Sectors : m \in sector'[t] <=> t = s
      <4> TAKE t \in Sectors
      <4>1. m \in sector[t] <=> mon[m].pos = t
        BY <2>2 DEF SectorExact
      <4> QED
        BY <3>3, <4>1
    <3>5. \A t \in Sectors : \A n \in Monsters \ {m} :
            n \in sector'[t] <=> n \in sector[t]
      BY <3>3
    <3>6. \A n \in Monsters \ {m} : mon'[n] = mon[n]
      BY <3>2 DEF TypeOK
    <3>7. mon'[m].pos = s /\ mon'[m].state # "RESPAWN"
      BY <2>1, <3>1, <3>2 DEF Keeps, TypeOK
    <3> QED
      BY <3>4, <3>5, <3>6, <3>7 DEF SectorExact, Live
  <2> QED
    BY <2>1, <2>3, <2>4
<1>4. ASSUME NEW m \in Monsters, UpdateDeath(m) PROVE SectorExact'
  <2>1. /\ Live(m) /\ mon' = [mon EXCEPT ![m] = Cleared(mon[m])]
        /\ sector' = [sector EXCEPT ![mon[m].pos] = @ \ {m}]
    BY <1>4 DEF UpdateDeath, Acts, Live
  <2>2. Cleared(mon[m]).state = "RESPAWN"
    BY <1>0 DEF Cleared, MonsterType
  <2> QED
    BY <2>1, <2>2 DEF SectorExact, Live, TypeOK
<1>5. ASSUME NEW p \in Players, DispatchStep(p) PROVE SectorExact'
  BY <1>5 DEF DispatchStep, CheckTarget, PushHit, SectorExact, Live, field
<1>6. CASE UNCHANGED vars
  BY <1>6 DEF vars, SectorExact, Live
<1> QED
  BY <1>1, <1>2, <1>3, <1>4, <1>5, <1>6
     DEF Next, MainStep, WalksBackForEver, Acted

\* Zone populations are finite, and one monster changes one of them by one.
LEMMA Population ==
    ASSUME NEW A \in SUBSET Monsters, NEW m \in Monsters
    PROVE  /\ Cardinality(A) \in Nat
           /\ m \notin A => Cardinality(A \cup {m}) = Cardinality(A) + 1
           /\ m \in A => Cardinality(A \ {m}) = Cardinality(A) - 1
<1>1. IsFiniteSet(Monsters)
  BY CountAssumption, FS_Interval DEF Monsters
<1>2. IsFiniteSet(A)
  BY <1>1, FS_Subset
<1> QED
  BY <1>2, FS_CardinalityType, FS_AddElement, FS_RemoveElement

\* The counter of a zone moves with its population, and a batch of spawns was
\* measured against the counter when nothing could change it in between.
LEMMA CountStep ==
    ASSUME TypeOK, MonsterInv, PoolExact, CountExact, [Next]_vars
    PROVE  CountExact'
<1> DEFINE Left(z) == IF InSpawnLoop(z) THEN main.left ELSE 0
<1>0. /\ \A m \in Monsters : mon[m] \in MonsterType
      /\ \A z \in Zones : /\ MaxSpawn[z] \in Nat /\ MaxSpawn[z] < Word
                          /\ now[z] \in Int
      /\ Word \in Nat
  BY CountAssumption DEF TypeOK
<1>1. \A z \in Zones : /\ LiveIn(z) \in SUBSET Monsters
                       /\ now[z] = Cardinality(LiveIn(z))
                       /\ now[z] \in Nat
                       /\ Left(z) \in Nat /\ now[z] + Left(z) <= MaxSpawn[z]
  <2> TAKE z \in Zones
  <2>1. LiveIn(z) \in SUBSET Monsters /\ now[z] = Cardinality(LiveIn(z))
    BY DEF LiveIn, CountExact
  <2>2. Cardinality(LiveIn(z)) \in Nat
    <3>1. 1 \in Monsters
      BY CountAssumption DEF Monsters
    <3> QED
      BY <2>1, <3>1, Population
  <2>3. Left(z) \in Nat
    BY DEF TypeOK, MainType
  <2> QED
    BY <2>1, <2>2, <2>3 DEF CountExact
<1>2. ASSUME NEW z \in Zones, NEW s \in Sectors, SpawnOne(z, s)
      PROVE  CountExact'
  <2> DEFINE h == Head(waitQueue)
  <2>1. /\ h \in Monsters /\ ~ Live(h)
        /\ mon' = [mon EXCEPT ![h] = Spawned(mon[h], z, s)]
        /\ now' = [now EXCEPT ![z] = @ + 1]
    BY <1>2, HeadWaits DEF SpawnOne
  <2>2. /\ Spawned(mon[h], z, s).state = "IDLE"
        /\ Spawned(mon[h], z, s).zone = z
    BY <1>0, <2>1 DEF Spawned, MonsterType
  <2> HIDE DEF h
  <2>3. /\ LiveIn(z)' = LiveIn(z) \cup {h} /\ h \notin LiveIn(z)
        /\ \A y \in Zones : y # z => LiveIn(y)' = LiveIn(y)
    BY <2>1, <2>2 DEF LiveIn, Live, TypeOK
  <2>4. Cardinality(LiveIn(z)') = now[z] + 1
    BY <1>1, <2>1, <2>3, Population
  <2>5. /\ main.at = "spawn" /\ main.i = z /\ main.left > 0
        /\ main'.at = "spawn" /\ main'.i = z /\ main'.left = main.left - 1
    BY <1>2 DEF SpawnOne, InSpawnLoop, TypeOK, MainType
  <2>6. \A y \in Zones : Left(y)' = IF y = z THEN Left(y) - 1 ELSE 0
    BY <2>5 DEF InSpawnLoop
  <2>7. \A y \in Zones : now'[y] = IF y = z THEN now[y] + 1 ELSE now[y]
    BY <2>1 DEF TypeOK
  <2>8. ASSUME NEW y \in Zones
        PROVE  /\ now'[y] = Cardinality(LiveIn(y)')
               /\ now'[y] + Left(y)' <= MaxSpawn[y]
    <3> HIDE DEF Left
    <3>1. CASE y = z
      BY <1>1, <2>4, <2>6, <2>7, <3>1
    <3>2. CASE y # z
      BY <1>0, <1>1, <2>3, <2>6, <2>7, <3>2
    <3> QED
      BY <3>1, <3>2
  <2> QED
    BY <2>8 DEF CountExact, LiveIn
<1>3. ASSUME NEW m \in Monsters, UpdateDeath(m) PROVE CountExact'
  <2>0. PICK z \in Zones : z = mon[m].zone
    BY <1>0 DEF MonsterType
  <2>1. /\ Live(m) /\ mon' = [mon EXCEPT ![m] = Cleared(mon[m])]
        /\ now' = [now EXCEPT ![z] = (@ - 1) % Word]
    BY <1>3, <2>0 DEF UpdateDeath, Acts, Live
  <2>2. Cleared(mon[m]).state = "RESPAWN"
    BY <1>0 DEF Cleared, MonsterType
  <2>3. /\ LiveIn(z)' = LiveIn(z) \ {m} /\ m \in LiveIn(z)
        /\ \A y \in Zones : y # z => LiveIn(y)' = LiveIn(y)
    <3>1. /\ \A n \in Monsters : n # m => mon'[n] = mon[n]
          /\ mon'[m].state = "RESPAWN" /\ mon[m].state # "RESPAWN"
          /\ mon[m].zone = z
      BY <2>0, <2>1, <2>2 DEF Live, TypeOK
    <3> QED
      BY <3>1 DEF LiveIn, Live
  <2>4. /\ Cardinality(LiveIn(z)') = now[z] - 1
        /\ Cardinality(LiveIn(z)') \in Nat
    <3>1. LiveIn(z)' \in SUBSET Monsters
      BY <1>1, <2>1, <2>3
    <3> QED
      BY <1>1, <2>1, <2>3, <3>1, Population
  <2>5. (now[z] - 1) % Word = now[z] - 1
    BY <1>0, <1>1, <2>1, <2>4
  <2>6. \A y \in Zones : Left(y)' = 0
    BY <1>3, LoopSpawns DEF UpdateDeath, InSpawnLoop
  <2>7. \A y \in Zones : now'[y] = IF y = z THEN now[y] - 1 ELSE now[y]
    BY <2>1, <2>5 DEF TypeOK
  <2>8. ASSUME NEW y \in Zones
        PROVE  /\ now'[y] = Cardinality(LiveIn(y)')
               /\ now'[y] + Left(y)' <= MaxSpawn[y]
    <3>1. CASE y = z
      BY <1>0, <1>1, <2>4, <2>6, <2>7, <3>1
    <3>2. CASE y # z
      BY <1>0, <1>1, <2>3, <2>6, <2>7, <3>2
    <3> QED
      BY <3>1, <3>2
  <2> QED
    BY <2>8 DEF CountExact, LiveIn
<1>4. CASE Quiet
  <2>1. now' = now
    BY <1>4 DEF Quiet
  <2>2. \A z \in Zones : LiveIn(z)' = LiveIn(z)
    BY <1>4 DEF Quiet, LiveIn
  <2>3. \A z \in Zones : now[z] + Left(z)' <= MaxSpawn[z]
    <3> SUFFICES ASSUME NEW z \in Zones
                 PROVE  now[z] + Left(z)' <= MaxSpawn[z]
      OBVIOUS
    <3>1. ASSUME NEW y \in Zones, ZoneStep(y)
          PROVE  now[z] + Left(z)' <= MaxSpawn[z]
      <4>1. CASE ZoneDue(y)
        <5>1. main' = [at |-> "spawn", i |-> y, left |-> SpawnCnt(y)]
          BY <4>1 DEF ZoneDue
        <5>2. SpawnCnt(z) = MaxSpawn[z] - now[z]
          BY <1>0, <1>1 DEF SpawnCnt
        <5>3. Left(z)' = IF z = y THEN SpawnCnt(z) ELSE 0
          BY <5>1 DEF InSpawnLoop
        <5> QED
          BY <1>0, <1>1, <5>2, <5>3
      <4>2. CASE SpawnNothing(y)
        <5>1. /\ main.at = "spawn" /\ main.i = y /\ main.left > 0
              /\ main'.at = "spawn" /\ main'.i = y
              /\ main'.left = main.left - 1
          BY <4>2 DEF SpawnNothing, InSpawnLoop, TypeOK, MainType
        <5>2. Left(z)' = IF z = y THEN Left(z) - 1 ELSE 0
          BY <5>1 DEF InSpawnLoop
        <5> HIDE DEF Left
        <5> QED
          BY <1>0, <1>1, <5>2
      <4>3. CASE ZoneWaits(y) \/ SpawnDone(y)
        <5>1. Left(z)' = 0
          BY <4>3, LoopSpawns DEF ZoneWaits, SpawnDone, InSpawnLoop
        <5> HIDE DEF Left
        <5> QED
          BY <1>0, <1>1, <5>1
      <4>4. ASSUME NEW s \in Sectors, SpawnOne(y, s)
            PROVE  now[z] + Left(z)' <= MaxSpawn[z]
        <5>1. now'[y] = now[y] + 1 /\ now[y] \in Int
          BY <4>4 DEF SpawnOne, TypeOK
        <5> QED
          BY <2>1, <5>1
      <4> QED
        BY <3>1, <4>1, <4>2, <4>3, <4>4 DEF ZoneStep
    <3>2. ASSUME NEW m \in Monsters,
                 HitStep(m) \/ Acted(m) \/ UpdateDeath(m)
          PROVE  Left(z)' = 0
      <4>1. CASE HitStep(m) \/ UpdateDeath(m)
        BY <4>1, LoopSpawns
           DEF HitStep, SkipPooled, NothingToApply, SwapHits, DrainOne,
               DrainDone, UpdateDeath, InSpawnLoop, AtMonster, TypeOK, MainType
      <4>2. CASE Acted(m)
        BY <4>2, ActKeeps DEF InSpawnLoop
      <4> QED
        BY <3>2, <4>1, <4>2
    <3>3. ASSUME main' = main PROVE Left(z)' = Left(z)
      BY <3>3 DEF InSpawnLoop
    <3>4. ASSUME NEW p \in Players, DispatchStep(p) PROVE main' = main
      BY <3>4 DEF DispatchStep, CheckTarget, PushHit
    <3>5. ASSUME UNCHANGED vars PROVE main' = main
      BY <3>5 DEF vars
    <3> HIDE DEF Left
    <3>6. now[z] + Left(z) <= MaxSpawn[z] /\ now[z] + 0 <= MaxSpawn[z]
      BY <1>0, <1>1
    <3>7. CASE main' = main
      BY <3>3, <3>6, <3>7
    <3>8. ASSUME NEW m \in Monsters,
                 HitStep(m) \/ Acted(m) \/ UpdateDeath(m)
          PROVE  now[z] + Left(z)' <= MaxSpawn[z]
      BY <3>2, <3>6, <3>8
    <3> QED
      BY <3>1, <3>4, <3>5, <3>7, <3>8
         DEF Next, MainStep, WalksBackForEver, Acted
  <2> QED
    BY <2>1, <2>2, <2>3 DEF CountExact
<1> QED
  BY <1>2, <1>3, <1>4, OtherwiseQuiet DEF Enters, Leaves

-----------------------------------------------------------------------------
(* The theorems.                                                           *)

IInv == MonsterInv /\ PoolExact /\ SectorExact /\ CountExact

\* Everything starts in the pool, once.
LEMMA InitIInv == Init => IInv
<1> SUFFICES ASSUME Init PROVE IInv
  OBVIOUS
<1> USE DEF Init
<1>1. \A m \in Monsters :
        /\ mon[m].state = "RESPAWN" /\ ~ mon[m].death
        /\ mon[m].target = None /\ mon[m].hp >= 0
  BY NumberAssumption DEF Pooled
<1>2. MonsterInv
  BY <1>1, CountAssumption
     DEF MonsterInv, Sane, Counted, Draining, TargetStates, Live
<1>3. Len(waitQueue) = NumMonsters
  BY CountAssumption
<1>4. PoolExact
  BY <1>1, <1>3, CountAssumption DEF PoolExact, Live, Monsters
<1>5. SectorExact
  BY <1>1 DEF SectorExact, Live
<1>6. CountExact
  <2>1. \A z \in Zones : LiveIn(z) = {}
    BY <1>1 DEF LiveIn, Live
  <2>2. \A z \in Zones : 0 + 0 <= MaxSpawn[z]
    BY CountAssumption
  <2>3. \A z \in Zones : now[z] = 0 /\ ~ InSpawnLoop(z)
    BY DEF InSpawnLoop
  <2>4. Cardinality({}) = 0
    BY FS_EmptySet
  <2> SUFFICES ASSUME NEW z \in Zones
               PROVE  /\ now[z] = Cardinality(LiveIn(z))
                      /\ now[z] + (IF InSpawnLoop(z) THEN main.left ELSE 0)
                            <= MaxSpawn[z]
    BY DEF CountExact
  <2>5. now[z] = Cardinality(LiveIn(z))
    BY <2>1, <2>3, <2>4
  <2>6. (IF InSpawnLoop(z) THEN main.left ELSE 0) = 0
    BY <2>3
  <2> QED
    BY <2>2, <2>3, <2>5, <2>6
<1> QED
  BY <1>2, <1>4, <1>5, <1>6 DEF IInv

\* All of it holds in every reachable state.
LEMMA IInvCorrect == Spec => []IInv
<1>1. TypeOK /\ IInv /\ [Next]_vars => IInv'
  BY MonsterStep, PoolStep, SectorStep, CountStep DEF IInv
<1> QED
  BY <1>1, InitIInv, TypeCorrect, PTL DEF Spec

\* The main loop and the dispatch threads keep the state well formed.
THEOREM TypeSafe == Spec => []TypeOK
BY TypeCorrect

\* MonsterManager's queue hands out each monster to one zone at a time.
THEOREM PoolIsExact == Spec => []PoolExact
<1>1. IInv => PoolExact
  BY DEF IInv
<1> QED
  BY <1>1, IInvCorrect, PTL

\* SpawnZone::_nowSpawnCnt is the zone's population and never passes the
\* maximum, so the unsigned spawnCnt never wraps.
THEOREM CountIsExact == Spec => []CountExact
<1>1. IInv => CountExact
  BY DEF IInv
<1> QED
  BY <1>1, IInvCorrect, PTL

\* MapManager keeps each living monster in the one sector it stands in.
THEOREM SectorIsExact == Spec => []SectorExact
<1>1. IInv => SectorExact
  BY DEF IInv
<1> QED
  BY <1>1, IInvCorrect, PTL

\* Monster never follows a null _target.
THEOREM TargetIsHeld == Spec => []TargetHeld
<1>1. IInv => TargetHeld
  BY DEF IInv, MonsterInv, Sane, TargetStates, TargetHeld
<1> QED
  BY <1>1, IInvCorrect, PTL

\* _death and _hp agree whenever a monster is not in the middle of its hits.
THEOREM DeathMeansNoHp == Spec => []DeadMeansNoHp
<1>1. IInv => DeadMeansNoHp
  BY DEF IInv, MonsterInv, Sane, Counted, Draining, Live, DeadMeansNoHp
<1> QED
  BY <1>1, IInvCorrect, PTL

-----------------------------------------------------------------------------
(* What no step may do.                                                    *)

\* The flag of a dead monster stays, and so does its want of hp, until it is
\* back in the pool.
LEMMA DeadStep ==
    ASSUME TypeOK, IInv, [Next]_vars, NEW m \in Monsters, mon[m].death
    PROVE  \/ mon'[m].death /\ mon'[m].hp <= 0
           \/ mon'[m].state = "RESPAWN"
<1> DEFINE q == mon[m]
           Goal == \/ mon'[m].death /\ mon'[m].hp <= 0
                   \/ mon'[m].state = "RESPAWN"
<1>1. q \in MonsterType /\ Live(m) /\ q.hp \in Int
  BY DEF IInv, MonsterInv, Sane, Live, TypeOK, MonsterType
<1>2. q.hp <= 0
  BY <1>1 DEF IInv, MonsterInv, Counted, Live
<1>3. ASSUME UNCHANGED mon PROVE Goal
  BY <1>2, <1>3
<1>4. ASSUME NEW k \in Monsters, NEW r, mon' = [mon EXCEPT ![k] = r],
             k = m => (r.death /\ r.hp <= 0) \/ r.state = "RESPAWN"
      PROVE  Goal
  BY <1>2, <1>4 DEF TypeOK
<1> HIDE DEF Goal
<1>5. ASSUME NEW z \in Zones, ZoneStep(z) PROVE Goal
  <2>1. ASSUME NEW s \in Sectors, SpawnOne(z, s) PROVE Goal
    <3>1. Head(waitQueue) \in Monsters /\ Head(waitQueue) # m
      BY <1>1, <2>1, HeadWaits DEF SpawnOne, IInv
    <3> QED
      BY <1>4, <2>1, <3>1 DEF SpawnOne
  <2> QED
    BY <1>3, <1>5, <2>1
       DEF ZoneStep, ZoneWaits, ZoneDue, SpawnNothing, SpawnDone
<1>6. ASSUME NEW k \in Monsters, HitStep(k) PROVE Goal
  <2>1. Woken(q).death /\ Woken(q).hp <= 0
    BY <1>1, <1>2 DEF Woken, MonsterType
  <2>2. Settled(q).death /\ Settled(q).hp <= 0
    BY <1>1, <1>2 DEF Settled, MonsterType
  <2>3. CASE SkipPooled(k)
    BY <1>3, <2>3 DEF SkipPooled
  <2>4. CASE NothingToApply(k)
    BY <1>4, <2>1, <2>4 DEF NothingToApply
  <2>5. CASE SwapHits(k)
    BY <1>4, <2>1, <2>5 DEF SwapHits
  <2>6. CASE DrainOne(k)
    <3> DEFINE h == Head(batch)
    <3>1. h.damage \in Int /\ h.damage >= 0
      <4>1. h \in Hits
        BY <2>6 DEF DrainOne, TypeOK
      <4>2. h.damage \in Damages
        BY <4>1 DEF Hits
      <4>3. \A d \in Damages : d \in Nat
        BY NumberAssumption
      <4> QED
        BY <4>2, <4>3
    <3>2. HitBy(q, h).death = q.death /\ HitBy(q, h).hp = q.hp - h.damage
      BY <1>1 DEF HitBy, MonsterType
    <3>3. HitBy(q, h).hp <= 0
      <4>1. \A a, b \in Int : a <= 0 /\ b >= 0 => a - b <= 0
        OBVIOUS
      <4>2. q.hp - h.damage <= 0
        BY <1>1, <1>2, <3>1, <4>1
      <4> QED
        BY <3>2, <4>2
    <3>4. HitBy(q, h).death
      BY <3>2, Zenon
    <3> QED
      BY <1>4, <2>6, <3>3, <3>4 DEF DrainOne
  <2>7. CASE DrainDone(k)
    BY <1>4, <2>2, <2>7 DEF DrainDone
  <2> QED
    BY <1>6, <2>3, <2>4, <2>5, <2>6, <2>7 DEF HitStep
<1>7. ASSUME NEW k \in Monsters, Acted(k) PROVE Goal
  <2>1. PICK r : /\ Keeps(mon[k], r)
                 /\ Becomes(k, r) \/ \E s \in Sectors : MoveTo(k, r, s)
    BY <1>7, ActKeeps DEF IInv
  <2>2. k = m => r.death /\ r.hp <= 0
    BY <1>2, <2>1 DEF Keeps
  <2>3. CASE Becomes(k, r)
    BY <1>4, <2>2, <2>3 DEF Becomes
  <2>4. ASSUME NEW s \in Sectors, MoveTo(k, r, s) PROVE Goal
    <3>1. /\ [r EXCEPT !.pos = s].death = r.death
          /\ [r EXCEPT !.pos = s].hp = r.hp
      BY <2>1 DEF Keeps, MonsterType
    <3> QED
      BY <1>4, <2>2, <2>4, <3>1 DEF MoveTo
  <2> QED
    BY <2>1, <2>3, <2>4
<1>8. ASSUME NEW k \in Monsters, UpdateDeath(k) PROVE Goal
  <2>1. k = m => Cleared(mon[k]).state = "RESPAWN"
    BY <1>1 DEF Cleared, MonsterType
  <2> QED
    BY <1>4, <1>8, <2>1 DEF UpdateDeath
<1>9. ASSUME NEW p \in Players, DispatchStep(p) PROVE Goal
  BY <1>3, <1>9 DEF DispatchStep, CheckTarget, PushHit
<1>10. ASSUME UNCHANGED vars PROVE Goal
  BY <1>3, <1>10 DEF vars
<1>11. Goal
  BY <1>5, <1>6, <1>7, <1>8, <1>9, <1>10
     DEF Next, MainStep, WalksBackForEver, Acted
<1> QED
  BY <1>11 DEF Goal

\* No late hit, search or timer of Monster revives a dead monster.
THEOREM DeathIsFinal == Spec => NoRevival
<1>1. TypeOK /\ IInv /\ [Next]_vars =>
        [\A m \in Monsters :
            mon[m].death => \/ mon'[m].death /\ mon'[m].hp <= 0
                            \/ mon'[m].state = "RESPAWN"]_vars
  BY DeadStep
<1> QED
  BY <1>1, IInvCorrect, TypeCorrect, PTL DEF Spec, NoRevival

\* The main thread notes a payment only until it turns to the next zone or
\* monster.
CreditFresh == credited # None => main.at \in {"zone", "monster"}

LEMMA CreditCorrect == Spec => []CreditFresh
<1>1. Init => CreditFresh
  BY DEF Init, CreditFresh
<1>2. ASSUME TypeOK, IInv, CreditFresh, [Next]_vars PROVE CreditFresh'
  <2> USE DEF CreditFresh
  <2>1. ASSUME NEW z \in Zones, ZoneStep(z) PROVE credited' = None
    <3>1. CASE ZoneWaits(z) \/ ZoneDue(z)
      BY <3>1 DEF ZoneWaits, ZoneDue
    <3>2. ASSUME InSpawnLoop(z) PROVE credited = None
      BY <1>2, <3>2 DEF InSpawnLoop
    <3>3. CASE SpawnNothing(z) \/ SpawnDone(z)
      BY <3>2, <3>3 DEF SpawnNothing, SpawnDone
    <3>4. ASSUME NEW s \in Sectors, SpawnOne(z, s) PROVE credited' = None
      BY <3>2, <3>4 DEF SpawnOne
    <3> QED
      BY <2>1, <3>1, <3>3, <3>4 DEF ZoneStep
  <2>2. ASSUME NEW m \in Monsters, HitStep(m) PROVE credited' = None
    <3>1. CASE SkipPooled(m) \/ NothingToApply(m) \/ SwapHits(m)
      BY <3>1 DEF SkipPooled, NothingToApply, SwapHits
    <3>2. CASE DrainOne(m) \/ DrainDone(m)
      BY <1>2, <3>2 DEF DrainOne, DrainDone
    <3> QED
      BY <2>2, <3>1, <3>2 DEF HitStep
  <2>3. ASSUME NEW m \in Monsters, UpdateDeath(m) \/ Acted(m)
        PROVE  CreditFresh'
    <3>1. AfterMonster(m).at \in {"zone", "monster"}
      BY DEF AfterMonster, AtZone, AtMonster
    <3>2. CASE UpdateDeath(m)
      BY <3>1, <3>2 DEF UpdateDeath
    <3>3. CASE Acted(m)
      BY <1>2, <3>3, ActKeeps DEF IInv
    <3> QED
      BY <2>3, <3>2, <3>3
  <2>4. ASSUME NEW p \in Players, DispatchStep(p) PROVE CreditFresh'
    BY <1>2, <2>4 DEF DispatchStep, CheckTarget, PushHit
  <2>5. CASE UNCHANGED vars
    BY <1>2, <2>5 DEF vars
  <2> QED
    BY <1>2, <2>1, <2>2, <2>3, <2>4, <2>5
       DEF Next, MainStep, WalksBackForEver, Acted
<1> QED
  BY <1>1, <1>2, IInvCorrect, TypeCorrect, PTL DEF Spec

\* Paying and leaving are the same step of the main thread.
LEMMA PaidStep ==
    ASSUME TypeOK, IInv, CreditFresh, [Next]_vars
    PROVE  (credited' # None /\ credited = None) <=>
            \E m \in Monsters : Live(m) /\ mon'[m].state = "RESPAWN"
<1>1. ASSUME NEW k \in Monsters, UpdateDeath(k)
      PROVE  /\ credited' # None /\ credited = None
             /\ Live(k) /\ mon'[k].state = "RESPAWN"
  <2>1. main.at = "act" /\ mon[k].state = "DEATH"
    BY <1>1 DEF UpdateDeath, Acts
  <2>2. credited = None
    BY <2>1 DEF CreditFresh
  <2>3. credited' # None
    BY <1>1, <2>1 DEF UpdateDeath, IInv, MonsterInv, Sane, TargetStates
  <2>4. Cleared(mon[k]).state = "RESPAWN"
    BY DEF Cleared, TypeOK, MonsterType
  <2> QED
    BY <1>1, <2>1, <2>2, <2>3, <2>4 DEF UpdateDeath, Live, TypeOK
<1>2. ASSUME ~ Leaves PROVE ~ (credited' # None /\ credited = None)
  <2>1. ASSUME NEW z \in Zones, ZoneStep(z)
        PROVE  credited' = None \/ credited' = credited
    BY <2>1 DEF ZoneStep, ZoneWaits, ZoneDue, SpawnNothing, SpawnOne, SpawnDone
  <2>2. ASSUME NEW m \in Monsters, HitStep(m)
        PROVE  credited' = None \/ credited' = credited
    BY <2>2 DEF HitStep, SkipPooled, NothingToApply, SwapHits, DrainOne,
                DrainDone
  <2>3. ASSUME NEW m \in Monsters, Acted(m) PROVE credited' = credited
    BY <2>3, ActKeeps DEF IInv
  <2>4. ASSUME NEW p \in Players, DispatchStep(p) PROVE credited' = credited
    BY <2>4 DEF DispatchStep, CheckTarget, PushHit
  <2>5. CASE UNCHANGED vars
    BY <2>5 DEF vars
  <2> QED
    BY <1>2, <2>1, <2>2, <2>3, <2>4, <2>5
      
     DEF Next, MainStep, WalksBackForEver, Acted, Leaves
<1>3. ASSUME ~ Leaves, NEW m \in Monsters, Live(m)
      PROVE  mon'[m].state # "RESPAWN"
  <2>1. CASE Enters
    <3>1. PICK z \in Zones, s \in Sectors : SpawnOne(z, s)
      BY <2>1 DEF Enters
    <3>2. Head(waitQueue) \in Monsters /\ Head(waitQueue) # m
      BY <1>3, <3>1, HeadWaits DEF SpawnOne, IInv
    <3> QED
      BY <1>3, <3>1, <3>2 DEF SpawnOne, Live, TypeOK
  <2>2. CASE Quiet
    BY <1>3, <2>2 DEF Quiet, Live
  <2> QED
    BY <1>3, <2>1, <2>2, OtherwiseQuiet DEF IInv
<1> QED
  BY <1>1, <1>2, <1>3 DEF Leaves

\* ExpUp is called exactly when MonsterManager takes a dead monster back.
THEOREM PaymentIsExact == Spec => PaidOnLeaving
<1>1. TypeOK /\ IInv /\ CreditFresh /\ [Next]_vars =>
        [(credited' # None /\ credited = None) <=>
            \E m \in Monsters : Live(m) /\ mon'[m].state = "RESPAWN"]_vars
  BY PaidStep
<1> QED
  BY <1>1, IInvCorrect, TypeCorrect, CreditCorrect, PTL
     DEF Spec, PaidOnLeaving

-----------------------------------------------------------------------------
(* The life that MonsterLife promises.                                     *)

\* A monster is out of the pool when it is alive, and a zone's population is
\* what its counter counts.
LEMMA SameField ==
    ASSUME TypeOK, PoolExact
    PROVE  /\ \A m \in Monsters : Life!Out(m) <=> Live(m)
           /\ \A z \in Zones : Life!Population(z) = LiveIn(z)
<1>1. \A m \in Monsters : Life!Out(m) <=> Live(m)
  BY DEF PoolExact, Life!Out
<1>2. \A z \in Zones : Life!Population(z) = LiveIn(z)
  BY <1>1 DEF Life!Population, LiveIn
<1> QED
  BY <1>1, <1>2

\* Both modules count with the same operator.
LEMMA SameCount == \A S : Life!Cardinality(S) = Cardinality(S)
BY DEF Life!Cardinality, Cardinality

\* What an observer of MonsterLife sees of a monster, but for its blows.
SameLook(m) ==
    /\ mon'[m].zone = mon[m].zone
    /\ Health(m)' = Health(m) /\ Foe(m)' = Foe(m)

\* A step that nobody sees stutters, or ends a payment.
LEMMA NothingSeen ==
    ASSUME waitQueue' = waitQueue, \A m \in Monsters : SameLook(m),
           \A m \in Monsters : Aimed(m)' = Aimed(m),
           credited' = None \/ credited' = credited
    PROVE  Life!Next \/ UNCHANGED Life!vars
<1>1. /\ [m \in Monsters |-> mon[m].zone]' = [m \in Monsters |-> mon[m].zone]
      /\ [m \in Monsters |-> Health(m)]' = [m \in Monsters |-> Health(m)]
      /\ [m \in Monsters |-> Foe(m)]' = [m \in Monsters |-> Foe(m)]
      /\ [m \in Monsters |-> Aimed(m)]' = [m \in Monsters |-> Aimed(m)]
  BY DEF SameLook
<1> QED
  BY <1>1 DEF Life!vars, Life!Next, Life!Settle

\* So does a change of one monster that keeps its zone, its health and its foe.
LEMMA OneLooksSame ==
    ASSUME TypeOK, NEW k \in Monsters, NEW r, mon' = [mon EXCEPT ![k] = r],
           r.zone = mon[k].zone,
           (IF r.hp < 0 THEN 0 ELSE r.hp) = Health(k),
           (IF r.hp <= 0 THEN r.target ELSE None) = Foe(k)
    PROVE  \A m \in Monsters : SameLook(m)
BY DEF TypeOK, SameLook, Health, Foe

\* The blows aimed at a monster change only by a push and by the drain loop.
LEMMA AimedStays ==
    ASSUME main.at # "drain", main'.at # "drain", hits' = hits
    PROVE  \A m \in Monsters : Aimed(m)' = Aimed(m)
BY DEF Aimed

\* A spawn is the spawn of the monster that has waited longest: the counter
\* says there is room, and the hit points it had left do not matter.
LEMMA SpawnOneSpawns ==
    ASSUME TypeOK, IInv, NEW z \in Zones, NEW s \in Sectors, SpawnOne(z, s)
    PROVE  Life!Spawn(z)
<1> DEFINE h == Head(waitQueue)
           r == Spawned(mon[h], z, s)
<1>1. /\ h \in Monsters /\ ~ Live(h) /\ mon[h] \in MonsterType
      /\ mon' = [mon EXCEPT ![h] = r]
  BY HeadWaits DEF SpawnOne, IInv, TypeOK
<1>2. r.zone = z /\ r.hp = MaxHp /\ MaxHp > 0 /\ MaxHp \in Int
  BY <1>1, NumberAssumption DEF Spawned, MonsterType
<1>3. mon[h].target = None
  BY <1>1 DEF IInv, MonsterInv, Sane, Live
<1> HIDE DEF h, r
<1>m. \A m \in Monsters : mon'[m] = IF m = h THEN r ELSE mon[m]
  BY <1>1 DEF TypeOK
<1>4. /\ [m \in Monsters |-> mon[m].zone]'
            = [[m \in Monsters |-> mon[m].zone] EXCEPT ![h] = z]
      /\ [m \in Monsters |-> Health(m)]'
            = [[m \in Monsters |-> Health(m)] EXCEPT ![h] = MaxHp]
  <2>1. /\ \A m \in Monsters :
                mon'[m].zone = IF m = h THEN z ELSE mon[m].zone
        /\ \A m \in Monsters :
                Health(m)' = IF m = h THEN MaxHp ELSE Health(m)
    BY <1>2, <1>m DEF Health
  <2> QED
    BY <2>1
<1>5. [m \in Monsters |-> Foe(m)]' = [m \in Monsters |-> Foe(m)]
  BY <1>1, <1>2, <1>3, <1>m DEF Foe
<1>6. main.at = "spawn" /\ main'.at = "spawn" /\ hits' = hits
  BY DEF SpawnOne, InSpawnLoop, TypeOK, MainType
<1>7. [m \in Monsters |-> Aimed(m)]' = [m \in Monsters |-> Aimed(m)]
  BY <1>6, AimedStays
<1>8. Life!Cardinality(Life!Population(z)) < MaxSpawn[z]
  <2>1. /\ now[z] = Cardinality(LiveIn(z)) /\ now[z] \in Int
        /\ now[z] + main.left <= MaxSpawn[z]
    BY DEF SpawnOne, InSpawnLoop, IInv, CountExact, TypeOK
  <2>2. main.left \in Nat /\ main.left > 0
    BY DEF SpawnOne, TypeOK, MainType
  <2>3. Life!Population(z) = LiveIn(z)
    BY SameField DEF IInv
  <2>4. MaxSpawn[z] \in Int
    BY CountAssumption
  <2> QED
    BY <2>1, <2>2, <2>3, <2>4, SameCount
<1>9. /\ waitQueue # << >> /\ waitQueue' = Tail(waitQueue)
      /\ credited' = credited
  BY DEF SpawnOne
<1> QED
  BY <1>4, <1>5, <1>7, <1>8, <1>9 DEF Life!Spawn, h

\* A turn of the drain loop is the strike of the oldest blow aimed at the
\* monster, whose sender is its foe when no hit points are left.
LEMMA DrainOneStrikes ==
    ASSUME TypeOK, IInv, NEW k \in Monsters, DrainOne(k)
    PROVE  Life!Strike(k)
<1> DEFINE h == Head(batch)
           q == mon[k]
           r == HitBy(q, h)
           Seen == [m \in Monsters |-> Health(m)]
           Faced == [m \in Monsters |-> Foe(m)]
           Waits == [m \in Monsters |-> Aimed(m)]
<1>1. /\ q \in MonsterType /\ q.hp \in Int /\ batch # << >>
      /\ batch \in Seq(Hits) /\ hits[k] \in Seq(Hits)
      /\ main.at = "drain" /\ main.i = k /\ main' = main
      /\ hits' = hits /\ batch' = Tail(batch) /\ mon' = [mon EXCEPT ![k] = r]
  BY DEF DrainOne, TypeOK, MonsterType
<1>2. h.damage \in Int /\ h.damage >= 0
  <2>1. h \in Hits
    BY <1>1
  <2>2. h.damage \in Damages
    BY <2>1 DEF Hits
  <2>3. \A d \in Damages : d \in Nat
    BY NumberAssumption
  <2> QED
    BY <2>2, <2>3
<1>3. r.zone = q.zone /\ r.target = h.from /\ r.hp = q.hp - h.damage
  BY <1>1 DEF HitBy, MonsterType
<1>4. Life!Out(k)
  BY <1>1, SameField DEF IInv, MonsterInv
<1>5. /\ Waits[k] # << >> /\ Head(Waits[k]) = h
      /\ Waits' = [Waits EXCEPT ![k] = Tail(@)]
  <2>1. /\ batch \o hits[k] # << >> /\ Head(batch \o hits[k]) = h
        /\ Tail(batch \o hits[k]) = Tail(batch) \o hits[k]
    BY <1>1
  <2>2. /\ Aimed(k) = batch \o hits[k]
        /\ Aimed(k)' = Tail(batch) \o hits[k]
    BY <1>1 DEF Aimed
  <2>3. \A m \in Monsters : m # k => Aimed(m)' = Aimed(m)
    BY <1>1 DEF Aimed
  <2> QED
    BY <2>1, <2>2, <2>3
<1>6. [m \in Monsters |-> mon[m].zone]' = [m \in Monsters |-> mon[m].zone]
  BY <1>1, <1>3 DEF TypeOK
<1> HIDE DEF h, r
<1>7. \A m \in Monsters : mon'[m] = IF m = k THEN r ELSE mon[m]
  BY <1>1 DEF TypeOK
<1>8. /\ Health(k)' = Life!Reduced(Health(k), h.damage)
      /\ Foe(k)' = IF Health(k)' = 0 THEN h.from ELSE Foe(k)
      /\ \A m \in Monsters :
            m # k => Health(m)' = Health(m) /\ Foe(m)' = Foe(m)
  BY <1>1, <1>2, <1>3, <1>7 DEF Health, Foe, Life!Reduced
<1>9. /\ Seen' = [Seen EXCEPT ![k] = Life!Reduced(@, h.damage)]
      /\ Faced' = [Faced EXCEPT ![k] = IF Seen'[k] = 0 THEN h.from ELSE @]
  BY <1>8
<1>10. waitQueue' = waitQueue /\ credited' = credited
  BY DEF DrainOne, field
<1> QED
  BY <1>4, <1>5, <1>6, <1>9, <1>10 DEF Life!Strike

\* UpdateDeath is the burial of a monster without hit points, and pays its foe.
LEMMA UpdateDeathBuries ==
    ASSUME TypeOK, IInv, CreditFresh, NEW k \in Monsters, UpdateDeath(k)
    PROVE  Life!Bury(k)
<1> DEFINE q == mon[k]
           r == Cleared(q)
<1>1. /\ q \in MonsterType /\ q.state = "DEATH" /\ main.at = "act"
      /\ mon' = [mon EXCEPT ![k] = r]
  BY DEF UpdateDeath, Acts, TypeOK
<1>2. Live(k) /\ q.hp = 0 /\ q.target # None
  BY <1>1 DEF IInv, MonsterInv, Sane, Counted, Draining, Live, TargetStates
<1>3. r.zone = q.zone /\ r.hp = q.hp /\ r.target = None
  BY <1>1 DEF Cleared, MonsterType
<1>4. Life!Out(k)
  BY <1>2, SameField DEF IInv
<1> HIDE DEF r
<1>5. \A m \in Monsters : mon'[m] = IF m = k THEN r ELSE mon[m]
  BY <1>1 DEF TypeOK
<1>6. /\ [m \in Monsters |-> mon[m].zone]' = [m \in Monsters |-> mon[m].zone]
      /\ [m \in Monsters |-> Health(m)]' = [m \in Monsters |-> Health(m)]
      /\ [m \in Monsters |-> Foe(m)]'
            = [[m \in Monsters |-> Foe(m)] EXCEPT ![k] = None]
  BY <1>3, <1>5 DEF Health, Foe
<1>7. Health(k) = 0 /\ Foe(k) = q.target
  BY <1>2 DEF Health, Foe
<1>8. main'.at # "drain" /\ hits' = hits
  BY LoopPlaces DEF UpdateDeath
<1>9. [m \in Monsters |-> Aimed(m)]' = [m \in Monsters |-> Aimed(m)]
  BY <1>1, <1>8, AimedStays
<1>10. /\ credited = None /\ credited' = q.target
       /\ waitQueue' = Append(waitQueue, k)
  BY <1>1 DEF CreditFresh, UpdateDeath
<1> QED
  BY <1>2, <1>4, <1>6, <1>7, <1>9, <1>10 DEF Life!Bury

\* A push aims one more blow, also at a monster whose batch is being drained
\* and at one that went back into the pool in the meantime.
LEMMA PushHitAims ==
    ASSUME TypeOK, NEW p \in Players, NEW d \in Damages, PushHit(p, d)
    PROVE  \E k \in Monsters, b \in Life!Blows : Life!Aim(k, b)
<1>1. PICK k \in Monsters, b \in Hits :
            k = hand[p] /\ b = [from |-> p, damage |-> d]
  BY DEF PushHit, TypeOK, Hits
<1>2. /\ batch \in Seq(Hits) /\ hits[k] \in Seq(Hits)
      /\ UNCHANGED <<mon, batch, main, waitQueue, credited>>
      /\ hits' = [hits EXCEPT ![k] = Append(@, b)]
  BY <1>1 DEF PushHit, TypeOK, field
<1>3. batch \o Append(hits[k], b) = Append(batch \o hits[k], b)
  BY <1>2
<1>4. \A m \in Monsters :
        Aimed(m)' = IF m = k THEN Append(Aimed(m), b) ELSE Aimed(m)
  BY <1>2, <1>3 DEF Aimed, TypeOK
<1>5. [m \in Monsters |-> Aimed(m)]'
        = [[m \in Monsters |-> Aimed(m)] EXCEPT ![k] = Append(@, b)]
  BY <1>4
<1>6. /\ [m \in Monsters |-> mon[m].zone]' = [m \in Monsters |-> mon[m].zone]
      /\ [m \in Monsters |-> Health(m)]' = [m \in Monsters |-> Health(m)]
      /\ [m \in Monsters |-> Foe(m)]' = [m \in Monsters |-> Foe(m)]
  BY <1>2 DEF Health, Foe
<1>7. Life!Aim(k, b)
  BY <1>2, <1>5, <1>6 DEF Life!Aim
<1> QED
  BY <1>1, <1>7 DEF Life!Blows, Hits

\* All other steps of the threads are invisible, but that they end a payment.
LEMMA LifeStep ==
    ASSUME TypeOK, IInv, CreditFresh, [Next]_vars
    PROVE  Life!Next \/ UNCHANGED Life!vars
<1> DEFINE Goal == Life!Next \/ UNCHANGED Life!vars
<1> HIDE DEF Goal
<1>1. ASSUME UNCHANGED mon PROVE \A m \in Monsters : SameLook(m)
  BY <1>1 DEF SameLook, Health, Foe
<1>2. ASSUME waitQueue' = waitQueue, \A m \in Monsters : SameLook(m),
             \A m \in Monsters : Aimed(m)' = Aimed(m),
             credited' = None \/ credited' = credited
      PROVE  Goal
  BY <1>2, NothingSeen DEF Goal
<1>3. ASSUME NEW z \in Zones, ZoneStep(z) PROVE Goal
  <2>1. ASSUME NEW s \in Sectors, SpawnOne(z, s) PROVE Goal
    BY <2>1, SpawnOneSpawns DEF Goal, Life!Next
  <2>2. CASE ZoneWaits(z) \/ ZoneDue(z) \/ SpawnNothing(z) \/ SpawnDone(z)
    <3>1. /\ UNCHANGED <<mon, hits, waitQueue>>
          /\ credited' = None \/ credited' = credited
      BY <2>2 DEF ZoneWaits, ZoneDue, SpawnNothing, SpawnDone, field
    <3>2. main.at # "drain" /\ main'.at # "drain"
      BY <2>2, LoopPlaces DEF ZoneWaits, ZoneDue, SpawnNothing, SpawnDone,
            InSpawnLoop, AtZone, TypeOK, MainType
    <3> QED
      BY <1>1, <1>2, <3>1, <3>2, AimedStays
  <2> QED
    BY <1>3, <2>1, <2>2 DEF ZoneStep
<1>4. ASSUME NEW k \in Monsters, HitStep(k) PROVE Goal
  <2> DEFINE q == mon[k]
  <2>0. q \in MonsterType /\ q.hp \in Int
    BY DEF TypeOK, MonsterType
  <2>1. CASE SkipPooled(k)
    <3>1. /\ UNCHANGED <<mon, hits, waitQueue>> /\ credited' = None
          /\ main.at # "drain" /\ main'.at # "drain"
      BY <2>1, LoopPlaces DEF SkipPooled, AtMonster, field
    <3> QED
      BY <1>1, <1>2, <3>1, AimedStays
  <2>2. ASSUME mon' = [mon EXCEPT ![k] = Woken(q)]
        PROVE  \A m \in Monsters : SameLook(m)
    <3>1. /\ Woken(q).zone = q.zone /\ Woken(q).hp = q.hp
          /\ Woken(q).target = q.target
      BY <2>0 DEF Woken, MonsterType
    <3> QED
      BY <2>2, <3>1, OneLooksSame DEF Health, Foe
  <2>3. CASE NothingToApply(k)
    <3>1. /\ UNCHANGED <<hits, waitQueue>> /\ credited' = None
          /\ main.at # "drain" /\ main'.at # "drain"
      BY <2>3 DEF NothingToApply, AtMonster, field
    <3>2. mon' = [mon EXCEPT ![k] = Woken(q)]
      BY <2>3 DEF NothingToApply
    <3> QED
      BY <1>2, <2>2, <3>1, <3>2, AimedStays
  <2>4. CASE SwapHits(k)
    <3>1. /\ waitQueue' = waitQueue /\ credited' = None
          /\ main.at # "drain" /\ main'.at = "drain" /\ main'.i = k
          /\ batch' = hits[k] /\ hits' = [hits EXCEPT ![k] = << >>]
      BY <2>4 DEF SwapHits, AtMonster, field
    <3>2. hits[k] \o << >> = hits[k]
      BY DEF TypeOK
    <3>3. \A m \in Monsters : Aimed(m)' = Aimed(m)
      BY <3>1, <3>2 DEF Aimed, TypeOK
    <3>4. mon' = [mon EXCEPT ![k] = Woken(q)]
      BY <2>4 DEF SwapHits
    <3> QED
      BY <1>2, <2>2, <3>1, <3>3, <3>4
  <2>5. CASE DrainOne(k)
    BY <2>5, DrainOneStrikes DEF Goal, Life!Next
  <2>6. CASE DrainDone(k)
    <3>1. /\ waitQueue' = waitQueue /\ credited' = credited
          /\ main.at = "drain" /\ main.i = k /\ main'.at = "act"
          /\ batch = << >> /\ hits' = hits
          /\ mon' = [mon EXCEPT ![k] = Settled(q)]
      BY <2>6 DEF DrainDone, field, TypeOK, MainType
    <3>2. << >> \o hits[k] = hits[k]
      BY DEF TypeOK
    <3>3. \A m \in Monsters : Aimed(m)' = Aimed(m)
      BY <3>1, <3>2 DEF Aimed
    <3>4. /\ Settled(q).zone = q.zone /\ Settled(q).target = q.target
          /\ Settled(q).hp = IF q.hp <= 0 THEN 0 ELSE q.hp
      BY <2>0 DEF Settled, MonsterType
    <3> DEFINE r == Settled(q)
    <3>5. /\ (IF r.hp < 0 THEN 0 ELSE r.hp) = Health(k)
          /\ (IF r.hp <= 0 THEN r.target ELSE None) = Foe(k)
      BY <2>0, <3>4 DEF Health, Foe
    <3>6. \A m \in Monsters : SameLook(m)
      BY <3>1, <3>4, <3>5, OneLooksSame
    <3> QED
      BY <1>2, <3>1, <3>3, <3>6
  <2> QED
    BY <1>4, <2>1, <2>3, <2>4, <2>5, <2>6 DEF HitStep
<1>5. ASSUME NEW k \in Monsters, Acted(k) PROVE Goal
  <2> DEFINE q == mon[k]
  <2>1. PICK r : /\ Keeps(q, r)
                 /\ Becomes(k, r) \/ \E s \in Sectors : MoveTo(k, r, s)
    BY <1>5, ActKeeps DEF IInv
  <2>2. main.at = "act" /\ main.i = k
    BY <1>5, ActKeeps DEF IInv
  <2>3. q \in MonsterType /\ q.hp \in Int
    BY DEF TypeOK, MonsterType
  <2>4. q.hp <= 0 => q.death
    BY <2>2, <2>3 DEF IInv, MonsterInv, Counted, Draining, Live
  <2>5. /\ r.zone = q.zone /\ r.hp = q.hp /\ r \in MonsterType
        /\ q.hp <= 0 => r.target = q.target
    BY <2>1, <2>4 DEF Keeps
  <2>6. ASSUME NEW x, mon' = [mon EXCEPT ![k] = x], x.zone = r.zone,
               x.hp = r.hp, x.target = r.target
        PROVE  \A m \in Monsters : SameLook(m)
    <3>1. /\ (IF x.hp < 0 THEN 0 ELSE x.hp) = Health(k)
          /\ (IF x.hp <= 0 THEN x.target ELSE None) = Foe(k)
      BY <2>3, <2>5, <2>6 DEF Health, Foe
    <3>2. x.zone = mon[k].zone /\ mon' = [mon EXCEPT ![k] = x]
      BY <2>5, <2>6
    <3> QED
      BY <3>1, <3>2, OneLooksSame
  <2>7. /\ UNCHANGED <<hits, waitQueue, credited>> /\ main'.at # "drain"
    BY <1>5, ActKeeps DEF IInv
  <2>8. ASSUME NEW s \in Sectors, MoveTo(k, r, s)
        PROVE  \A m \in Monsters : SameLook(m)
    <3>1. /\ [r EXCEPT !.pos = s].zone = r.zone
          /\ [r EXCEPT !.pos = s].hp = r.hp
          /\ [r EXCEPT !.pos = s].target = r.target
      BY <2>5 DEF MonsterType
    <3> QED
      BY <2>6, <2>8, <3>1 DEF MoveTo
  <2>9. \A m \in Monsters : SameLook(m)
    <3>1. ASSUME Becomes(k, r) PROVE \A m \in Monsters : SameLook(m)
      BY <2>6, <3>1 DEF Becomes
    <3> QED
      BY <2>1, <2>8, <3>1
  <2> QED
    BY <1>2, <2>2, <2>7, <2>9, AimedStays
<1>6. ASSUME NEW k \in Monsters, UpdateDeath(k) PROVE Goal
  BY <1>6, UpdateDeathBuries DEF Goal, Life!Next
<1>7. ASSUME NEW p \in Players, DispatchStep(p) PROVE Goal
  <2>1. ASSUME NEW m \in Monsters, CheckTarget(p, m) PROVE Goal
    <3>1. UNCHANGED <<mon, hits, batch, main, waitQueue, credited>>
      BY <2>1 DEF CheckTarget, field
    <3>2. \A n \in Monsters : Aimed(n)' = Aimed(n)
      BY <3>1 DEF Aimed
    <3> QED
      BY <1>1, <1>2, <3>1, <3>2
  <2>2. ASSUME NEW d \in Damages, PushHit(p, d) PROVE Goal
    BY <2>2, PushHitAims DEF Goal, Life!Next
  <2> QED
    BY <1>7, <2>1, <2>2 DEF DispatchStep
<1>8. CASE UNCHANGED vars
  <2>1. UNCHANGED <<mon, hits, batch, main, waitQueue, credited>>
    BY <1>8 DEF vars
  <2>2. \A n \in Monsters : Aimed(n)' = Aimed(n)
    BY <2>1 DEF Aimed
  <2>3. Goal
    BY <1>1, <1>2, <2>1, <2>2
  <2> QED
    BY <2>3 DEF Goal
<1>9. ASSUME ~ UNCHANGED vars PROVE Goal
  BY <1>3, <1>4, <1>5, <1>6, <1>7, <1>9
     DEF Next, MainStep, WalksBackForEver, Acted
<1> QED
  BY <1>8, <1>9 DEF Goal

\* In the beginning all monsters wait, whole, unhurt and in no one's debt.
LEMMA LifeBegins == Init => Life!Init
<1> SUFFICES ASSUME Init PROVE Life!Init
  OBVIOUS
<1> USE DEF Init
<1>1. \A m \in Monsters :
        /\ mon[m].zone = 1 /\ mon[m].hp = MaxHp /\ mon[m].target = None
        /\ hits[m] = << >> /\ main.at = "zone"
  BY DEF Pooled
<1>2. 1 \in Zones /\ MaxHp \in Int /\ MaxHp > 0
  BY CountAssumption, NumberAssumption DEF Zones
<1>3. Len(waitQueue) = Life!Cardinality(Monsters)
  <2>1. Len(waitQueue) = NumMonsters /\ NumMonsters \in Nat
    BY CountAssumption
  <2>2. Cardinality(1..NumMonsters) = NumMonsters
    BY <2>1, CountAssumption, FS_Interval
  <2> QED
    BY <2>1, <2>2, SameCount DEF Monsters
<1>4. \A m \in Monsters : ~ Life!Out(m)
  BY CountAssumption DEF Life!Out, Monsters
<1>5. \A m \in Monsters :
        Health(m) = MaxHp /\ Foe(m) = None /\ Aimed(m) = << >>
  BY <1>1, <1>2 DEF Health, Foe, Aimed
<1>6. credited = None
  OBVIOUS
<1> QED
  BY <1>1, <1>2, <1>3, <1>4, <1>5, <1>6 DEF Life!Init

\* Zones, the wait queue, the hit queues and Monster::Update together give each
\* monster the life that MonsterLife promises: whole out of the pool, each blow
\* once and in order, and the last to strike it paid, once, when it goes back.
THEOREM ImplementsMonsterLife == Spec => IsMonsterLife
<1>1. TypeOK /\ IInv /\ CreditFresh /\ [Next]_vars
        => [Life!Next]_(Life!vars)
  BY LifeStep
<1> QED
  BY <1>1, LifeBegins, TypeCorrect, IInvCorrect, CreditCorrect, PTL
     DEF Spec, IsMonsterLife, Life!Spec
=============================================================================
