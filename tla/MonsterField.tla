---------------------------- MODULE MonsterField ----------------------------
(***************************************************************************)
(* The life of the monsters: SpawnZone, MonsterManager, Monster and the    *)
(* monster half of MapManager and Sector (requies_server).                 *)
(*                                                                         *)
(* The main thread runs one fixed loop: every spawn zone in order, then    *)
(* every monster in order, where Monster::Update first applies the hits    *)
(* waiting in the monster's queue (AttackedProc) and then acts by state.   *)
(* Dispatch threads run MonsterManager::AttackedMonster at any moment: a   *)
(* look at _death without a lock and, later, a push.  The hit queue is the *)
(* FIFO channel that TSQueue is proved to be.  A position counts only by   *)
(* the sector it lies in, a path only by its number of corners, a distance *)
(* test is a choice, and one unit of time is one round of the main loop.   *)
(* FindPath says how its search and the corners come about: a path has at  *)
(* least one corner to walk to (ConnersFollow there), and where there is   *)
(* no way FindPath does not return, which here traps the main thread.      *)
(***************************************************************************)
EXTENDS Integers, Sequences, FiniteSets

CONSTANTS
    NumMonsters,    \* monsters in the table, 1000 in main()
    NumZones,       \* spawn zones, 6 in MapLoad
    Players,        \* attackers
    None,           \* the null target
    Sectors, Origin,   \* sectors of the map; the one position {0,0,0} is in
    MaxSpawn,       \* _maxSpawnCnt of each zone
    Word,           \* 2^w for the unsigned spawn counters
    Aggressive,     \* zones whose monster type has _firstAttack
    MaxHp, Damages,
    SpawnTicks, IdleTicks, AttackedTicks, CoolTicks,
    StartTicks,     \* _sumTick that the first Update of a zone can find
    MaxCorners,     \* bound: corners of a path
    MaxPending      \* bound: hits under way or waiting for one monster

Monsters == 1..NumMonsters
Zones == 1..NumZones

ASSUME CountAssumption ==
    /\ NumMonsters \in Nat \ {0} /\ NumZones \in Nat \ {0}
    /\ Word \in Nat /\ MaxSpawn \in [Zones -> 1..(Word - 1)]
ASSUME NoneAssumption == None \notin Players
ASSUME SectorAssumption == Origin \in Sectors
ASSUME NumberAssumption ==
    /\ MaxHp \in Nat \ {0} /\ Damages \subseteq Nat
    /\ MaxCorners \in Nat \ {0} /\ MaxPending \in Nat
    /\ {SpawnTicks, IdleTicks, AttackedTicks, CoolTicks} \subseteq Nat
    /\ StartTicks \subseteq Nat

VARIABLES
    mon,        \* _monsterTable
    hits,       \* the pushed side of each monster's TSQueue
    batch,      \* the drained side of the TSQueue being drained
    waitQueue,  \* MonsterManager::_waitSpawnQueue
    sector,     \* Sector::_monsters
    now, sum,   \* SpawnZone::_nowSpawnCnt, SpawnZone::_sumTick
    main,       \* where the main thread is
    credited,   \* the player whose ExpUp the last step called, or None
    hand        \* the monster each dispatch thread found alive, or None

vars == <<mon, hits, batch, waitQueue, sector, now, sum, main, credited, hand>>
field == <<waitQueue, sector, now, sum>>

States == {"IDLE", "ATTACK", "ATTACKED", "DEATH", "COOL_TIME", "PATROL",
           "TRACE", "RESPAWN"}

Pooled == [state |-> "RESPAWN", death |-> FALSE, hp |-> MaxHp,
           target |-> None, zone |-> 1, pos |-> Origin, corners |-> 0,
           idle |-> 0, hurt |-> 0, cool |-> 0]

Live(m) == mon[m].state # "RESPAWN"

Init ==
    /\ mon = [m \in Monsters |-> Pooled]
    /\ hits = [m \in Monsters |-> << >>]
    /\ batch = << >>
    /\ waitQueue = [i \in 1..NumMonsters |-> i]
    /\ sector = [s \in Sectors |-> {}]
    /\ now = [z \in Zones |-> 0]
    /\ \E start \in StartTicks : sum = [z \in Zones |-> start]
    /\ main = [at |-> "zone", i |-> 1, left |-> 0]
    /\ credited = None
    /\ hand = [p \in Players |-> None]

-----------------------------------------------------------------------------
(* The order of the main loop.                                             *)

AtZone(i) == [at |-> "zone", i |-> i, left |-> 0]
AtMonster(i) == [at |-> "monster", i |-> i, left |-> 0]

AfterZone(z) == IF z < NumZones THEN AtZone(z + 1) ELSE AtMonster(1)
AfterMonsterInclusive(m) ==
    IF m <= NumMonsters THEN AtMonster(m + 1) ELSE AtZone(1)
AfterMonster(m) == IF m < NumMonsters THEN AtMonster(m + 1) ELSE AtZone(1)

-----------------------------------------------------------------------------
(* SpawnZone::Update.                                                      *)

ZoneWaits(z) ==
    /\ main = AtZone(z)
    /\ sum[z] + 1 < SpawnTicks
    /\ sum' = [sum EXCEPT ![z] = @ + 1]
    /\ main' = AfterZone(z)
    /\ credited' = None
    /\ UNCHANGED <<mon, hits, batch, waitQueue, sector, now, hand>>

\* spawnCnt = _maxSpawnCnt - _nowSpawnCnt, in unsigned arithmetic.
SpawnCntAll(z) == MaxSpawn[z]
SpawnCntOneShort(z) == (MaxSpawn[z] - now[z] - 1) % Word
SpawnCnt(z) == (MaxSpawn[z] - now[z]) % Word

ZoneDue(z) ==
    /\ main = AtZone(z)
    /\ sum[z] + 1 >= SpawnTicks
    /\ main' = [at |-> "spawn", i |-> z, left |-> SpawnCnt(z)]
    /\ credited' = None
    /\ UNCHANGED <<mon, hits, batch, field, hand>>

InSpawnLoop(z) == main.at = "spawn" /\ main.i = z

\* PopMonster returned nullptr.
SpawnNothing(z) ==
    /\ InSpawnLoop(z) /\ main.left > 0
    /\ waitQueue = << >>
    /\ main' = [main EXCEPT !.left = @ - 1]
    /\ UNCHANGED <<mon, hits, batch, field, credited, hand>>

\* PopMonster, SetAttribute, Monster::Spawn at a random position, Set.
Spawned(r, z, s) ==
    [r EXCEPT !.state = "IDLE", !.death = FALSE, !.hp = MaxHp,
              !.zone = z, !.pos = s]

SpawnOne(z, s) ==
    /\ InSpawnLoop(z) /\ main.left > 0
    /\ waitQueue # << >>
    /\ LET m == Head(waitQueue) IN
        /\ mon' = [mon EXCEPT ![m] = Spawned(mon[m], z, s)]
        /\ sector' = [sector EXCEPT ![s] = @ \cup {m}]
    /\ waitQueue' = Tail(waitQueue)
    /\ now' = [now EXCEPT ![z] = @ + 1]
    /\ main' = [main EXCEPT !.left = @ - 1]
    /\ UNCHANGED <<hits, batch, sum, credited, hand>>

SpawnDone(z) ==
    /\ InSpawnLoop(z) /\ main.left = 0
    /\ sum' = [sum EXCEPT ![z] = 0]
    /\ main' = AfterZone(z)
    /\ UNCHANGED <<mon, hits, batch, waitQueue, sector, now, credited, hand>>

-----------------------------------------------------------------------------
(* Monster::Update, first half: a dead monster turns to DEATH, then        *)
(* AttackedProc applies what waits unless the monster cools down.          *)

SkipPooled(m) ==
    /\ main = AtMonster(m) /\ ~ Live(m)
    /\ main' = AfterMonster(m)
    /\ credited' = None
    /\ UNCHANGED <<mon, hits, batch, field, hand>>

WokenOnce(r) ==
    IF r.death THEN [r EXCEPT !.state = "DEATH", !.death = FALSE] ELSE r
Woken(r) == IF r.death THEN [r EXCEPT !.state = "DEATH"] ELSE r

NothingToApply(m) ==
    /\ main = AtMonster(m) /\ Live(m)
    /\ Woken(mon[m]).state = "COOL_TIME" \/ hits[m] = << >>
    /\ mon' = [mon EXCEPT ![m] = Woken(mon[m])]
    /\ main' = [main EXCEPT !.at = "act"]
    /\ credited' = None
    /\ UNCHANGED <<hits, batch, field, hand>>

SwapHits(m) ==
    /\ main = AtMonster(m) /\ Live(m)
    /\ Woken(mon[m]).state # "COOL_TIME" /\ hits[m] # << >>
    /\ mon' = [mon EXCEPT ![m] = Woken(mon[m])]
    /\ batch' = hits[m]
    /\ hits' = [hits EXCEPT ![m] = << >>]
    /\ main' = [main EXCEPT !.at = "drain"]
    /\ credited' = None
    /\ UNCHANGED <<field, hand>>

\* One turn of the drain loop.  It overrides DEATH by ATTACKED.
HitByFirst(r, h) ==
    [r EXCEPT !.state = "ATTACKED", !.hp = @ - h.damage,
              !.target = IF r.target = None THEN h.from ELSE r.target]
HitByNobody(r, h) == [r EXCEPT !.state = "ATTACKED", !.hp = @ - h.damage]
HitBy(r, h) ==
    [r EXCEPT !.state = "ATTACKED", !.target = h.from, !.hp = @ - h.damage]

DrainOne(m) ==
    /\ main.at = "drain" /\ main.i = m /\ batch # << >>
    /\ mon' = [mon EXCEPT ![m] = HitBy(mon[m], Head(batch))]
    /\ batch' = Tail(batch)
    /\ UNCHANGED <<hits, field, main, credited, hand>>

SettledBelowZero(r) ==
    IF r.hp < 0 THEN [r EXCEPT !.hp = 0, !.death = TRUE] ELSE r
Settled(r) == IF r.hp <= 0 THEN [r EXCEPT !.hp = 0, !.death = TRUE] ELSE r

DrainDone(m) ==
    /\ main.at = "drain" /\ main.i = m /\ batch = << >>
    /\ mon' = [mon EXCEPT ![m] = Settled(mon[m])]
    /\ main' = [main EXCEPT !.at = "act"]
    /\ UNCHANGED <<hits, batch, field, credited, hand>>

-----------------------------------------------------------------------------
(* Monster::Update, second half: one action per state.                     *)

Acts(m, state) ==
    main.at = "act" /\ main.i = m /\ mon[m].state = state

\* The monster becomes r where it stands.
Becomes(m, r) ==
    /\ mon' = [mon EXCEPT ![m] = r]
    /\ UNCHANGED <<hits, batch, field, credited, hand>>

Stays(m, r) == Becomes(m, r) /\ main' = AfterMonster(m)

\* The monster becomes r at a position in sector s (_prevPos = _pos, MapSync).
MoveTo(m, r, s) ==
    /\ mon' = [mon EXCEPT ![m] = [r EXCEPT !.pos = s]]
    /\ sector' = [t \in Sectors |->
                    IF t = s THEN sector[t] \cup {m}
                    ELSE IF t = mon[m].pos THEN sector[t] \ {m}
                    ELSE sector[t]]
    /\ UNCHANGED <<hits, batch, waitQueue, now, sum, credited, hand>>

Moves(m, r, s) == MoveTo(m, r, s) /\ main' = AfterMonster(m)

\* TraceSearch: the target's cell is closed, it is one cell away, or a path.
TraceSearch(r) ==
    {[r EXCEPT !.state = "IDLE"], [r EXCEPT !.state = "ATTACK", !.corners = 0]}
    \cup {[r EXCEPT !.state = "TRACE", !.corners = c] : c \in 1..MaxCorners}

\* PatrolDestSearch: the drawn cell is closed, or there is a path to it.
PatrolDestSearch(r) ==
    {r} \cup {[r EXCEPT !.state = "PATROL", !.corners = c] :
                c \in 1..MaxCorners}

\* AttackCheck: the target is in reach, or forgotten.
AttackCheck(r) ==
    {[r EXCEPT !.state = "ATTACK"], [r EXCEPT !.target = None]}

\* UpdateIdle once its timer is full: attack, look for a victim, or patrol.
IdleChoices(r) ==
    IF r.target # None THEN AttackCheck(r)
    ELSE PatrolDestSearch(r)
         \cup UNION {TraceSearch([r EXCEPT !.target = p]) :
                        p \in {q \in Players : r.zone \in Aggressive}}

UpdateIdle(m) ==
    /\ Acts(m, "IDLE")
    /\ IF mon[m].idle + 1 < IdleTicks
       THEN Stays(m, [mon[m] EXCEPT !.idle = @ + 1])
       ELSE \E r \in IdleChoices([mon[m] EXCEPT !.idle = 0]) : Stays(m, r)

UpdateAttack(m) ==
    /\ Acts(m, "ATTACK")
    /\ Stays(m, [mon[m] EXCEPT !.state = "COOL_TIME"])

UpdateCoolTimeRestarted(m) ==
    /\ Acts(m, "COOL_TIME")
    /\ Stays(m, IF 1 < CoolTicks THEN mon[m]
                ELSE [mon[m] EXCEPT !.cool = 0, !.state = "IDLE"])
UpdateCoolTime(m) ==
    /\ Acts(m, "COOL_TIME")
    /\ Stays(m, IF mon[m].cool + 1 < CoolTicks
                THEN [mon[m] EXCEPT !.cool = @ + 1]
                ELSE [mon[m] EXCEPT !.cool = 0, !.state = "IDLE"])

UpdateAttacked(m) ==
    /\ Acts(m, "ATTACKED")
    /\ LET r == [mon[m] EXCEPT !.hurt = 0] IN
        IF mon[m].hurt + 1 < AttackedTicks
        THEN Stays(m, [mon[m] EXCEPT !.hurt = @ + 1])
        ELSE IF r.death THEN Stays(m, r)
        ELSE \E t \in TraceSearch(r) : Stays(m, t)

\* A step of UpdatePatrol or UpdateTrace that does not end at the last corner.
Walk(m, s) ==
    /\ Acts(m, "PATROL") \/ Acts(m, "TRACE")
    /\ \E c \in {mon[m].corners, mon[m].corners - 1} \cap 1..MaxCorners :
        Moves(m, [mon[m] EXCEPT !.corners = c], s)

PatrolEnds(m, s) ==
    /\ Acts(m, "PATROL") /\ mon[m].corners = 1
    /\ Moves(m, [mon[m] EXCEPT !.corners = 0, !.state = "IDLE"], s)

\* UpdateTrace at the last corner: attack from here, give up, or trace on.
TraceEnds(m, s) ==
    /\ Acts(m, "TRACE") /\ mon[m].corners = 1
    /\ LET r == [mon[m] EXCEPT !.corners = 0, !.state = "ATTACK"] IN
        \E t \in TraceSearch(r) : Moves(m, t, s)

-----------------------------------------------------------------------------
(* Where there is no way, FindPath walks back from the destination to the  *)
(* map's corner and on from there for ever: the search that the update     *)
(* began never ends, and the main thread with it.                          *)

Trapped == main.at = "trapped"
GetsTrapped == main' = [main EXCEPT !.at = "trapped"]

IdleNoWay(m) ==
    /\ Acts(m, "IDLE")
    /\ mon[m].idle + 1 >= IdleTicks /\ mon[m].target = None
    /\ \E t \in {None} \cup {p \in Players : mon[m].zone \in Aggressive} :
        Becomes(m, [mon[m] EXCEPT !.idle = @ + 1, !.target = t])
    /\ GetsTrapped

AttackedNoWay(m) ==
    /\ Acts(m, "ATTACKED")
    /\ mon[m].hurt + 1 >= AttackedTicks /\ ~ mon[m].death
    /\ Becomes(m, [mon[m] EXCEPT !.hurt = @ + 1])
    /\ GetsTrapped

TraceNoWay(m, s) ==
    /\ Acts(m, "TRACE") /\ mon[m].corners = 1
    /\ MoveTo(m, [mon[m] EXCEPT !.corners = 0, !.state = "ATTACK"], s)
    /\ GetsTrapped

\* One more turn of the loop.
WalksBackForEver == Trapped /\ UNCHANGED vars

-----------------------------------------------------------------------------
(* UpdateDeath.                                                            *)

ClearedInState(r) ==
    [r EXCEPT !.death = FALSE, !.target = None, !.pos = Origin, !.corners = 0]
Cleared(r) ==
    [r EXCEPT !.state = "RESPAWN", !.death = FALSE, !.target = None,
              !.pos = Origin, !.corners = 0]

\* Clear before ReSet: the monster would be taken out of the wrong sector.
UpdateDeathClearFirst(m) ==
    /\ Acts(m, "DEATH")
    /\ credited' = mon[m].target
    /\ sector' = [sector EXCEPT ![Origin] = @ \ {m}]
    /\ mon' = [mon EXCEPT ![m] = Cleared(mon[m])]
    /\ now' = [now EXCEPT ![mon[m].zone] = (@ - 1) % Word]
    /\ waitQueue' = Append(waitQueue, m)
    /\ main' = AfterMonster(m)
    /\ UNCHANGED <<hits, batch, sum, hand>>

\* UpdateDeath: ExpUp of the target, then PushMonster (ReSet by _pos, Clear,
\* ReSpawn of its zone, back into the queue).
UpdateDeath(m) ==
    /\ Acts(m, "DEATH")
    /\ credited' = mon[m].target
    /\ sector' = [sector EXCEPT ![mon[m].pos] = @ \ {m}]
    /\ mon' = [mon EXCEPT ![m] = Cleared(mon[m])]
    /\ now' = [now EXCEPT ![mon[m].zone] = (@ - 1) % Word]
    /\ waitQueue' = Append(waitQueue, m)
    /\ main' = AfterMonster(m)
    /\ UNCHANGED <<hits, batch, sum, hand>>

-----------------------------------------------------------------------------
(* MonsterManager::AttackedMonster, on the attacker's dispatch thread.     *)

UnderWay(m) == Len(hits[m]) + Cardinality({p \in Players : hand[p] = m})

FoundAnyway(m) == TRUE
FoundAlive(m) == ~ mon[m].death

\* IsDead() is FALSE and the target is in range; out of range is no step.
CheckTarget(p, m) ==
    /\ hand[p] = None
    /\ UnderWay(m) < MaxPending
    /\ FoundAlive(m)
    /\ hand' = [hand EXCEPT ![p] = m]
    /\ UNCHANGED <<mon, hits, batch, field, main, credited>>

\* Monster::Attacked, with whatever has become of the monster by now.
PushHit(p, d) ==
    /\ hand[p] # None
    /\ hits' = [hits EXCEPT ![hand[p]] = Append(@, [from |-> p, damage |-> d])]
    /\ hand' = [hand EXCEPT ![p] = None]
    /\ UNCHANGED <<mon, batch, field, main, credited>>

-----------------------------------------------------------------------------
ZoneStep(z) == \/ ZoneWaits(z) \/ ZoneDue(z) \/ SpawnNothing(z)
               \/ (\E s \in Sectors : SpawnOne(z, s)) \/ SpawnDone(z)

HitStep(m) == SkipPooled(m) \/ NothingToApply(m) \/ SwapHits(m)
                 \/ DrainOne(m) \/ DrainDone(m)

ActStep(m) ==
    \/ UpdateIdle(m) \/ UpdateAttack(m) \/ UpdateCoolTime(m)
    \/ UpdateAttacked(m) \/ UpdateDeath(m)
    \/ \E s \in Sectors : Walk(m, s) \/ PatrolEnds(m, s) \/ TraceEnds(m, s)

NoWayStep(m) == IdleNoWay(m) \/ AttackedNoWay(m)
                   \/ \E s \in Sectors : TraceNoWay(m, s)

MainStep == (\E z \in Zones : ZoneStep(z))
            \/ (\E m \in Monsters : HitStep(m) \/ ActStep(m) \/ NoWayStep(m))

DispatchStep(p) == (\E m \in Monsters : CheckTarget(p, m))
                   \/ (\E d \in Damages : PushHit(p, d))

Next == MainStep \/ WalksBackForEver \/ \E p \in Players : DispatchStep(p)

\* main() loops for ever, unless it is trapped in FindPath; that a send() to a
\* client that does not read never holds it up is assumed.  A dispatch thread
\* inside a handler runs on; that anybody attacks is not assumed.
Fairness ==
    /\ WF_vars(MainStep)
    /\ \A p \in Players : WF_vars(\E d \in Damages : PushHit(p, d))

Spec == Init /\ [][Next]_vars /\ Fairness

-----------------------------------------------------------------------------
(* Properties.                                                             *)

Hits == [from : Players, damage : Damages]

MonsterType ==
    [state : States, death : BOOLEAN, hp : Int, target : Players \cup {None},
     zone : Zones, pos : Sectors, corners : Nat,
     idle : Nat, hurt : Nat, cool : Nat]

MainType ==
    [at : {"zone", "spawn"}, i : Zones, left : Nat]
    \cup [at : {"monster", "drain", "act", "trapped"}, i : Monsters, left : {0}]

TypeOK ==
    /\ mon \in [Monsters -> MonsterType]
    /\ hits \in [Monsters -> Seq(Hits)]
    /\ batch \in Seq(Hits)
    /\ waitQueue \in Seq(Monsters)
    /\ sector \in [Sectors -> SUBSET Monsters]
    /\ now \in [Zones -> Int] /\ sum \in [Zones -> Nat]
    /\ main \in MainType
    /\ credited \in Players \cup {None}
    /\ hand \in [Players -> Monsters \cup {None}]

\* PopMonster hands out only monsters that are in no one's use: the wait queue
\* holds each RESPAWN monster once and no other, however monsters die, are hit
\* while they wait, and come back.
PoolExact ==
    /\ \A i, j \in 1..Len(waitQueue) :
        waitQueue[i] = waitQueue[j] => i = j
    /\ \A m \in Monsters :
        Live(m) <=> \A i \in 1..Len(waitQueue) : waitQueue[i] # m

LiveIn(z) == {m \in Monsters : Live(m) /\ mon[m].zone = z}

\* _nowSpawnCnt counts the living monsters of the zone, and with those still
\* to be spawned it never exceeds _maxSpawnCnt, so the unsigned difference in
\* SpawnZone::Update never wraps into billions of spawns.
CountExact ==
    \A z \in Zones :
        /\ now[z] = Cardinality(LiveIn(z))
        /\ now[z] + (IF InSpawnLoop(z) THEN main.left ELSE 0) <= MaxSpawn[z]

\* Sector::_monsters: a living monster is in the set of the sector it stands
\* in and in no other, a waiting one in none, so no client is told of a ghost.
SectorExact ==
    \A m \in Monsters, s \in Sectors :
        m \in sector[s] <=> Live(m) /\ mon[m].pos = s

\* _target is dereferenced without a test in UpdateAttack, TraceSearch (after
\* ATTACKED and TRACE) and credited in UpdateDeath: it is never null there.
TargetHeld ==
    \A m \in Monsters :
        mon[m].state \in {"ATTACK", "ATTACKED", "TRACE", "DEATH", "COOL_TIME"}
            => mon[m].target # None

\* Between updates a living monster is dead exactly when it has no hp left,
\* and a dead one neither walks, attacks nor cools down.
DeadMeansNoHp ==
    \A m \in Monsters :
        ~ (main.at = "drain" /\ main.i = m) =>
            /\ Live(m) => (mon[m].death <=> mon[m].hp = 0)
            /\ mon[m].death => mon[m].state \in {"ATTACKED", "DEATH"}

\* A death is final until the pool: no late hit, search or timer revives a
\* dead monster or gives it hp.
NoRevival ==
    [][\A m \in Monsters :
        mon[m].death => \/ mon'[m].death /\ mon'[m].hp <= 0
                        \/ mon'[m].state = "RESPAWN"]_vars

\* Experience is paid exactly when a dead monster leaves the field, once, and
\* always to somebody: ExpUp and the return to the pool go together.
PaidOnLeaving ==
    [][(credited' # None /\ credited = None) <=>
        \E m \in Monsters : Live(m) /\ mon'[m].state = "RESPAWN"]_vars

\* What is aimed at the monster: the batch being drained, then what was pushed.
Aimed(m) ==
    IF main.at = "drain" /\ main.i = m THEN batch \o hits[m] ELSE hits[m]

Health(m) == IF mon[m].hp < 0 THEN 0 ELSE mon[m].hp
Foe(m) == IF mon[m].hp <= 0 THEN mon[m].target ELSE None

\* All this is the life that MonsterLife promises: a spawn takes the longest
\* waiting into a zone that has room, a turn of the drain loop is a Strike,
\* UpdateDeath is a Bury that pays the last to hit, not the one that killed, and
\* all else that zones, timers, searches and sectors do is invisible.
Life == INSTANCE MonsterLife WITH
           waiting <- waitQueue,
           home <- [m \in Monsters |-> mon[m].zone],
           hp <- [m \in Monsters |-> Health(m)],
           blows <- [m \in Monsters |-> Aimed(m)],
           foe <- [m \in Monsters |-> Foe(m)],
           paid <- credited

IsMonsterLife == Life!Spec

\* A monster that died returns to the pool, although each hit that was still
\* in its queue turns it from DEATH to ATTACKED once more; unless, here and
\* below, the main thread is trapped in FindPath first.
DeadLeave == \A m \in Monsters : mon[m].death ~> ~ Live(m) \/ Trapped

\* A hit on a living monster is applied or outlived; cooling down only delays.
HitsApplied ==
    \A m \in Monsters :
        hits[m] # << >> /\ Live(m) ~> hits[m] = << >> \/ ~ Live(m) \/ Trapped

\* A zone that lost monsters is filled up again.
ZoneRefills ==
    \A z \in Zones : now[z] < MaxSpawn[z] ~> now[z] = MaxSpawn[z] \/ Trapped
=============================================================================
