---------------------------- MODULE MonsterViews ----------------------------
(***************************************************************************)
(* What the clients are told of monsters: the monster half of MapManager   *)
(* and Sector (requies_server), between the main loop, which moves one     *)
(* monster at a time, and the handlers of the players on the dispatch      *)
(* threads.                                                                *)
(*                                                                         *)
(* Each call on a Sector is a step under its lock, but SendMonsterList and *)
(* SendMonsterRemoveList are two: they gather under the lock and send when *)
(* it is released.  Positions count only by their sector, and players are  *)
(* as in FieldSessions, less what they tell each other.                    *)
(***************************************************************************)
EXTENDS FiniteSets

CONSTANTS
    Players, Monsters,
    None,
    Sectors,
    Adjacent,       \* ConvertSectorIndexAdjacentIndex, as a set
    SpawnSector     \* sector of {6,0,125}, where ReSpawn puts a player

ASSUME NobodyAssumption == None \notin Monsters \cup Sectors
ASSUME MapAssumption ==
    /\ Adjacent \in [Sectors -> SUBSET Sectors] /\ SpawnSector \in Sectors
    /\ \A c, d \in Sectors : c \in Adjacent[d] <=> d \in Adjacent[c]

VARIABLES
    at, left,       \* each player's stage, and the sectors it has yet to ask
    letter,         \* the list gathered and not yet sent
    pos, prevPos,   \* sectors of the player
    sessions,       \* Sector::_sessions
    op, who, tell,  \* the main loop: its stage, the monster, whom to tell
    where, from,    \* sectors of the monster's _pos (None: in the pool), _prevPos
    monsters,       \* Sector::_monsters
    sees,           \* the monsters each client has been told of
    crossed         \* history: see Crossing

player == <<at, left, letter, pos, prevPos, sessions>>
main == <<op, who, tell, where, from, monsters>>
vars == <<player, main, sees, crossed>>

Telling == {"enterTell", "moveIn"}
Retracting == {"moveOut", "respawnOut", "leaveOut"}
Stages == {"none", "in", "enterSet", "moveReset", "moveSet", "respawnReset",
           "leaveReset"} \cup Telling \cup Retracting
Ops == {"rest", "appearSet", "appearTell", "moveReset", "moveSet", "moveOut",
        "moveIn", "vanishReset", "vanishTell"}

\* What follows each stage of a handler, and of the main loop.
Then ==
    [enterSet |-> "enterTell", enterTell |-> "in",
     moveReset |-> "moveSet", moveSet |-> "moveOut", moveOut |-> "moveIn",
     moveIn |-> "in", respawnReset |-> "respawnOut", respawnOut |-> "enterSet",
     leaveReset |-> "leaveOut", leaveOut |-> "none"]
AfterTellFirst ==
    [appearSet |-> "rest", appearTell |-> "appearSet",
     moveReset |-> "moveSet", moveSet |-> "moveOut", moveOut |-> "moveIn",
     moveIn |-> "rest", vanishReset |-> "vanishTell", vanishTell |-> "rest"]
After ==
    [appearSet |-> "appearTell", appearTell |-> "rest",
     moveReset |-> "moveSet", moveSet |-> "moveOut", moveOut |-> "moveIn",
     moveIn |-> "rest", vanishReset |-> "vanishTell", vanishTell |-> "rest"]

\* The sectors to ask or to tell in a stage, for one that was at b and is at a.
Toured(stage, a, b) ==
    CASE stage = "moveOut" -> Adjacent[b] \ Adjacent[a]
      [] stage = "moveIn" -> Adjacent[a] \ Adjacent[b]
      [] stage \in {"enterTell", "respawnOut", "leaveOut", "appearTell",
                    "vanishTell"} -> Adjacent[a]
      [] OTHER -> {}

NoLetter == [stage |-> "in", of |-> {}]

Goto(p, stage) ==
    /\ at' = [at EXCEPT ![p] = stage]
    /\ left' = [left EXCEPT ![p] = Toured(stage, pos[p], prevPos[p])]

Proceed(stage) ==
    /\ op' = stage
    /\ tell' = IF stage = "rest" THEN {} ELSE Toured(stage, where[who], from[who])

\* A handler and an operation of the main loop under way at once that may leave
\* the client wrong: either is a move, or a monster vanishes from under a
\* ReSpawn or a list that is gathered and not yet sent.
Moving == {"moveReset", "moveSet", "moveOut", "moveIn"}
Vanishing == {"vanishReset", "vanishTell"}

Crossing(p, m) ==
    /\ at[p] \notin {"none", "in"} /\ who = m
    /\ \/ at[p] \in Moving \/ op \in Moving
       \/ op \in Vanishing /\ at[p] \in {"respawnReset", "respawnOut"}
       \/ op \in Vanishing /\ m \in letter[p].of

NoteCrossing ==
    crossed' = crossed \cup {pm \in Players \X Monsters : Crossing(pm[1], pm[2])}

Init ==
    /\ at = [p \in Players |-> "none"] /\ left = [p \in Players |-> {}]
    /\ letter = [p \in Players |-> NoLetter]
    /\ pos = [p \in Players |-> SpawnSector] /\ prevPos = pos
    /\ sessions = [c \in Sectors |-> {}]
    /\ op = "rest" /\ who = None /\ tell = {}
    /\ where = [m \in Monsters |-> None] /\ from = where
    /\ monsters = [c \in Sectors |-> {}]
    /\ sees = [p \in Players |-> {}] /\ crossed = {}

-----------------------------------------------------------------------------
(* The handlers: PLAYERINIT, MAPSYNC, PLAYERESPAWN, and the disconnect.    *)

\* Up to the first call on the map.
Begin(p, c, stage) ==
    /\ pos' = [pos EXCEPT ![p] = c]
    /\ at' = [at EXCEPT ![p] = stage]
    /\ NoteCrossing
    /\ UNCHANGED <<left, letter, sessions, main, sees>>

Enter(p, c) ==
    /\ at[p] = "none"
    /\ prevPos' = [prevPos EXCEPT ![p] = c]
    /\ Begin(p, c, "enterSet")

Move(p, c) ==
    /\ at[p] = "in" /\ c # prevPos[p]
    /\ Begin(p, c, "moveReset")
    /\ UNCHANGED prevPos

ReSpawn(p) ==
    at[p] = "in" /\ Begin(p, pos[p], "respawnReset") /\ UNCHANGED prevPos

Leave(p) ==
    at[p] = "in" /\ Begin(p, pos[p], "leaveReset") /\ UNCHANGED prevPos

SetPlayer(p) ==
    /\ at[p] \in {"enterSet", "moveSet"}
    /\ sessions' = [sessions EXCEPT ![pos[p]] = @ \cup {p}]
    /\ Goto(p, Then[at[p]]) /\ NoteCrossing
    /\ UNCHANGED <<letter, pos, prevPos, main, sees>>

ResetPlayer(p) ==
    /\ at[p] \in {"moveReset", "respawnReset", "leaveReset"}
    /\ sessions' = [sessions EXCEPT ![prevPos[p]] = @ \ {p}]
    /\ Goto(p, Then[at[p]]) /\ NoteCrossing
    /\ UNCHANGED <<letter, pos, prevPos, main, sees>>

\* SendMonsterList and SendMonsterRemoveList, as far as the lock goes.
Gather(p, c) ==
    /\ c \in left[p] /\ letter[p] = NoLetter
    /\ left' = [left EXCEPT ![p] = @ \ {c}]
    /\ letter' = [letter EXCEPT ![p] = [stage |-> at[p], of |-> monsters[c]]]
    /\ NoteCrossing
    /\ UNCHANGED <<at, pos, prevPos, sessions, main, sees>>

\* The rest of them.
Deliver(p) ==
    /\ letter[p] # NoLetter
    /\ sees' = [sees EXCEPT ![p] =
                  IF at[p] \in Telling THEN @ \cup letter[p].of
                  ELSE @ \ letter[p].of]
    /\ letter' = [letter EXCEPT ![p] = NoLetter]
    /\ NoteCrossing
    /\ UNCHANGED <<at, left, pos, prevPos, sessions, main>>

\* All sectors are asked: ReSpawn moves the player, MAPSYNC sets _prevPos, and
\* what a client that is gone was told does not matter.
TourDone(p) ==
    /\ at[p] \in Telling \cup Retracting
    /\ left[p] = {} /\ letter[p] = NoLetter
    /\ Goto(p, Then[at[p]])
    /\ LET there == IF at[p] = "respawnOut" THEN SpawnSector ELSE pos[p]
       IN /\ pos' = [pos EXCEPT ![p] = there]
          /\ prevPos' = [prevPos EXCEPT ![p] =
                            IF at[p] = "moveOut" THEN @ ELSE there]
    /\ IF at[p] = "leaveOut"
       THEN /\ sees' = [sees EXCEPT ![p] = {}]
            /\ crossed' = {pm \in crossed : pm[1] # p}
       ELSE NoteCrossing /\ UNCHANGED sees
    /\ UNCHANGED <<letter, sessions, main>>

Handler(p) ==
    \/ \E c \in Sectors : Enter(p, c) \/ Move(p, c) \/ Gather(p, c)
    \/ ReSpawn(p) \/ Leave(p) \/ SetPlayer(p) \/ ResetPlayer(p) \/ Deliver(p)
    \/ TourDone(p)

-----------------------------------------------------------------------------
(* The main loop: Set from SpawnZone::Spawn, MapSync from UpdatePatrol and *)
(* UpdateTrace, ReSet from PushMonster.                                    *)

Start(m, stage) ==
    /\ op = "rest"
    /\ op' = stage /\ who' = m
    /\ NoteCrossing
    /\ UNCHANGED <<player, tell, monsters, sees>>

Appear(m, c) ==
    /\ where[m] = None
    /\ where' = [where EXCEPT ![m] = c] /\ from' = [from EXCEPT ![m] = c]
    /\ Start(m, "appearSet")

Walk(m, c) ==
    /\ where[m] \notin {None, c}
    /\ from' = [from EXCEPT ![m] = where[m]] /\ where' = [where EXCEPT ![m] = c]
    /\ Start(m, "moveReset")

Vanish(m) ==
    /\ where[m] # None
    /\ Start(m, "vanishReset")
    /\ UNCHANGED <<where, from>>

SetMonster ==
    /\ op \in {"appearSet", "moveSet"}
    /\ monsters' = [monsters EXCEPT ![where[who]] = @ \cup {who}]
    /\ Proceed(After[op]) /\ NoteCrossing
    /\ UNCHANGED <<player, who, where, from, sees>>

ResetMonster ==
    /\ op \in {"moveReset", "vanishReset"}
    /\ LET c == IF op = "moveReset" THEN from[who] ELSE where[who]
       IN monsters' = [monsters EXCEPT ![c] = @ \ {who}]
    /\ Proceed(After[op]) /\ NoteCrossing
    /\ UNCHANGED <<player, who, where, from, sees>>

\* _SpawnMonster and _UnSpawnMonster: a broadcast under the sector's lock.
Tell(c) ==
    /\ c \in tell
    /\ tell' = tell \ {c}
    /\ sees' = [p \in Players |->
                  IF p \notin sessions[c] THEN sees[p]
                  ELSE IF op \in {"appearTell", "moveIn"} THEN sees[p] \cup {who}
                  ELSE sees[p] \ {who}]
    /\ NoteCrossing
    /\ UNCHANGED <<player, op, who, where, from, monsters>>

\* The monster the main loop is at, until its operation is over.
At(stage) == IF stage = "rest" THEN None ELSE who

\* A monster that is dead goes back to the pool.
Told ==
    /\ op \in {"appearTell", "moveOut", "moveIn", "vanishTell"} /\ tell = {}
    /\ Proceed(After[op])
    /\ who' = At(After[op])
    /\ where' = IF op = "vanishTell" THEN [where EXCEPT ![who] = None] ELSE where
    /\ NoteCrossing
    /\ UNCHANGED <<player, from, monsters, sees>>

Loop ==
    \/ \E m \in Monsters : Vanish(m) \/ \E c \in Sectors : Appear(m, c) \/ Walk(m, c)
    \/ SetMonster \/ ResetMonster \/ Told
    \/ \E c \in Sectors : Tell(c)

Next == Loop \/ \E p \in Players : Handler(p)

Spec == Init /\ [][Next]_vars

-----------------------------------------------------------------------------
(* Properties.                                                             *)

TypeOK ==
    /\ at \in [Players -> Stages] /\ left \in [Players -> SUBSET Sectors]
    /\ letter \in [Players -> [stage : Stages, of : SUBSET Monsters]]
    /\ pos \in [Players -> Sectors] /\ prevPos \in [Players -> Sectors]
    /\ sessions \in [Sectors -> SUBSET Players]
    /\ op \in Ops /\ who \in Monsters \cup {None} /\ tell \subseteq Sectors
    /\ op = "rest" <=> who = None
    /\ where \in [Monsters -> Sectors \cup {None}]
    /\ from \in [Monsters -> Sectors \cup {None}]
    /\ monsters \in [Sectors -> SUBSET Monsters]
    /\ sees \in [Players -> SUBSET Monsters]
    /\ crossed \subseteq Players \X Monsters

\* Between handlers, and while the main loop is not at that monster, a client
\* knows of a monster exactly when it is in range of its player, also if it
\* appeared or vanished while the player entered, or appeared while it was
\* respawned: both sides enter their sector before they look or tell.  What
\* Crossing lists does leave monsters that are not there, or misses some.
ViewsExact ==
    \A p \in Players, m \in Monsters :
        at[p] = "in" /\ who # m /\ <<p, m>> \notin crossed
            => (m \in sees[p] <=> where[m] \in Adjacent[pos[p]])
=============================================================================
