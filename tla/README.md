# NoviceFieldServer in TLA+

NoviceFieldServer is the field server of a small online game: a C++ program for
Windows made of a network library (`src/mallo`) and the game server on top of
it (`src/requies_server`). Clients log in, walk over a map of square sectors,
see the players and monsters near them, and fight. This directory holds the
specification of that server: TLA+ modules translated from its source, the TLC
configurations that check them on small instances, and proofs, checked by
TLAPS, of their main properties for every size.

## 1. Inventory

### Threads

`main()` (requiesServer.cpp:36) loads the tables and the map and then starts

* two *dispatch threads* per processor, each looping on `IOCPCore::Dispatch`;
* one *accept thread*, looping in `ServerService::Start`;
* and itself becomes the *main loop*: every 200 ms `MapManager::Update` (all
  spawn zones in order) and `MonsterManager::Update` (all monsters in order).

A session has one overlapped receive outstanding, so its packets are handled
one after another, while the handlers of different sessions, and the main loop,
run at once. They share the sectors, the session table, the monsters' hit
queues, the players and the database connections.

### Components

| component | state | operations | used by |
| --- | --- | --- | --- |
| `TSQueue`, `SpinLock` | two buffers, a lock word | Push, SwapQueue, Front/Pop, PopQueueEmpty | each monster has one: dispatch threads push, the main loop drains |
| `SpawnZone` | `_nowSpawnCnt`, timer | Update, Spawn, Increase/DecreaseSpawnCnt | main loop |
| `MonsterManager` | table of monsters, `_waitSpawnQueue` | Push/PopMonster, Update, AttackedMonster | main loop; AttackedMonster on dispatch threads |
| `Monster` | state, `_death`, hp, `_target`, `_path`, `_conner`, timers | Update (AttackedProc, then one handler per state), Attacked | main loop; Attacked on dispatch threads |
| `MapManager` | sectors, walkable cells, `_d` | Set, ReSet, MapSync, BroadCast, FindPath, sector arithmetic | everybody |
| `Sector` | sets of sessions and of monsters, a lock | Set, Reset, BroadCast, Send...List | everybody, through MapManager |
| `IOCPCore`, `Session`, `ServerService` | the port's queue, sockets | Accept, RegisterIOCP, Dispatch, Recv | accept and dispatch threads |
| `RecvBuffer` | bytes, read and write position | Read, AddRecvPos | the session's handler |
| `GameSession` | `_player`, `_sessionId` | WelcomeInitPacket, OnRecv, OnDisconnect, delete | dispatch threads |
| `SessionManager` | session by user id, a lock | Add/Pop/GetSession, BroadCast | dispatch threads |
| `PacketHandler` | none | one handler per packet type | dispatch threads |
| `Player` | position, hp, experience, stat points | PlayerSync, Attacked, ReSpawn, ExpUp, UpStat | dispatch threads; Attacked and ExpUp also from the main loop |
| `DBConnectionPool` | idle connections, a lock | Init, Pop, Push | WelcomeInitPacket |

`MonsterTable`, `RandomManager` and `MyDBConnection` are filled at start and
then only read; `BufferReader` and `BufferWriter` copy fields; `LockBasedQueue`
and `TCPConnector` are not used.

### What is hard, and what makes it correct

* *Hits against a monster's life.* A dispatch thread looks at `_death`, later
  pushes a hit; meanwhile the monster can die, wait in the pool and come back
  as another one. Correct: pool, counters and sectors stay exact, a death is
  final, experience is paid once, dead monsters leave, zones fill up again.
* *The double buffer.* `SwapQueue` tests a `std::queue` without its lock.
  Correct: no hit is lost, doubled or overtaken.
* *Handlers of several sessions.* Entering, leaving and crossing sectors are
  many short critical sections. Correct: afterwards each session is in exactly
  the set of its sector, the table holds no deleted session, and clients know
  of each other exactly when they are in range.
* *Disconnect.* The session is torn down by the thread that received the 0
  byte completion. Correct: it leaves all shared structures before it is
  deleted, and it does so in the end even if there are few threads.
* *A stream in pieces.* Correct: packets come out whole, once, in order, and
  the buffer never runs out of room for the next receive.
* *Sector arithmetic* on a one-dimensional index. Correct: everybody within
  sight is told, and being told is mutual.
* *Monsters in a client's view.* The main loop moves, spawns and removes
  monsters while dispatch threads move players; each change is several short
  critical sections, and a list of monsters is gathered under the lock but sent
  after it. Correct: a client knows the monsters in range.
* *A player's life without a lock.* The main loop and every dispatch thread may
  be inside `Attacked` of one player, and its own thread in `ReSpawn`, with
  plain loads and stores of `_hp` and `_death`; experience and stat points have
  a lock, but the test in `UpStat` is outside it. Correct: no negative hit
  points are left, hit points and `_death` agree, no stat point is lost.
* *Path finding.* The search uses a distance that is not a lower bound, a
  different one for the first node, and parents that change; the path is
  appended to what an earlier search left. Correct: a way is found if there is
  one, it is a way, and a monster that walks it comes to its end.
* *Borrowed connections.* Correct: never two borrowers, none lost.

`PROJECT.json` lists each of these at its line under `hazards`, with the
properties that cover it, and those nothing covers yet with the reason.

## 2. Modules

Every component module has `CONSTANTS` with named assumptions, one action per
operation or per critical section of it, and its properties at the end. An
operator of the form `XSomething` defined just before `X` (for example
`AcquireUntested` before `Acquire`) is a *faulty variant*: what a likely
mistake in that code would be. No specification uses them; replacing `X` by its
variant must break the property paired with it under `mutants` in
`PROJECT.json`, which shows that the property depends on that code.

| module | models | refines or uses |
| --- | --- | --- |
| `FifoChannel` | abstract: events put at one end, taken at the other | - |
| `TSQueue` | TSQueue.h over SpinLock, threads step by step | implements `FifoChannel` |
| `MonsterLife` | abstract: what becomes of a monster, of the blows aimed at it, and who is paid | - |
| `MonsterField` | main loop, spawn zones, monster manager, monster state machine, monster sets of the sectors, AttackedMonster | implements `MonsterLife`; its `hits`/`batch` are the channel that `TSQueue` implements |
| `FieldSessions` | completion port, session life cycle, packet handlers that change shared state, player sets of the sectors, session table, what clients have been told | its receive is the loop of `RecvBuffer` |
| `RecvBuffer` | RecvBuffer.cpp and Session::Recv byte by byte | implements `FifoChannel`, of packets |
| `MonsterViews` | the monster half of `MapManager` and `Sector`: monster sets, what clients are told of monsters, the players' tours over the sectors | its players are those of `FieldSessions`, its main loop an abstraction of `MonsterField` |
| `PlayerCombat` | hit points, death, levels, stat points of one `Player` under all threads | `Attacked`, `ExpUp` are what `MonsterField` calls |
| `FindPath` | `MapManager::FindPath`, the corners of `TraceSearch` and `PatrolDestSearch`, the walk to them | the corners counted in `MonsterField` |
| `SectorGrid` | sector index and offsets | its `ConvertSectorIndexAdjacentIndex` is the `Adjacent` of `FieldSessions` and `MonsterViews` |
| `DBConnectionPool` | pool and borrowers | - |
| `TSQueue_proofs`, `MonsterField_proofs`, `FieldSessions_proofs`, `RecvBuffer_proofs`, `DBConnectionPool_proofs`, `PlayerCombat_proofs`, `FindPath_proofs`, `MonsterViews_proofs` | theorems | extend their modules; `FieldSessions_proofs` also extends `SectorGrid` |
| `MC...` | instances for TLC | extend their modules |

### TSQueue

A push is a compare-and-swap on the lock, a load of the buffer, a store and an
unlock; a swap likewise. Load and store are separate steps, so that without the
lock they would overwrite each other. `PollEmpty`/`PollFull` are the test that
`SwapQueue` makes before it locks. `LoopDone` is the end of the drain loop in
`AttackedProc`. `pushed` and `applied` are histories.

### MonsterField

`main` is the program counter of the main loop: a zone, the spawn loop of a
zone, a monster, its drain loop, or its state handler. The first half of
`Monster::Update` (lines 77-84 and AttackedProc) is `SkipPooled`,
`NothingToApply`, `SwapHits`, `DrainOne`, `DrainDone`; the second half is one
action per state handler. `CheckTarget` and `PushHit` are the two halves of
`AttackedMonster`, between which anything can happen. Abstractions:

* a position is the sector it lies in; a path is its number of corners
  (`_conner.size()`); whether a cell can be entered, a target is near, or a
  draw succeeds is a choice;
* a unit of time is one round of the main loop, a timer counts rounds;
  the first zone update sees an arbitrary `_sumTick` (`StartTicks`), because
  `_lastTick` starts at 0 and the tick count does not;
* `_nowSpawnCnt` is subtracted in unsigned arithmetic (`% Word`);
* what `FindPath` finds is part of `FindPath`. That a trace or a patrol under way
  has a corner to walk to is proved there (`ConnersFollow`) and used here. Where
  there is no way `FindPath` does not return (MapManager.cpp:427): in
  `IdleNoWay`, `AttackedNoWay` and `TraceNoWay` the main thread is trapped in it,
  half way through the update, and `WalksBackForEver` is all it does from then
  on (in the code until `path` has used up the memory); the dispatch threads go on;
* that `_target` can be a deleted player is not part of this module.

`MonsterLife` is what a player may rely on, without loop, timers, states,
searches and sectors. The mapping (`Life` in `MonsterField`): `waiting` is the
wait queue; `hp` is `_hp`, or 0 where a batch has taken it below; `blows` is what
is left of the batch being drained, then what was pushed; `foe` is `_target`
once there are no hit points; `paid` is the player whose `ExpUp` was called.
`SpawnOne` is then a `Spawn` of the monster that has waited longest into a zone
with room, `PushHit` an `Aim`, each turn of the drain loop a `Strike`,
`UpdateDeath` a `Bury`; everything else stutters or ends a payment.

### FieldSessions

`at[s]` is the stage a session's handler is in, `Then` the order of the stages
of each handler; `left[s]` the sectors the current tour still has to visit. A
stage is one call under one lock: `AddSession`, `PopSession`, `Sector::Set`,
`Sector::Reset`, one `SendPlayerList` or `SendPlayerRemoveList`. `Complete`
completes the outstanding receive with packets, with a fragment (no whole
packet) or with 0 bytes; `Dispatch` takes the port's oldest completion if a
thread is free; `Post` may be refused, which `Session::Recv` prints and forgets
(`lost`). `sees` is what each client was last told.

A move comes as MAPSYNC or as PLAYERSYNC, and nothing but a comment
(PacketHandler.cpp:23) says when the client sends which: `PlayerSync` moves `pos`
to any sector and leaves `prevPos`, so `prevPos` is the sector the player
announced last. `MapSync` takes a session out of the set of `prevPos`, `ReSet`
out of that of `pos` (`LeftSector`).

Neither `_player` nor `_sessionId` is initialised (GameSession.cpp:9, Session.h:11),
and `OnDisconnect` uses the id, `~GameSession` the player, also of a connection
that closes before PLAYERINIT. `SessionId` is therefore any user's id or none until
then, and `PopSession` erases it, whoever it belongs to. `_player` is taken as
null, as the destructor hopes; for a wild pointer nothing could be stated.

Three history variables note what the properties have to name; they steer
nothing. `crossed`: the pairs of which one was leaving a sector while the other
was inside a handler. `strayed`: the sectors in whose sets `ReSet` left a
session, because PLAYERSYNC alone had moved it on. `robbed`: the sessions logged
in whose entry in the table the close of another session has erased.

Assumed of clients, and not checked by the server: the first packet is
PLAYERINIT and there is only one (otherwise `_player` is used unset, or a player
is made twice). What the code does with a deleted session that a set still holds
is undefined; here it is told like any other.

### RecvBuffer

A byte is known by its packet and its offset in it; the first carries
`_pktSize`. `Read` moves the data when `_writePos` would pass the limit, then
advances `_writePos` and looks for a whole packet; `Handle` is `OnRecv` and
`AddRecvPos`. `Arrive` is the completion of any number of bytes that fits.
`memcpy` of overlapping ranges is taken as it works on this platform, as a
move. Packet sizes are at least a header and at most the limit.

### MonsterViews

A player's handler is a sequence of stages as in `FieldSessions`, less what
players tell each other, and less PLAYERSYNC: a player's crossings are assumed to
be announced by MAPSYNC. `SendMonsterList` and `SendMonsterRemoveList` are two
steps: `Gather` copies the sector's set under its lock, `Deliver` sends what was
gathered. On the other side the main loop is one operation at a time: a monster
appears (`SpawnZone::Spawn`), walks into another sector, or vanishes
(`PushMonster`); `SetMonster` and `ResetMonster` are its locked steps and `Tell`
is one `_SpawnMonster` or `_UnSpawnMonster`, a broadcast to the sessions of one
sector under the lock. When and where monsters move is left open. `crossed`
notes the pairs of player and monster whose operations overlapped in one of the
ways `Crossing` lists; it is a history variable and steers nothing.

### PlayerCombat

One player, and every thread that can work on it. `_hp` and `_death` have no
lock, so in `Attacked`, `ReSpawn` and `LevelUp` each load and each store of them
is a step, with the register `reg[t]` in between (torn or reordered accesses are
not assumed: the fields are an aligned float and a bool, on x86). Hit points,
floats in the code, are whole numbers here. `ExpUp` and
`StatPointDown` hold `_cs` (`cs`); `UpStat` tests `_statPoint` before it takes
it. `full` is `_exp >= _expMax`: because `_exp` is never reduced, it stays true.
`spent` and `crossed` are histories; `crossed` starts anew with the
store of `_hp` in a ReSpawn. Levels are natural numbers up to a bound; the `int8` of
the code wraps after 127.

### FindPath

One turn of the search loop is a step: `Outdated`, `Arrive` and `Expand` are its
three ways out, `Exhausted` the empty heap. Which of several nodes with the
least f is on top is a choice. `WalkBack` puts one cell on the path and goes to
its parent (for a cell without one `operator[]` inserts the map's corner,
`Corner`), and turns the whole path round at the start; `Turn` makes the corners
as `TraceSearch` or `PatrolDestSearch` do and chooses, as they do, by the length
of the path whether the monster sets out; `Go` is the walk to one corner.
`kept` is what is in `_path` before: `PatrolDestSearch` does not clear it. Each
search is one behaviour, from every start, destination and terrain.

### SectorGrid, DBConnectionPool

`SectorGrid` evaluates `ConvertSectorIndex` and
`ConvertSectorIndexAdjacentIndex` from every cell of small maps that are whole
numbers of sectors. `DBConnectionPool` lets threads borrow a connection, run
their query on its one statement handle, and give it back; a new connection is
made when none is idle.

## 3. Runs

| run | question | instance | states |
| --- | --- | --- | --- |
| `tsqueue` | is the double buffer a FIFO channel? | 2 producers, 4 pushes, 2 events | 21 000 |
| `monster_field` | do pool, counters, sectors, targets and deaths agree? does the field implement `MonsterLife`? | 2 monsters, 2 zones with room for 3, 2 attackers, 2 hits under way, 2 sectors | 4 860 000 |
| `monster_live` | do dead monsters leave, hits count, zones fill up, unless the main thread is trapped? | 2 monsters, 2 zones, 1 attacker, timers of 2 rounds | 402 000 |
| `field_sessions` | are sector sets and views exact after every interleaving, also of moves nobody announced? | 2 sessions, a row of 3 sectors | 2 570 000 |
| `shared_login` | what does the table hold if two sessions use one id and others close before they have one? do closed sessions go, and is every completion served, with fewer threads than sessions? | 3 sessions of which two share an id, 1 thread, 2 packets a completion | 181 000 |
| `monster_views` | does a client know exactly the monsters in range? | 1 player, 2 monsters, a row of 3 sectors | 5 300 000 |
| `player_combat` | do hit points, death and stat points agree after unlocked accesses? | main loop, own thread and one attacker, 3 levels, damage -1 and 2 | 10 500 000 |
| `find_path` | is a way found, is it one, do the corners follow it, do the loops end, does the monster arrive? | 4 by 3 cells, every subset of the 6 middle ones closed, both kinds of search | 480 000 |
| `recv_buffer` | do packets come out as they went in, and does the buffer keep room? | 10 bytes, limit 8, packets of 2, 3 and 5 bytes, 5 of them | 232 000 |
| `sector_grid` | is everybody in sight told, and mutually? | square maps of 1 to 4 sectors a side | 120 |
| `sector_names` | do the offsets lead where the comment says? (violated) | square maps of 3 to 5 | - |
| `db_pool` | is no connection shared, lost or made in vain? | 4 threads, 2 connections | 2 400 |

Why the bounds are enough:

* `tsqueue`: two producers are what a lock has to keep apart, four pushes fill
  both buffers and let a producer come back between two swaps.
* `monster_field`: fewer monsters than the zones ask for, so that `PopMonster`
  also fails and the zones compete; zones of one and two monsters; hp 2 with
  damage 1, so that a monster survives a hit, and two hits under way, so that
  one can come after the death, in the pool, or in the next life; two attackers,
  so that the last to hit is not always the first or the one that killed (they
  are interchangeable, and the run's properties are safety, so symmetry is
  sound); 16 in place of 2^32, which no counter reaches unless it wraps. Its
  timers last one round; those of `monster_live` last two.
* `field_sessions`: three sectors in a row give neighbours, sectors out of range
  and moves that add and remove; the login at one end and the respawn at the
  other put players near and far. The two players are interchangeable and the
  run's properties are safety, so symmetry is sound. `MCBound` follows a history
  until a set has been left with one session too many: such sets only grow by
  further ones (with two the run has 13 million states and passes too).
* `shared_login`: one thread, three sessions: the port's queue fills up, and
  the third session, with an id of its own, is logged in between the two, loses
  its entry to one that closes without an id, or takes one from them. In one
  sector, since the table does not depend on sectors.
* `monster_views`: the player's client is told of each monster by itself and
  players tell each other nothing here, so one player is enough for a view; two
  monsters, so that the main loop can turn to another one while a list with the
  first is still to be sent; three sectors give in range, out of range, and
  moves that add and remove.
* `player_combat`: two attackers are what can overlap in `Attacked` (the main
  loop and another player), and the player can strike at the same time itself;
  damage above the hit points of the first levels and below 0, so that an
  attack kills, wounds or heals; two level-ups, so that points of one are spent
  during the other. `MinHp..MaxHp` holds every value one store below 0 gives
  and stops attacks that only heal.
* `find_path`: the middle columns give walls with and without a gap, bends, dead
  ends and destinations that cannot be reached; the longest way is shorter than
  `MaxPath`, so the bound cuts only the walk that never ends.
* `recv_buffer`: the real proportions, five chunks of which four lie below the
  limit, with chunks of 2 bytes; packets shorter and longer than a chunk, and
  a stream one and a half times as long as the buffer.
* `sector_grid`: one sector, two with every sector at an edge, and three and
  four, where the inside differs from the edge; in them the creature is put on
  every cell.

No property of a module is checked by two runs. `ManagerSound` and `Findable` are
left to `shared_login`, where ids are shared and they could fail, and
`SectorExact` to `field_sessions`, where there are sectors to move to; the types of `MonsterViews` and `PaidOnLeaving` of
`MonsterField` are left to TLAPS (`TypeSafe`, `PaymentIsExact`), the second
being also part of what `IsMonsterLife` says.

Deadlock is checked in the runs of TSQueue, MonsterField, MonsterViews,
SectorGrid and DBConnectionPool. The field-session runs may stop when every
session's receive was refused, the receive run when the client has sent its last
packet, the search when the monster has arrived, and the combat run at its
bounds.

### Fairness

The main loop runs for ever, and a dispatch thread inside a handler runs on: `WF`
of the main step, of each session's work, of a push that has begun. Two things
can stop them in the code. Where there is no way, `FindPath` does not return to the
main loop (MapManager.cpp:427): this is modelled, and `DeadLeave`, `HitsApplied` and
`ZoneRefills` name it (`Trapped`). And `send` can block under a sector's lock when
a client does not read (Sector.cpp:50): this is not modelled, so all liveness
properties of `MonsterField` and `FieldSessions` assume that no `send` blocks for
ever. The completion port hands out its completions in order:
`WF(Dispatch)`. Nothing is assumed of clients: no fairness on attacks,
connections, packets or farewells. In `RecvBuffer` the network delivers what
was sent. Spin-lock starvation is excluded only by the bounded number of
pushes, so `IsFifoChannel`'s liveness half is a statement about bounded bursts.
In `FindPath` the main loop does nothing else until the search has returned, and
updates the monster in every round after it: `WF(Next)`. `MonsterViews` and
`PlayerCombat` are about safety and assume no fairness.

### What the checks show that the code does not say

* *Views race.* A player that changes sectors is, between two locks, in no set,
  and tells the sectors it leaves only afterwards. Someone who enters at that
  moment misses it, and two players that leave each other's range at once both
  keep the other on their clients. `ViewsExact` is what does hold: views are
  exact unless a departure overlapped a handler of the other. (Sessions under
  one id are left out: `SendPlayerList` takes the other for oneself,
  Sector.cpp:96.)
* *Refused receive.* A session whose `WSARecv` fails at once stays in its
  sector and the table for ever (`lost`); `Rearmed` names this exception.
* *Shared and unset ids.* With two sessions under one id the table can lose the
  one that stays, and a connection that closes before it has logged in erases
  whatever id its memory holds, which can be anybody's. The table never keeps a
  deleted session (`ManagerSound`), and these two are the only ways in which a
  player in the field cannot be found (`Findable`, `robbed`).
* *Moves nobody announced.* Who has moved into another sector by PLAYERSYNC and
  then respawns or disconnects is taken out of the set of the new sector and stays
  in that of the old one, also when its session has been deleted; broadcasts to the
  old sector then use it. `SectorExact` says that this (`strayed`) is the only way
  for a session to be in a set too many, and that none is ever missing from the
  set of the sector it announced last.
* *Map edges.* `sector_names` is violated: the offsets of `_d` are added to a
  one-dimensional index, and at the left and right edge they lead to the far
  side of the next row, not to the direction named in MapManager.h:22. Nobody
  in sight is missed (`SightCovered`), clients are only told too much. This
  holds for square maps: the offsets step by `_zRange`, the index by `_xRange`.
* *Views of monsters race too.* If a player or the monster was changing sectors
  while the other was inside an operation, the client may keep a monster that is
  gone or miss one that is there; likewise if a monster vanished while the
  player's `ReSpawn` withdrew its view, or while a list with it was gathered and
  not yet sent. `ViewsExact` of `MonsterViews` is what holds besides these: a
  monster that appears or vanishes while a player enters is seen exactly, since
  both sides enter their set before they look or tell.
* *Hit points and death.* `LifeAgrees` says what unlocked accesses leave when
  nobody is at work: hit points are never negative; a player with none is dead
  unless an attack overlapped a `ReSpawn`; a dead player has none unless attacks
  overlapped, or one overlapped a level-up, or a level-up healed the dead.
  Each exception happens. A `ReSpawn` without overlap repairs all of them.
* *Every kill is a level.* `_exp` is never reduced, so after the first level-up
  `full` stays true and each later `ExpUp` is another level.
* *No way.* Where the destination cannot be reached the walk back goes from it
  to the map's corner and on from there for ever, on the main loop. `WalkArrives`
  names this case (`NoWay`), `SearchComplete` says that it is the only one. In
  `MonsterField` the main thread is then trapped: no monster moves, dies or
  appears any more, while dispatch threads go on pushing hits.
* *A path left over.* A trace that is given up leaves `_path`, and the next
  patrol search puts its own path before it: the patrol walks to its destination
  and then to what was left over. `RouteSound` and `Arrived` say so. The path is
  not the shortest (h counts 20 for a diagonal step that costs 14), it passes
  diagonally between closed cells, and since a corner is the first cell *after*
  a turn the straight walk to it may cut over a cell that is not on the path.
  `ConnersFollow` says how far this goes: between two corners the path is straight
  except for its last step, so only the cell before a corner is ever cut.
* *Who is paid.* Every hit of a batch overwrites `_target`, also those after the
  one that killed, and hits on the dead go on arriving until `UpdateDeath`. So
  the last to hit is paid, not the one who killed (`IsMonsterLife`). Hits that
  come even later wait in the queue, which nothing empties, and strike the
  monster's next life.
* *DEATH and ATTACKED.* A hit that reaches a dead monster turns its state back
  to ATTACKED; `DeadLeave` shows that this delays its end and cannot avoid it.

## 4. Proofs

TLAPS checks these for every value of the constants that satisfies the named
assumptions (any number of producers, monsters, zones and attackers, any
damage, timer and bound). `PROJECT.json` lists them under `theorems`.

*TSQueue_proofs.* `TypeSafe`, `LockExcludes`, `QueueLosesNothing`, and
`ImplementsFifo`, the refinement of the channel without its fairness. None is
inductive alone: a store writes what was loaded some steps before, so the
invariant also says that the thread in the critical section has loaded the
buffer as it still is, that it then holds the lock, and that the
drained buffer is empty whenever the main thread is not draining. From it each
step is a Put, a Take, or a stutter of the channel.

*MonsterField_proofs.* `TypeSafe`, `PoolIsExact`, `CountIsExact`,
`SectorIsExact`, `TargetIsHeld`, `DeathMeansNoHp`. The
invariant follows one monster through the main loop (what it may be before,
while and after its hits are drained), and every step is sorted into one of a
few kinds: a monster spawns, one dies, one changes within its life, or none
changes. Pool, sectors and counters then need one lemma each, over those kinds
instead of over the actions. The unsigned difference in `SpawnZone::Update`
never wraps because the living monsters of a zone together with those still to
be spawned stay below `_maxSpawnCnt`.

`DeathIsFinal` and `PaymentIsExact` are action properties: they follow step by
step from the same invariant, the second with the fact that a payment is noted
only until the main thread turns to the next zone or monster.

`ImplementsMonsterLife` is the refinement of `MonsterLife`, action by action. Of
the invariant it needs that the counter has room for every spawn still to come
(`CountExact`), that only a drain takes hit points below zero, that a monster in
state DEATH has none and has a target, and that one in the pool has no target.
What is hard is that nobody but a hit may change the target of the dead: searches
and `AttackCheck` overwrite it, and they run only for the living (`Keeps`). The
swap of the hit queue is invisible because the batch, then empty, comes first in
what is aimed at the monster.

*FieldSessions_proofs.* `TypeSafe`, `SectorIsExact`, `ManagerIsSound`,
`PlayersAreFound` and `ViewsAreExact`, for any number of sessions, threads, ids
and sectors. The invariant of the first four says for every stage of a handler
what is already true of its session: in which sector's set it stands, apart from
those in which it strayed, whether it has a player, whether the table knows it or
another under its id, or it was robbed. That two handlers of one session never
overlap is part of it: the port's queue holds a session at most once and only if
its receive has completed, so nobody tears a session down while another thread
is inside it. `ViewsAreExact` is about pairs with different ids; the other theorems
do not assume that ids differ. Nor do they assume that moves are announced or ids
set: `PlayersAreFound` holds for shared ids because an entry that is there when a
session is added belongs to one with the same id, and the close of that one is
noted in `robbed`.

`ViewsAreExact` needs a second invariant, about two players that have not
crossed and of which neither strayed (`ViewInv`). While both only arrive, who is known is in range, and who is
in range is known or still to be looked for: one of the two has a stop of its
tour left at the other's sector (`Arrival`). While one departs and the other
rests, each knows the other exactly if the stops left still show it
(`Departure`). That one of two arrivals finds the other follows
because each enters its own set before it looks. A tour stays on sectors in
range (`Tour`); here it matters that being in range is mutual, which
`MapAssumption` therefore says of `Adjacent`.

The last section shows that the code's map justifies this. It takes
`SectorGrid` in: on every map of whole sectors the offsets of
`ConvertSectorIndexAdjacentIndex` lead back and forth (`NearIsMutual`), and on
every square one the nine sectors of a cell contain all cells within a sector's
size of it (`SightIsCovered`). The second has the hypothesis that maps are
square, without which it does not hold: the offsets step by `_zRange`, the index
by `_xRange`. Both rest on `GridAssumption`, that a map is a whole number of
sectors (what happens to positions beyond the last whole sector is a hazard
without a property, MapManager.cpp:496), and on a lemma that says what a division
by the sector's size does to two cells that are close (`Touch`).

*MonsterViews_proofs.* `TypeSafe` and `ViewsAreExact`, for any number of
players, monsters and sectors. What a client will show is what it shows now,
changed by the list that was gathered and not yet delivered (`Will`); the
invariant is about that, because a list is only as old as its gathering. For
each way a player and a monster can be at work one conjunct of `Good` says what
the client will show. Where both only arrive, the argument is that of two
arriving players (`Arriving`). A player that moves away is shown the monsters of
the sectors it was near to and has not yet been withdrawn from (`PlayerWalks`),
a moving monster is shown to the players it has not yet been withdrawn from or
has been announced to (`MonsterWalks`). What a respawning player still shows,
and what is still shown of a vanishing monster, lies in sectors that the tour
has not yet reached (`Respawns`, `MonsterGoes`). Pairs noted in `crossed` are
exempt.

*RecvBuffer_proofs.* `TypeSafe`, `DataStaysInPlace`, `RoomIsLeft` and
`ImplementsFifo`, for any buffer length, limit below it, packet sizes up to the
limit and cutting of the stream. The invariant lays the packets out along the
stream and says that what has left the buffer ends at a packet boundary; hence
the first byte between `_readPos` and `_writePos` is a header and tells the
truth. That gives the room: when the data, moved down, still passes the limit,
it begins with a whole packet, so `Recv` handles packets before it posts.

*DBConnectionPool_proofs.* `NoneIsShared` and `PoolIsBounded`, for any number of
threads and connections. A connection is idle or held by one thread, and the
statement of a held one belongs to the holder. The bound counts: a connection
beyond those of `Init` is made only when the queue is empty, which is when every
connection is mapped one-to-one to a thread that holds it.

*PlayerCombat_proofs.* `TypeSafe`, `PointsAreExact` and `LifeAgreesAtRest`, for
any number of attackers, damages, levels and bounds. For the points, a balance
holds in every state: points there and spent, with the four a level-up still
owes, are what the levels gave and the one `UpStat` has counted but not taken;
what is stored under the lock was computed from what is still there (`RegExact`),
and the point that `UpStat` has seen without the lock is still there when it is
taken (`PointLeft`), because only the player's own thread takes points. For the
life, the invariant says who will still repair what is wrong: hit points below
zero have an attacker behind the store that will clamp them, zero hit points one
that will still judge, a death without overlaps was noted at zero.

*FindPath_proofs.* `TypeSafe`, `SearchIsComplete`, `RouteIsSound`, `WalkEndsRight`,
`ConnersDoFollow`, and `LoopsDoEnd`, `RouteIsSimple` and `PathIsShort` (below), for maps of every size and terrain on which no way can cost as
much as `INT32_MAX` (`WidthAssumption`: twenty a step across the map and
fourteen for each cell). Completeness needs that every visited cell either waits
in the heap with its best value or is the end or has been expanded, all its
neighbours being visited (`Frontier`); a node is then dropped only when a better
one for its cell is in the heap. It also needs that a new cell always improves
on `Infinite`: g is at most fourteen for each visited cell (`Short`). Soundness
needs that the parent of a visited cell is a visited neighbour (`Linked`) and
that the cells put on the path so far lead from the end to where the walk has
come (`Walking`); a lemma then turns the path round. For the types the corners
have to be cells of the path; the k-th corner is found by counting those before
it, so the lemma needed is that a finite set of numbers has a k-th (`Counted`).
`ConnersDoFollow` uses the same count: the cells between two consecutive corners
are not bends (`NoBend`), so the path runs straight up to the cell before the
second one (`BendsFollow`, `StraightFollows`). That there is a corner at all is a fact about
the search: the walk back ends when it comes to the start, so the first cell of
the path is not the start and is a bend (unless a trace began at its target, where
the monster attacks and does not set out).
`WalkEndsRight` is the half of `WalkArrives` that is not liveness: a walk that
ends after a way was found ends beside the target of a trace, and for a patrol
on the last cell of what is on the path. It follows the last corner through the
walk.

*Why the loops of FindPath end.* The main loop waits for both, and `LoopsDoEnd`
gives a measure for each, as an action property: a turn of the search improves
the f of a cell, which stays a natural number, and worsens none, or it takes a
node from the heap; a step of the walk back, if the end was found, goes to a cell
with a cheaper way (`WayCost`, f less h). The second is the hard one, since
`parent[]` is overwritten when a cell is improved that is the parent of others.
The invariant is `Downhill`: the parent of a visited cell has a cheaper way than
the cell. It is kept because an improvement only lowers the cost of the improved
cell, and it has to exempt the start, whose h is that of another formula and which
a neighbour may even improve; the walk back stops there. From `Downhill` the
ways of the cells on the path become cheaper one by one (`Falling`), so that no
cell is there twice (`RouteIsSimple`), and there are fewer of them than the map
has (`PathIsShort`): `MaxPath`, the bound of the instances, cuts no walk where
there is a way. That a measure which cannot fall for ever makes the loops end is
liveness, and remains `WalkArrives`.

Only model-checked: liveness, which needs fairness and ENABLED and so is beyond
this prover (`DeadLeave`, `HitsApplied` and `ZoneRefills` of `MonsterField`,
`ClosedLeaves` and `Rearmed` of `FieldSessions`, `AllHanded` of `RecvBuffer`,
`WalkArrives` of `FindPath` as far as a walk ends at all, the liveness half of
`IsFifoChannel`), and the violation of the offsets' names. Every invariant,
action property and refinement that a passing run checks is the subject of a
theorem, SectorGrid's `SightCovered` with square maps as its hypothesis, as in
the run, and TSQueue's `IsFifoChannel` without its fairness.

## 5. Not modelled, and the plan

Not modelled for good: packet layouts and what is merely sent, the database
behind the connections, the map file, sockets beneath the calls, the unused
classes. Data races of the standard containers (`UpdateIdle` copying a set
without the sector's lock, `SendMonsterList` reading `_conner` while the main
loop changes it) are undefined behaviour for which no property holds; they are
listed under `hazards`.

The `send` of a client that does not read blocks under the sector's lock
(Sector.cpp:50): socket buffers are outside the models, where a send takes no
time. The first use of `SessionManager::GetInstance` by two threads can make two
tables; whether a `_target` or the result of `GetSession` is still alive when it
is used depends on nothing the code enforces. What would have to hold there does
not, so these are listed as hazards and have no property.

Order of the work, the most important behaviour first: the hit queue, the
monster field and the sessions, the receive buffer, sector arithmetic and
connection pool; path finding, combat, what clients know of monsters (all done,
with the proofs of section 4). What is left:

1. `MonsterField` and `FieldSessions` composed: the session that a monster's
   `_target` belongs to may close.
2. The player's part of `MonsterViews` as a refinement of `FieldSessions`: both
   now state the same stages independently.
