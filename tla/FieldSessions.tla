--------------------------- MODULE FieldSessions ----------------------------
(***************************************************************************)
(* Sessions from accept to delete: the completion port (mallo/IOCPCore,    *)
(* Session, ServerService), GameSession, SessionManager, and the player    *)
(* half of MapManager and Sector.                                          *)
(*                                                                         *)
(* A session has one receive outstanding, so its packets are handled one   *)
(* after another; the handlers of different sessions run on the dispatch   *)
(* threads at once.  A handler is a series of stages, each one call on a   *)
(* Sector or on the SessionManager made under that object's lock.  A       *)
(* position counts only by its sector.  PLAYERSYNC moves _pos alone,       *)
(* MAPSYNC announces the move; a client may send either for any move.      *)
(* Clients are assumed to introduce themselves once and first (PLAYERINIT).*)
(* What the code does with a deleted session that a sector's set still     *)
(* holds is undefined; here it is told like any other.                     *)
(***************************************************************************)
EXTENDS Integers, Sequences, FiniteSets

CONSTANTS
    Sessions,   \* GameSession objects; freed memory is used again
    Users,      \* user ids
    UserOf,     \* the id each session introduces itself with
    None,
    Sectors,
    Adjacent,   \* ConvertSectorIndexAdjacentIndex, as a set
    Home,       \* sectors the database can put a player in
    SpawnSector, \* sector of {6,0,125}, where ReSpawn puts a player
    Workers,    \* number of dispatch threads
    MaxBurst    \* bound: packets in one completion

ASSUME UserAssumption == UserOf \in [Sessions -> Users]
ASSUME NobodyAssumption == None \notin Sessions
ASSUME MapAssumption ==
    /\ Adjacent \in [Sectors -> SUBSET Sectors]
    /\ \A c, d \in Sectors : c \in Adjacent[d] <=> d \in Adjacent[c]
    /\ Home \subseteq Sectors /\ SpawnSector \in Sectors
ASSUME BoundAssumption == Workers \in Nat \ {0} /\ MaxBurst \in Nat

VARIABLES
    at,         \* the stage each session is in
    burst,      \* packets left in the completion being handled
    left,       \* sectors the current stage still has to tell
    completions,\* the completion port's queue
    player,     \* whether _player is set
    pos, prevPos,  \* sectors of Player::_pos and _prevPos
    inSector,   \* Sector::_sessions
    manager,    \* SessionManager::_sessions
    sees,       \* the players each client has been told of
    crossed,    \* history: pairs, one leaving in a handler of the other
    strayed,    \* history: sectors whose set ReSet left a session in
    robbed      \* history: logged in, and another's close erased their id

sets == <<inSector, strayed>>
table == <<manager, robbed>>
life == <<burst, completions, player, table>>
vars == <<at, burst, left, completions, player, pos, prevPos, inSector,
          manager, sees, crossed, strayed, robbed>>

Resting == {"none", "armed", "gotData", "gotClose", "lost", "reading"}
Idle == Resting \ {"reading"}
Telling == {"enterTell", "moveIn"}
Retracting == {"moveOut", "respawnOut", "leaveOut"}
Resetting == {"moveReset", "respawnReset", "leaveReset"}
Setting == {"enterSet", "moveSet"}
Stages == Resting \cup Telling \cup Retracting \cup Resetting \cup Setting
             \cup {"add", "settle", "pop", "free"}

\* A session with a player is unlisted before AddSession and after PopSession.
Unlisted == {"add", "leaveReset", "leaveOut", "free"}

\* The stage that follows each stage of a handler.
ThenTellFirst ==
    [add |-> "enterTell", enterTell |-> "enterSet", enterSet |-> "reading",
     moveReset |-> "moveSet", moveSet |-> "moveOut", moveOut |-> "moveIn",
     moveIn |-> "settle", settle |-> "reading",
     respawnReset |-> "respawnOut", respawnOut |-> "enterTell",
     leaveReset |-> "leaveOut", leaveOut |-> "free"]
Then ==
    [add |-> "enterSet", enterSet |-> "enterTell", enterTell |-> "reading",
     moveReset |-> "moveSet", moveSet |-> "moveOut", moveOut |-> "moveIn",
     moveIn |-> "settle", settle |-> "reading",
     respawnReset |-> "respawnOut", respawnOut |-> "enterSet",
     leaveReset |-> "leaveOut", leaveOut |-> "free"]

\* The sectors told in a stage: those that come into or go out of range.
Gone(s) == Adjacent[prevPos[s]] \ Adjacent[pos[s]]
Come(s) == Adjacent[pos[s]] \ Adjacent[prevPos[s]]

ToTell(s, stage) ==
    CASE stage = "moveOut" -> Gone(s)
      [] stage = "moveIn" -> Come(s)
      [] stage \in {"enterTell", "respawnOut", "leaveOut"} -> Adjacent[pos[s]]
      [] OTHER -> {}

Goto(s, stage) ==
    /\ at' = [at EXCEPT ![s] = stage]
    /\ left' = [left EXCEPT ![s] = ToTell(s, stage)]

Advance(s) == Goto(s, Then[at[s]])

Busy == {s \in Sessions : at[s] \notin Idle}

\* Stages in which a session is about to leave a sector, is in none, or has
\* not told everybody; and the pairs for which that coincides with a handler.
Departing == Resetting \cup Retracting \cup {"moveSet"}
NoteCrossing(s) ==
    crossed' = crossed \cup
        {{s, o} : o \in {p \in Sessions \ {s} :
                           /\ at[p] \notin Resting
                           /\ at[s] \in Departing \/ at[p] \in Departing}}

Init ==
    /\ at = [s \in Sessions |-> "none"]
    /\ burst = [s \in Sessions |-> 0]
    /\ left = [s \in Sessions |-> {}]
    /\ completions = << >>
    /\ player = [s \in Sessions |-> FALSE]
    /\ pos = [s \in Sessions |-> SpawnSector]
    /\ prevPos = [s \in Sessions |-> SpawnSector]
    /\ inSector = [c \in Sectors |-> {}]
    /\ manager = [u \in Users |-> None]
    /\ sees = [s \in Sessions |-> {}]
    /\ crossed = {} /\ strayed = {} /\ robbed = {}

-----------------------------------------------------------------------------
(* The accept thread, the completion port and the receive loop.            *)

\* WSARecv: posted, or refused at once, which is printed and forgotten.
Post(s) == \E stage \in {"armed", "lost"} : Goto(s, stage)

Accept(s) ==
    /\ at[s] = "none"
    /\ Post(s)
    /\ UNCHANGED <<life, pos, prevPos, sets, sees, crossed>>

\* The receive completes with whole packets, with a fragment, or with 0 bytes.
Complete(s) ==
    /\ at[s] = "armed"
    /\ \/ /\ Goto(s, "gotData")
          /\ \E n \in 0..MaxBurst : burst' = [burst EXCEPT ![s] = n]
       \/ Goto(s, "gotClose") /\ UNCHANGED burst
    /\ completions' = Append(completions, s)
    /\ UNCHANGED <<player, pos, prevPos, sets, table, sees,
                   crossed>>

\* 0 bytes, or an error, mean that the client is gone.
HandledByRecv(s) == "reading"
HandledBy(s) == IF at[s] = "gotClose" THEN "pop" ELSE "reading"

Dispatch ==
    /\ completions # << >>
    /\ Cardinality(Busy) < Workers
    /\ Goto(Head(completions), HandledBy(Head(completions)))
    /\ completions' = Tail(completions)
    /\ UNCHANGED <<burst, player, pos, prevPos, sets, table, sees,
                   crossed>>

Rearm(s) ==
    /\ at[s] = "reading" /\ burst[s] = 0
    /\ Post(s)
    /\ UNCHANGED <<life, pos, prevPos, sets, sees, crossed>>

-----------------------------------------------------------------------------
(* The next packet of the completion: HandlePacket.                        *)

TakeUnchecked(s) ==
    /\ at[s] = "reading"
    /\ burst' = [burst EXCEPT ![s] = @ - 1]
Take(s) ==
    /\ at[s] = "reading" /\ burst[s] > 0
    /\ burst' = [burst EXCEPT ![s] = @ - 1]

\* WelcomeInitPacket makes the player at the place the database has for it.
InitStartNoAdd(s) == Goto(s, "enterSet")
InitStart(s) == Goto(s, "add")

PlayerInit(s, c) ==
    /\ Take(s) /\ ~ player[s]
    /\ player' = [player EXCEPT ![s] = TRUE]
    /\ pos' = [pos EXCEPT ![s] = c] /\ prevPos' = [prevPos EXCEPT ![s] = c]
    /\ InitStart(s)
    /\ UNCHANGED <<completions, sets, table, sees,
                   crossed>>

\* PlayerSync, then MapSync, which returns at once within the sector.
MapSync(s, c) ==
    /\ Take(s) /\ player[s]
    /\ pos' = [pos EXCEPT ![s] = c]
    /\ Goto(s, IF c = prevPos[s] THEN "settle" ELSE "moveReset")
    /\ UNCHANGED <<completions, player, prevPos, sets, table, sees,
                   crossed>>

ReSpawn(s) ==
    /\ Take(s) /\ player[s]
    /\ Goto(s, "respawnReset")
    /\ UNCHANGED <<completions, player, pos, prevPos, sets, table, sees,
                   crossed>>

\* PlayerSync moves the player, and nobody is told who comes into range.
PlayerSync(s, c) ==
    /\ Take(s) /\ player[s]
    /\ pos' = [pos EXCEPT ![s] = c]
    /\ UNCHANGED <<at, left, completions, player, prevPos, sets, table, sees,
                   crossed>>

\* Every other packet.
OtherPacket(s) ==
    /\ Take(s) /\ player[s]
    /\ UNCHANGED <<at, left, completions, player, pos, prevPos, sets,
                   table, sees, crossed>>

-----------------------------------------------------------------------------
(* The stages of the handlers.                                             *)

\* insert() keeps the entry that is there.
AddSession(s) ==
    /\ at[s] = "add"
    /\ manager' = [manager EXCEPT ![UserOf[s]] = IF @ = None THEN s ELSE @]
    /\ Advance(s) /\ NoteCrossing(s)
    /\ UNCHANGED <<burst, completions, player, pos, prevPos, sets, sees,
                   robbed>>

SetSector(s) ==
    /\ at[s] \in Setting
    /\ inSector' = [inSector EXCEPT ![pos[s]] = @ \cup {s}]
    /\ Advance(s) /\ NoteCrossing(s)
    /\ UNCHANGED <<life, pos, prevPos, sees, strayed>>

\* MapSync leaves the sector of _prevPos, ReSet that of _pos: who has moved on
\* by PLAYERSYNC stays in the set of the former.
LeftSectorByPos(s) == pos[s]
LeftSector(s) == IF at[s] = "moveReset" THEN prevPos[s] ELSE pos[s]

ResetSector(s) ==
    /\ at[s] \in Resetting
    /\ inSector' = [inSector EXCEPT ![LeftSector(s)] = @ \ {s}]
    /\ strayed' = IF at[s] = "moveReset" \/ pos[s] = prevPos[s] THEN strayed
                  ELSE strayed \cup {<<s, prevPos[s]>>}
    /\ Advance(s) /\ NoteCrossing(s)
    /\ UNCHANGED <<life, pos, prevPos, sees>>

\* The tour of the sectors is made in index order; here it may be any order.
ToldNone(s, c) == UNCHANGED left
Told(s, c) == left' = [left EXCEPT ![s] = @ \ {c}]

\* The players of a sector but s, told apart by their session ids.
Others(s, c) == {o \in inSector[c] : UserOf[o] # UserOf[s]}

\* SendPlayerList: s is told of the players of sector c and they of s.
TellNew(s, c) ==
    /\ at[s] \in Telling /\ c \in left[s]
    /\ sees' = [o \in Sessions |->
                  IF o = s THEN sees[s] \cup inSector[c]
                  ELSE IF o \in Others(s, c) THEN sees[o] \cup {s}
                  ELSE sees[o]]
    /\ Told(s, c)
    /\ NoteCrossing(s)
    /\ UNCHANGED <<at, life, pos, prevPos, sets>>

\* SendPlayerRemoveList.
TellOut(s, c) ==
    /\ at[s] \in Retracting /\ c \in left[s]
    /\ sees' = [o \in Sessions |->
                  IF o = s THEN sees[s] \ inSector[c]
                  ELSE IF o \in Others(s, c) THEN sees[o] \ {s}
                  ELSE sees[o]]
    /\ Told(s, c)
    /\ NoteCrossing(s)
    /\ UNCHANGED <<at, life, pos, prevPos, sets>>

\* Everybody is told; after ReSet, ReSpawn moves the player.
TellDone(s) ==
    /\ at[s] \in Telling \cup Retracting /\ left[s] = {}
    /\ LET there == IF at[s] = "respawnOut" THEN SpawnSector ELSE pos[s]
           back == IF at[s] = "respawnOut" THEN SpawnSector ELSE prevPos[s]
       IN /\ pos' = [pos EXCEPT ![s] = there]
          /\ prevPos' = [prevPos EXCEPT ![s] = back]
    /\ Advance(s) /\ NoteCrossing(s)
    /\ UNCHANGED <<life, sets, sees>>

\* SetPrevPos, after MapSync.
Settle(s) ==
    /\ at[s] = "settle"
    /\ prevPos' = [prevPos EXCEPT ![s] = pos[s]]
    /\ Advance(s) /\ NoteCrossing(s)
    /\ UNCHANGED <<life, pos, sets, sees>>

\* OnDisconnect erases the session's id.  Before PLAYERINIT neither _player nor
\* _sessionId is set: the first is taken to be null, as ~GameSession hopes, and
\* the second may be the id of any user, or of none.
SessionId(s) == IF player[s] THEN {UserOf[s]} ELSE Users \cup {None}

ErasedNothing(u) == manager
Erased(u) == [v \in Users |-> IF v = u THEN None ELSE manager[v]]

PopSession(s) ==
    /\ at[s] = "pop"
    /\ \E u \in SessionId(s) :
        /\ manager' = Erased(u)
        /\ robbed' = robbed \cup
              {o \in Sessions \ {s} :
                 UserOf[o] = u /\ player[o] /\ at[o] \notin Unlisted}
    /\ Goto(s, IF player[s] THEN "leaveReset" ELSE "free")
    /\ NoteCrossing(s)
    /\ UNCHANGED <<burst, completions, player, pos, prevPos, sets, sees>>

\* The end of delete: the object is gone, and its memory may be used again.
Free(s) ==
    /\ at[s] = "free"
    /\ Goto(s, "none") /\ NoteCrossing(s)
    /\ player' = [player EXCEPT ![s] = FALSE]
    /\ sees' = [sees EXCEPT ![s] = {}]
    /\ pos' = [pos EXCEPT ![s] = SpawnSector]
    /\ prevPos' = [prevPos EXCEPT ![s] = SpawnSector]
    /\ robbed' = robbed \ {s}
    /\ UNCHANGED <<burst, completions, sets, manager>>

-----------------------------------------------------------------------------
Packet(s) == \/ (\E c \in Home : PlayerInit(s, c))
             \/ (\E c \in Sectors : MapSync(s, c) \/ PlayerSync(s, c))
             \/ ReSpawn(s) \/ OtherPacket(s)

Stage(s) == \/ AddSession(s) \/ SetSector(s) \/ ResetSector(s)
            \/ (\E c \in Sectors : TellNew(s, c) \/ TellOut(s, c))
            \/ TellDone(s) \/ Settle(s) \/ PopSession(s) \/ Free(s)

Work(s) == Packet(s) \/ Rearm(s) \/ Stage(s)

Next == Dispatch \/ \E s \in Sessions : Accept(s) \/ Complete(s) \/ Work(s)

\* The port hands out completions in their order, and a dispatch thread in a
\* handler runs on; that a client connects, sends or closes is not assumed.
Fairness == WF_vars(Dispatch) /\ \A s \in Sessions : WF_vars(Work(s))

Spec == Init /\ [][Next]_vars /\ Fairness

-----------------------------------------------------------------------------
(* Properties.                                                             *)

TypeOK ==
    /\ at \in [Sessions -> Stages]
    /\ burst \in [Sessions -> 0..MaxBurst]
    /\ left \in [Sessions -> SUBSET Sectors]
    /\ completions \in Seq(Sessions)
    /\ player \in [Sessions -> BOOLEAN]
    /\ pos \in [Sessions -> Sectors] /\ prevPos \in [Sessions -> Sectors]
    /\ inSector \in [Sectors -> SUBSET Sessions]
    /\ manager \in [Users -> Sessions \cup {None}]
    /\ sees \in [Sessions -> SUBSET Sessions]
    /\ strayed \subseteq Sessions \X Sectors /\ robbed \subseteq Sessions

\* Sector::BroadCast and SendPlayerList use every session of the set: between
\* handlers a session with a player is in the set of the sector it announced
\* last.  It is in another set, or is in one when it has no player or is
\* deleted, only if ReSet left it there: it left or came back to life in a
\* sector to which PLAYERSYNC alone had moved it.
SectorExact ==
    \A s \in Sessions : at[s] \in Resting \cup {"free"} =>
        LET Announced(c) == player[s] /\ prevPos[s] = c /\ at[s] # "free" IN
        \A c \in Sectors :
            /\ Announced(c) => s \in inSector[c]
            /\ s \in inSector[c] => Announced(c) \/ <<s, c>> \in strayed

\* GetSession and SessionManager::BroadCast never reach a deleted session or
\* one that has no player yet, also when two sessions use one id.
ManagerSound ==
    \A u \in Users : manager[u] # None =>
        /\ UserOf[manager[u]] = u /\ player[manager[u]]
        /\ at[manager[u]] \notin Unlisted \cup {"none"}

\* Under the id of a player at rest GetSession finds its session or one that
\* shares the id, however logins and closes with that id interleave, unless
\* another session's close erased the entry during its stay: the close of one
\* with the id, or of one that never logged in and whose unset id it was.
Findable ==
    \A s \in Sessions :
        player[s] /\ at[s] \in Resting /\ s \notin robbed =>
            \E o \in Sessions : UserOf[o] = UserOf[s] /\ manager[UserOf[s]] = o

Near(a, b) == player[a] /\ player[b] /\ prevPos[b] \in Adjacent[prevPos[a]]
Settled(a, b) ==
    UserOf[a] # UserOf[b] /\ at[a] \in Resting /\ at[b] \in Resting

Strayed(s) == \E c \in Sectors : <<s, c>> \in strayed

\* Two players at rest, with ids of their own, know of each other exactly when
\* the sectors they announced last are in range, however the entries and
\* arrivals of all of them interleave, unless one left a sector during a
\* handler of the other, or ReSet left one in a set: each enters its own
\* sector before it looks into the others, so that of two who come at once
\* one finds the other.
ViewsExact ==
    \A a, b \in Sessions :
        Settled(a, b) /\ {a, b} \notin crossed /\ ~ Strayed(a) /\ ~ Strayed(b)
            => (b \in sees[a] <=> Near(a, b))

\* A closed connection is cleaned up: its session is told of, taken out of
\* its sector and the manager, and deleted.
ClosedLeaves == \A s \in Sessions : at[s] = "gotClose" ~> at[s] = "none"

\* A received packet is handled and the session listens again, unless the
\* new receive is refused.
Rearmed == \A s \in Sessions : at[s] = "gotData" ~> at[s] \in {"armed", "lost"}
=============================================================================
