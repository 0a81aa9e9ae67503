---------------------------- MODULE MonsterLife ----------------------------
(***************************************************************************)
(* What zones, pool and monsters promise together: the monster that has    *)
(* waited longest comes out whole, the blows aimed at it count once each   *)
(* and in their order, and when it goes back whoever struck it last is     *)
(* paid, once.  A blow that comes too late waits for the next life.        *)
(***************************************************************************)
EXTENDS Integers, Sequences, FiniteSets

CONSTANTS
    Monsters, Zones, Players, None,
    MaxSpawn,   \* monsters each zone has room for
    MaxHp, Damages

Blows == [from : Players, damage : Damages]

VARIABLES
    waiting,    \* monsters in the pool, the one that has waited longest first
    home,       \* the zone each monster is in, or was in last
    hp,         \* its hit points, not below 0
    blows,      \* what is aimed at it and has not struck yet
    foe,        \* who has struck it last, once it has no hit points
    paid        \* who has just been paid for a monster, or None

vars == <<waiting, home, hp, blows, foe, paid>>

Out(m) == \A i \in 1..Len(waiting) : waiting[i] # m
Population(z) == {m \in Monsters : Out(m) /\ home[m] = z}

Init ==
    /\ Len(waiting) = Cardinality(Monsters)
    /\ \A m \in Monsters : ~ Out(m)
    /\ home \in [Monsters -> Zones]
    /\ hp = [m \in Monsters |-> MaxHp]
    /\ blows = [m \in Monsters |-> << >>]
    /\ foe = [m \in Monsters |-> None]
    /\ paid = None

Spawn(z) ==
    /\ waiting # << >> /\ Cardinality(Population(z)) < MaxSpawn[z]
    /\ home' = [home EXCEPT ![Head(waiting)] = z]
    /\ hp' = [hp EXCEPT ![Head(waiting)] = MaxHp]
    /\ waiting' = Tail(waiting)
    /\ UNCHANGED <<blows, foe, paid>>

Aim(m, b) ==
    /\ blows' = [blows EXCEPT ![m] = Append(@, b)]
    /\ UNCHANGED <<waiting, home, hp, foe, paid>>

Reduced(n, d) == IF n <= d THEN 0 ELSE n - d

\* Blows do not stop at the one that kills.
Strike(m) ==
    /\ Out(m) /\ blows[m] # << >>
    /\ LET b == Head(blows[m]) IN
        /\ hp' = [hp EXCEPT ![m] = Reduced(@, b.damage)]
        /\ foe' = [foe EXCEPT ![m] = IF hp'[m] = 0 THEN b.from ELSE @]
    /\ blows' = [blows EXCEPT ![m] = Tail(@)]
    /\ UNCHANGED <<waiting, home, paid>>

Bury(m) ==
    /\ Out(m) /\ hp[m] = 0 /\ paid = None
    /\ foe[m] # None /\ paid' = foe[m]
    /\ foe' = [foe EXCEPT ![m] = None]
    /\ waiting' = Append(waiting, m)
    /\ UNCHANGED <<home, hp, blows>>

\* The payment is over.
Settle ==
    /\ paid # None /\ paid' = None
    /\ UNCHANGED <<waiting, home, hp, blows, foe>>

Next ==
    \/ Settle
    \/ \E z \in Zones : Spawn(z)
    \/ \E m \in Monsters : Strike(m) \/ Bury(m) \/ \E b \in Blows : Aim(m, b)

Spec == Init /\ [][Next]_vars
=============================================================================
