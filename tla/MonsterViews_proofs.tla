------------------------- MODULE MonsterViews_proofs -------------------------
(***************************************************************************)
(* For any number of players, monsters and sectors: between handlers, each *)
(* client knows of the monsters in range and of no others.                 *)
(***************************************************************************)
EXTENDS MonsterViews, TLAPS

Busy == {"enterSet", "moveReset", "moveSet", "respawnReset", "leaveReset"}
          \cup Telling \cup Retracting

\* The order of the stages, one by one.
LEMMA Order ==
    /\ Then["enterSet"] = "enterTell" /\ Then["enterTell"] = "in"
    /\ Then["moveReset"] = "moveSet" /\ Then["moveSet"] = "moveOut"
    /\ Then["moveOut"] = "moveIn" /\ Then["moveIn"] = "in"
    /\ Then["respawnReset"] = "respawnOut" /\ Then["respawnOut"] = "enterSet"
    /\ Then["leaveReset"] = "leaveOut" /\ Then["leaveOut"] = "none"
BY DEF Then

LEMMA MainOrder ==
    /\ After["appearSet"] = "appearTell" /\ After["appearTell"] = "rest"
    /\ After["moveReset"] = "moveSet" /\ After["moveSet"] = "moveOut"
    /\ After["moveOut"] = "moveIn" /\ After["moveIn"] = "rest"
    /\ After["vanishReset"] = "vanishTell" /\ After["vanishTell"] = "rest"
BY DEF After

\* A monster the main loop is at has a sector, and one it moves comes from one.
Out ==
    /\ op # "rest" => where[who] # None
    /\ op \in Moving => from[who] # None

LEMMA TouredTyped ==
    ASSUME NEW a \in Sectors, NEW b \in Sectors \cup {None}, NEW stage,
           stage \in {"moveOut", "moveIn"} => b \in Sectors
    PROVE  Toured(stage, a, b) \subseteq Sectors
<1>1. Adjacent[a] \subseteq Sectors
  BY MapAssumption
<1>2. stage \in {"moveOut", "moveIn"} => Adjacent[b] \subseteq Sectors
  BY MapAssumption
<1> QED
  BY <1>1, <1>2 DEF Toured

-----------------------------------------------------------------------------
(* Types.                                                                  *)

LEMMA HandlerTyped ==
    ASSUME TypeOK, NEW p \in Players, Handler(p)
    PROVE  /\ at' \in [Players -> Stages] /\ left' \in [Players -> SUBSET Sectors]
           /\ letter' \in [Players -> [stage : Stages, of : SUBSET Monsters]]
           /\ pos' \in [Players -> Sectors] /\ prevPos' \in [Players -> Sectors]
           /\ sessions' \in [Sectors -> SUBSET Players]
           /\ sees' \in [Players -> SUBSET Monsters]
           /\ crossed' \subseteq Players \X Monsters
           /\ UNCHANGED main
<1> USE DEF Stages, Telling, Retracting
<1>1. ASSUME NEW stage PROVE Toured(stage, pos[p], prevPos[p]) \subseteq Sectors
  BY TouredTyped DEF TypeOK
<1>2. ASSUME NEW stage \in Stages, Goto(p, stage)
      PROVE  at' \in [Players -> Stages] /\ left' \in [Players -> SUBSET Sectors]
  BY <1>1, <1>2 DEF Goto, TypeOK
<1>3. NoteCrossing => crossed' \subseteq Players \X Monsters
  BY DEF NoteCrossing, TypeOK
<1>4. ASSUME NEW c \in Sectors, NEW stage \in Stages, Begin(p, c, stage)
      PROVE  /\ pos' \in [Players -> Sectors] /\ at' \in [Players -> Stages]
             /\ crossed' \subseteq Players \X Monsters
             /\ UNCHANGED <<left, letter, sessions, main, sees>>
  BY <1>3, <1>4 DEF Begin, TypeOK
<1>5. ASSUME NEW c \in Sectors, Enter(p, c) \/ Move(p, c)
      PROVE  /\ pos' \in [Players -> Sectors] /\ at' \in [Players -> Stages]
             /\ prevPos' \in [Players -> Sectors]
             /\ crossed' \subseteq Players \X Monsters
             /\ UNCHANGED <<left, letter, sessions, main, sees>>
  BY <1>4, <1>5 DEF Enter, Move, TypeOK
<1>6. CASE ReSpawn(p) \/ Leave(p)
  <2>1. pos[p] \in Sectors
    BY DEF TypeOK
  <2>2. /\ pos' \in [Players -> Sectors] /\ at' \in [Players -> Stages]
        /\ crossed' \subseteq Players \X Monsters
        /\ UNCHANGED <<left, letter, sessions, main, sees, prevPos>>
    BY <1>4, <1>6, <2>1 DEF ReSpawn, Leave
  <2> QED
    BY <2>2 DEF TypeOK
<1>7. CASE SetPlayer(p) \/ ResetPlayer(p)
  <2>1. at[p] \in {"enterSet", "moveSet", "moveReset", "respawnReset", "leaveReset"}
        /\ Goto(p, Then[at[p]])
    BY <1>7 DEF SetPlayer, ResetPlayer
  <2>2. Then[at[p]] \in Stages
    BY <2>1, Order
  <2>3. sessions' \in [Sectors -> SUBSET Players]
    BY <1>7 DEF SetPlayer, ResetPlayer, TypeOK
  <2> QED
    BY <1>2, <1>3, <1>7, <2>1, <2>2, <2>3 DEF SetPlayer, ResetPlayer, TypeOK
<1>8. ASSUME NEW c \in Sectors, Gather(p, c)
      PROVE  /\ left' \in [Players -> SUBSET Sectors]
             /\ letter' \in [Players -> [stage : Stages, of : SUBSET Monsters]]
  BY <1>8 DEF Gather, TypeOK
<1>9. CASE Deliver(p)
  <2>1. letter[p].of \subseteq Monsters
    BY DEF TypeOK
  <2>2. sees' \in [Players -> SUBSET Monsters]
    BY <1>9, <2>1 DEF Deliver, TypeOK
  <2>3. NoLetter \in [stage : Stages, of : SUBSET Monsters]
    BY DEF NoLetter
  <2> QED
    BY <1>3, <1>9, <2>2, <2>3 DEF Deliver, TypeOK
<1>10. CASE TourDone(p)
  <2>1. Then[at[p]] \in Stages /\ Goto(p, Then[at[p]])
    BY <1>10, Order DEF TourDone
  <2>2. pos' \in [Players -> Sectors] /\ prevPos' \in [Players -> Sectors]
    BY <1>10, MapAssumption DEF TourDone, TypeOK
  <2>3. sees' \in [Players -> SUBSET Monsters] /\ crossed' \subseteq Players \X Monsters
    BY <1>3, <1>10 DEF TourDone, TypeOK
  <2> QED
    BY <1>2, <1>10, <2>1, <2>2, <2>3 DEF TourDone, TypeOK
<1> QED
  BY <1>3, <1>5, <1>6, <1>7, <1>8, <1>9, <1>10 DEF Handler, Gather, TypeOK

LEMMA LoopTyped ==
    ASSUME TypeOK, Out, Loop
    PROVE  TypeOK' /\ Out'
<1> USE NobodyAssumption DEF Ops, Moving
<1>1. NoteCrossing => crossed' \subseteq Players \X Monsters
  BY DEF NoteCrossing, TypeOK
<1>2. op = "rest" => who = None
  BY DEF TypeOK
<1>3. op # "rest" => who \in Monsters /\ where[who] \in Sectors
  BY DEF TypeOK, Out
<1>4. ASSUME NEW m \in Monsters, NEW stage \in {"appearSet", "moveReset", "vanishReset"},
             Start(m, stage),
             where' \in [Monsters -> Sectors \cup {None}],
             from' \in [Monsters -> Sectors \cup {None}],
             where'[m] # None, stage = "moveReset" => from'[m] # None
      PROVE  TypeOK' /\ Out'
  <2>1. op' = stage /\ who' = m /\ NoteCrossing /\ UNCHANGED <<player, tell, monsters, sees>>
    BY <1>4 DEF Start
  <2>2. op' \in Ops /\ op' # "rest" /\ who' \in Monsters /\ who' # None
    BY <1>4, <2>1
  <2>3. Out'
    BY <1>4, <2>1 DEF Out
  <2> QED
    BY <1>1, <1>4, <2>1, <2>2, <2>3 DEF player, TypeOK
<1>5. ASSUME NEW m \in Monsters, NEW c \in Sectors, Appear(m, c) \/ Walk(m, c)
      PROVE  TypeOK' /\ Out'
  <2>1. /\ where' \in [Monsters -> Sectors \cup {None}]
        /\ from' \in [Monsters -> Sectors \cup {None}]
        /\ where'[m] = c /\ from'[m] # None
    <3>1. /\ where \in [Monsters -> Sectors \cup {None}]
          /\ from \in [Monsters -> Sectors \cup {None}]
      BY DEF TypeOK
    <3>2. CASE Appear(m, c)
      BY <1>5, <3>1, <3>2 DEF Appear
    <3>3. CASE Walk(m, c)
      BY <1>5, <3>1, <3>3 DEF Walk
    <3> QED
      BY <1>5, <3>2, <3>3
  <2> QED
    BY <1>4, <1>5, <2>1 DEF Appear, Walk
<1>6. ASSUME NEW m \in Monsters, Vanish(m) PROVE TypeOK' /\ Out'
  BY <1>4, <1>6 DEF Vanish, TypeOK
<1>7. ASSUME op \in Ops \ {"rest"}, Proceed(After[op])
      PROVE  /\ op' \in Ops /\ tell' \subseteq Sectors
             /\ op' \in Moving => from[who] # None
  <2>1. After[op] \in Ops /\ (After[op] \in Moving => op \in Moving)
    BY <1>7, MainOrder
  <2>2. After[op] \in {"moveOut", "moveIn"} => from[who] \in Sectors
    BY <1>3, <1>7, <2>1 DEF Out, TypeOK
  <2>3. from[who] \in Sectors \cup {None} /\ where[who] \in Sectors
    BY <1>3, <1>7 DEF TypeOK
  <2>4. Toured(After[op], where[who], from[who]) \subseteq Sectors
    BY <2>2, <2>3, TouredTyped
  <2> QED
    BY <1>7, <2>1, <2>4 DEF Proceed, Out
<1>8. CASE SetMonster \/ ResetMonster
  <2>1. op \in {"appearSet", "moveSet", "moveReset", "vanishReset"} /\ Proceed(After[op])
    BY <1>8 DEF SetMonster, ResetMonster
  <2>2. op' # "rest"
    BY <2>1, MainOrder DEF Proceed
  <2>3. monsters' \in [Sectors -> SUBSET Monsters]
    BY <1>3, <1>8, <2>1 DEF SetMonster, ResetMonster, TypeOK
  <2>4. UNCHANGED <<player, who, where, from, sees>> /\ NoteCrossing
    BY <1>8 DEF SetMonster, ResetMonster
  <2> QED
    BY <1>1, <1>7, <2>1, <2>2, <2>3, <2>4 DEF player, TypeOK, Out
<1>9. ASSUME NEW c \in Sectors, Tell(c) PROVE TypeOK' /\ Out'
  <2>1. who \in Monsters \cup {None}
    BY DEF TypeOK
  <2>2. op # "rest" => who \in Monsters
    BY <1>3
  <2>3. ASSUME NEW p \in Players PROVE sees'[p] \subseteq Monsters
    BY <1>9, <2>2 DEF Tell, TypeOK
  <2>4. sees' \in [Players -> SUBSET Monsters]
    BY <1>9, <2>3 DEF Tell
  <2> QED
    BY <1>1, <1>9, <2>4 DEF Tell, player, TypeOK, Out
<1>10. CASE Told
  <2>1. op \in {"appearTell", "moveOut", "moveIn", "vanishTell"} /\ Proceed(After[op])
        /\ op' = After[op] /\ who' = (IF op' = "rest" THEN None ELSE who)
    BY <1>10 DEF Told, At, Proceed
  <2>2. where' \in [Monsters -> Sectors \cup {None}]
    BY <1>10 DEF Told, TypeOK
  <2>3. op' # "rest" => op = "moveOut" /\ op' = "moveIn" /\ UNCHANGED where
    BY <1>10, <2>1, MainOrder DEF Told
  <2>4. UNCHANGED <<player, from, monsters, sees>> /\ NoteCrossing
    BY <1>10 DEF Told
  <2> QED
    BY <1>1, <1>3, <1>7, <2>1, <2>2, <2>3, <2>4 DEF player, TypeOK, Out
<1> QED
  BY <1>5, <1>6, <1>8, <1>9, <1>10 DEF Loop

LEMMA Typed == Spec => [](TypeOK /\ Out)
<1>1. Init => TypeOK /\ Out
  BY MapAssumption DEF Init, TypeOK, Out, Stages, Ops, NoLetter, Moving
<1>2. TypeOK /\ Out /\ [Next]_vars => TypeOK' /\ Out'
  <2> SUFFICES ASSUME TypeOK, Out, [Next]_vars PROVE TypeOK' /\ Out'
    OBVIOUS
  <2>1. ASSUME NEW p \in Players, Handler(p) PROVE TypeOK' /\ Out'
    BY <2>1, HandlerTyped DEF main, TypeOK, Out
  <2>2. CASE UNCHANGED vars
    BY <2>2 DEF vars, player, main, TypeOK, Out
  <2> QED
    BY <2>1, <2>2, LoopTyped DEF Next
<1> QED
  BY <1>1, <1>2, PTL DEF Spec

\* Every variable keeps its type.
THEOREM TypeSafe == Spec => []TypeOK
BY Typed, PTL

-----------------------------------------------------------------------------
(* Where everyone is: a player and a monster are in the set of one sector  *)
(* at most, and a tour asks or tells sectors near to them.                 *)

Seated == {"in", "enterTell", "moveReset", "moveOut", "moveIn", "respawnReset",
           "leaveReset"}
Still == {"in", "enterSet", "enterTell", "respawnReset", "respawnOut",
          "leaveReset", "leaveOut"}

PlayerInv(p) ==
    /\ \A c \in Sectors :
          p \in sessions[c] <=>
              /\ at[p] \in Seated
              /\ c = IF at[p] = "moveReset" THEN prevPos[p] ELSE pos[p]
    /\ at[p] \in Still => prevPos[p] = pos[p]
    /\ letter[p] # NoLetter \/ left[p] # {} => at[p] \in Telling \cup Retracting
    /\ at[p] \in Telling => left[p] \subseteq Adjacent[pos[p]]
    /\ at[p] = "moveOut" => left[p] \subseteq Adjacent[prevPos[p]] \ Adjacent[pos[p]]

MonsterInv(m) ==
    \A c \in Sectors :
        m \in monsters[c] <=>
            /\ who = m => op \in {"moveReset", "appearTell", "moveOut", "moveIn",
                                  "vanishReset"}
            /\ c = IF who = m /\ op = "moveReset" THEN from[m] ELSE where[m]

MainTour ==
    /\ tell # {} => op \in {"appearTell", "moveOut", "moveIn", "vanishTell"}
    /\ op \in {"appearTell", "moveIn", "vanishTell"} => tell \subseteq Adjacent[where[who]]
    /\ op = "moveOut" => tell \subseteq Adjacent[from[who]] \ Adjacent[where[who]]

LEMMA PlayerStep ==
    ASSUME TypeOK, NEW p \in Players, PlayerInv(p), Handler(p)
    PROVE  PlayerInv(p)'
<1> USE DEF Stages, Telling, Retracting, Seated, Still
<1>1. ASSUME NEW stage, Goto(p, stage)
      PROVE  at'[p] = stage /\ left'[p] = Toured(stage, pos[p], prevPos[p])
  BY <1>1 DEF Goto, TypeOK
<1>2. ASSUME NEW c \in Sectors, Enter(p, c) \/ Move(p, c) \/ ReSpawn(p) \/ Leave(p)
      PROVE  PlayerInv(p)'
  <2>1. /\ left' = left /\ letter' = letter /\ sessions' = sessions
        /\ letter[p] = NoLetter /\ left[p] = {}
    BY <1>2 DEF Enter, Move, ReSpawn, Leave, Begin, PlayerInv
  <2>2. CASE Enter(p, c)
    <3>1. at[p] = "none" /\ at'[p] = "enterSet" /\ pos'[p] = c /\ prevPos'[p] = c
      BY <2>2 DEF Enter, Begin, TypeOK
    <3> QED
      BY <2>1, <3>1 DEF PlayerInv
  <2>3. CASE Move(p, c)
    <3>1. at[p] = "in" /\ at'[p] = "moveReset" /\ pos'[p] = c /\ prevPos'[p] = prevPos[p]
      BY <2>3 DEF Move, Begin, TypeOK
    <3> QED
      BY <2>1, <3>1 DEF PlayerInv
  <2>4. CASE ReSpawn(p) \/ Leave(p)
    <3>1. /\ at[p] = "in" /\ at'[p] \in {"respawnReset", "leaveReset"}
          /\ pos'[p] = pos[p] /\ prevPos'[p] = prevPos[p]
      BY <2>4 DEF ReSpawn, Leave, Begin, TypeOK
    <3> QED
      BY <2>1, <3>1 DEF PlayerInv
  <2> QED
    BY <1>2, <2>2, <2>3, <2>4
<1>3. CASE SetPlayer(p)
  <2>1. /\ at[p] \in {"enterSet", "moveSet"} /\ at'[p] = Then[at[p]]
        /\ left'[p] = Toured(Then[at[p]], pos[p], prevPos[p])
        /\ letter' = letter /\ pos' = pos /\ prevPos' = prevPos
        /\ letter[p] = NoLetter
    BY <1>1, <1>3 DEF SetPlayer, PlayerInv
  <2>2. \A c \in Sectors : p \in sessions'[c] <=> p \in sessions[c] \/ c = pos[p]
    BY <1>3 DEF SetPlayer, TypeOK
  <2>3. CASE at[p] = "enterSet"
    <3>1. at'[p] = "enterTell" /\ left'[p] = Adjacent[pos[p]]
      BY <2>1, <2>3, Order DEF Toured
    <3> QED
      BY <2>1, <2>2, <2>3, <3>1 DEF PlayerInv
  <2>4. CASE at[p] = "moveSet"
    <3>1. at'[p] = "moveOut" /\ left'[p] = Adjacent[prevPos[p]] \ Adjacent[pos[p]]
      BY <2>1, <2>4, Order DEF Toured
    <3> QED
      BY <2>1, <2>2, <2>4, <3>1 DEF PlayerInv
  <2> QED
    BY <2>1, <2>3, <2>4
<1>4. CASE ResetPlayer(p)
  <2>1. /\ at[p] \in {"moveReset", "respawnReset", "leaveReset"} /\ at'[p] = Then[at[p]]
        /\ left'[p] = Toured(Then[at[p]], pos[p], prevPos[p])
        /\ letter' = letter /\ pos' = pos /\ prevPos' = prevPos
        /\ letter[p] = NoLetter
    BY <1>1, <1>4 DEF ResetPlayer, PlayerInv
  <2>2. \A c \in Sectors : p \in sessions'[c] <=> p \in sessions[c] /\ c # prevPos[p]
    BY <1>4 DEF ResetPlayer, TypeOK
  <2>3. CASE at[p] = "moveReset"
    <3>1. at'[p] = "moveSet" /\ left'[p] = {}
      BY <2>1, <2>3, Order DEF Toured
    <3> QED
      BY <2>1, <2>2, <2>3, <3>1 DEF PlayerInv
  <2>4. CASE at[p] \in {"respawnReset", "leaveReset"}
    <3>1. at'[p] \in {"respawnOut", "leaveOut"}
      BY <2>1, <2>4, Order
    <3> QED
      BY <2>1, <2>2, <2>4, <3>1 DEF PlayerInv
  <2> QED
    BY <2>1, <2>3, <2>4
<1>5. ASSUME NEW c \in Sectors, Gather(p, c) PROVE PlayerInv(p)'
  <2>1. /\ at' = at /\ pos' = pos /\ prevPos' = prevPos /\ sessions' = sessions
        /\ left'[p] = left[p] \ {c} /\ left[p] # {}
    BY <1>5 DEF Gather, TypeOK
  <2> QED
    BY <2>1 DEF PlayerInv
<1>6. CASE Deliver(p)
  <2>1. /\ at' = at /\ pos' = pos /\ prevPos' = prevPos /\ sessions' = sessions
        /\ left' = left /\ letter'[p] = NoLetter
    BY <1>6 DEF Deliver, TypeOK
  <2> QED
    BY <2>1 DEF PlayerInv
<1>7. CASE TourDone(p)
  <2>1. /\ at[p] \in Telling \cup Retracting /\ at'[p] = Then[at[p]]
        /\ left'[p] = Toured(Then[at[p]], pos[p], prevPos[p])
        /\ letter' = letter /\ sessions' = sessions /\ letter[p] = NoLetter
        /\ pos'[p] = (IF at[p] = "respawnOut" THEN SpawnSector ELSE pos[p])
        /\ prevPos'[p] = (IF at[p] = "moveOut" THEN prevPos[p] ELSE pos'[p])
    BY <1>1, <1>7 DEF TourDone, TypeOK
  <2>2. CASE at[p] = "moveOut"
    <3>1. at'[p] = "moveIn" /\ left'[p] = Adjacent[pos[p]] \ Adjacent[prevPos[p]]
      BY <2>1, <2>2, Order DEF Toured
    <3> QED
      BY <2>1, <2>2, <3>1 DEF PlayerInv
  <2>3. CASE at[p] \in Telling
    <3>1. at'[p] = "in" /\ left'[p] = {}
      BY <2>1, <2>3, Order DEF Toured
    <3> QED
      BY <2>1, <2>3, <3>1 DEF PlayerInv
  <2>4. CASE at[p] \in {"respawnOut", "leaveOut"}
    <3>1. at'[p] \in {"enterSet", "none"} /\ left'[p] = {}
      BY <2>1, <2>4, Order DEF Toured
    <3> QED
      BY <2>1, <2>4, <3>1, Order DEF PlayerInv
  <2> QED
    BY <2>1, <2>2, <2>3, <2>4
<1> QED
  BY <1>2, <1>3, <1>4, <1>5, <1>6, <1>7, MapAssumption DEF Handler

\* A handler leaves the other players, and the main loop, alone.
LEMMA OthersKeep ==
    ASSUME TypeOK, NEW p \in Players, NEW q \in Players, q # p, Handler(p)
    PROVE  /\ at'[q] = at[q] /\ left'[q] = left[q] /\ letter'[q] = letter[q]
           /\ pos'[q] = pos[q] /\ prevPos'[q] = prevPos[q] /\ sees'[q] = sees[q]
           /\ \A c \in Sectors : q \in sessions'[c] <=> q \in sessions[c]
           /\ \A m \in Monsters : <<q, m>> \in crossed => <<q, m>> \in crossed'
<1> USE DEF TypeOK, Begin, Goto, NoteCrossing
<1>1. ASSUME NEW c \in Sectors, Enter(p, c) \/ Move(p, c) \/ Gather(p, c)
      PROVE  /\ at'[q] = at[q] /\ left'[q] = left[q] /\ letter'[q] = letter[q]
             /\ pos'[q] = pos[q] /\ prevPos'[q] = prevPos[q] /\ sees'[q] = sees[q]
             /\ \A d \in Sectors : q \in sessions'[d] <=> q \in sessions[d]
             /\ \A m \in Monsters : <<q, m>> \in crossed => <<q, m>> \in crossed'
  BY <1>1 DEF Enter, Move, Gather
<1>2. CASE ReSpawn(p) \/ Leave(p)
  BY <1>2 DEF ReSpawn, Leave
<1>3. CASE SetPlayer(p) \/ ResetPlayer(p)
  <2>1. \A d \in Sectors : q \in sessions'[d] <=> q \in sessions[d]
    <3>1. sessions \in [Sectors -> SUBSET Players]
      OBVIOUS
    <3>2. CASE SetPlayer(p)
      BY <3>1, <3>2 DEF SetPlayer
    <3>3. CASE ResetPlayer(p)
      BY <3>1, <3>3 DEF ResetPlayer
    <3> QED
      BY <1>3, <3>2, <3>3
  <2>2. at'[q] = at[q] /\ left'[q] = left[q]
    BY <1>3 DEF SetPlayer, ResetPlayer
  <2>3. /\ UNCHANGED <<letter, pos, prevPos, sees>>
        /\ \A m \in Monsters : <<q, m>> \in crossed => <<q, m>> \in crossed'
    BY <1>3 DEF SetPlayer, ResetPlayer
  <2> QED
    BY <2>1, <2>2, <2>3
<1>4. CASE Deliver(p)
  BY <1>4 DEF Deliver
<1>5. CASE TourDone(p)
  BY <1>5 DEF TourDone
<1> QED
  BY <1>1, <1>2, <1>3, <1>4, <1>5 DEF Handler

LEMMA OtherInv ==
    ASSUME TypeOK, NEW p \in Players, NEW q \in Players, q # p, Handler(p),
           PlayerInv(q)
    PROVE  PlayerInv(q)'
BY OthersKeep DEF PlayerInv

LEMMA MainStep ==
    ASSUME TypeOK, Out, MainTour, \A m \in Monsters : MonsterInv(m), Loop
    PROVE  MainTour' /\ \A m \in Monsters : MonsterInv(m)'
<1> USE NobodyAssumption
<1>1. op = "rest" => who = None /\ tell = {}
  BY DEF TypeOK, MainTour
<1>2. op # "rest" => who \in Monsters /\ where[who] \in Sectors
  BY DEF TypeOK, Out
<1>3. ASSUME NEW n \in Monsters, NEW c \in Sectors, Appear(n, c) \/ Walk(n, c) \/ Vanish(n)
      PROVE  MainTour' /\ \A m \in Monsters : MonsterInv(m)'
  <2>1. /\ op = "rest" /\ who' = n /\ tell' = tell /\ monsters' = monsters
        /\ op' \in {"appearSet", "moveReset", "vanishReset"}
        /\ op' = "appearSet" => where[n] = None
        /\ op' = "moveReset" => from'[n] = where[n]
        /\ op' = "vanishReset" => where'[n] = where[n]
        /\ \A m \in Monsters \ {n} : where'[m] = where[m] /\ from'[m] = from[m]
    BY <1>3 DEF Appear, Walk, Vanish, Start, TypeOK
  <2>2. MainTour'
    BY <1>1, <2>1 DEF MainTour
  <2>3. ASSUME NEW m \in Monsters PROVE MonsterInv(m)'
    <3>1. MonsterInv(m)
      OBVIOUS
    <3>2. CASE m = n
      BY <1>1, <2>1, <3>1, <3>2 DEF MonsterInv
    <3>3. CASE m # n
      BY <1>1, <2>1, <3>1, <3>3 DEF MonsterInv
    <3> QED
      BY <3>2, <3>3
  <2> QED
    BY <2>2, <2>3
<1>4. ASSUME op # "rest", Proceed(After[op]), UNCHANGED <<where, from, who>>
      PROVE  MainTour'
  <2>1. op \in Ops \ {"rest"}
    BY <1>4 DEF TypeOK
  <2>2. op' = After[op] /\ After[op] \in Ops /\ After[op] # "appearSet"
        /\ After[op] # "vanishReset"  /\ After[op] # "moveReset"
    BY <1>4, <2>1, MainOrder DEF Proceed, Ops
  <2>3. tell' = IF op' = "rest" THEN {} ELSE Toured(op', where[who], from[who])
    BY <1>4, <2>2 DEF Proceed
  <2> QED
    BY <1>4, <2>2, <2>3 DEF MainTour, Toured, Ops
<1>5. CASE SetMonster \/ ResetMonster
  <2>1. /\ op \in {"appearSet", "moveSet", "moveReset", "vanishReset"}
        /\ Proceed(After[op]) /\ UNCHANGED <<where, from, who>> /\ op' = After[op]
    BY <1>5 DEF SetMonster, ResetMonster, Proceed
  <2>2. ASSUME NEW m \in Monsters PROVE MonsterInv(m)'
    <3>1. MonsterInv(m)
      OBVIOUS
    <3>2. CASE SetMonster
      <4>1. /\ \/ op = "appearSet" /\ op' = "appearTell"
               \/ op = "moveSet" /\ op' = "moveOut"
            /\ \A c \in Sectors : m \in monsters'[c] <=> 
                  m \in monsters[c] \/ (m = who /\ c = where[who])
        BY <2>1, <3>2, MainOrder DEF SetMonster, TypeOK
      <4> QED
        BY <2>1, <3>1, <4>1 DEF MonsterInv
    <3>3. CASE ResetMonster
      <4>1. \/ op = "moveReset" /\ op' = "moveSet"
            \/ op = "vanishReset" /\ op' = "vanishTell"
        BY <2>1, <3>3, MainOrder DEF ResetMonster
      <4>2. \A c \in Sectors : m \in monsters'[c] <=>
              /\ m \in monsters[c]
              /\ ~ (m = who /\ c = IF op = "moveReset" THEN from[who] ELSE where[who])
        BY <3>3 DEF ResetMonster, TypeOK
      <4> QED
        BY <2>1, <3>1, <4>1, <4>2 DEF MonsterInv
    <3> QED
      BY <1>5, <3>2, <3>3
  <2> QED
    BY <1>4, <2>1, <2>2
<1>6. ASSUME NEW c \in Sectors, Tell(c)
      PROVE  MainTour' /\ \A m \in Monsters : MonsterInv(m)'
  <2>1. tell' \subseteq tell /\ UNCHANGED <<op, who, where, from, monsters>>
    BY <1>6 DEF Tell
  <2> QED
    BY <2>1 DEF MainTour, MonsterInv
<1>7. CASE Told
  <2>1. /\ op \in {"appearTell", "moveOut", "moveIn", "vanishTell"}
        /\ Proceed(After[op]) /\ op' = After[op]
        /\ who' = (IF op' = "rest" THEN None ELSE who)
        /\ UNCHANGED <<from, monsters>>
    BY <1>7 DEF Told, At, Proceed
  <2>2. /\ op = "moveOut" => op' = "moveIn"
        /\ op # "moveOut" => op' = "rest" /\ who' = None /\ tell' = {}
    BY <2>1, MainOrder DEF Proceed
  <2>3. /\ op # "vanishTell" => where' = where
        /\ op = "vanishTell" => where'[who] = None
        /\ \A m \in Monsters : m # who => where'[m] = where[m]
    BY <1>7 DEF Told, TypeOK
  <2>4. MainTour'
    <3>1. CASE op = "moveOut"
      BY <1>4, <2>1, <2>2, <2>3, <3>1
    <3>2. CASE op # "moveOut"
      BY <2>2, <3>2 DEF MainTour
    <3> QED
      BY <3>1, <3>2
  <2>5. ASSUME NEW m \in Monsters PROVE MonsterInv(m)'
    <3>1. MonsterInv(m)
      OBVIOUS
    <3>2. who \in Monsters
      BY <1>2, <2>1
    <3>3. CASE op = "vanishTell" /\ m = who
      BY <2>1, <2>2, <2>3, <3>1, <3>2, <3>3 DEF MonsterInv
    <3>4. CASE op # "vanishTell" \/ m # who
      BY <2>1, <2>2, <2>3, <3>1, <3>2, <3>4 DEF MonsterInv
    <3> QED
      BY <3>3, <3>4
  <2> QED
    BY <2>4, <2>5
<1> QED
  BY <1>3, <1>5, <1>6, <1>7, MapAssumption DEF Loop

-----------------------------------------------------------------------------
(* What the client of player p will have been told of monster m when the   *)
(* letter under way is delivered, against where both are.                  *)

Will(p, m) ==
    IF m \in letter[p].of THEN at[p] \in Telling ELSE m \in sees[p]

Close(p, m) == where[m] \in Adjacent[pos[p]]

\* The player has yet to ask that sector; the main loop has yet to tell it.
ToLook(p, m) ==
    at[p] = "enterSet" \/ (at[p] \in Telling /\ where[m] \in left[p])
ToTell(p, m) ==
    /\ who = m
    /\ op = "appearSet" \/ (op = "appearTell" /\ pos[p] \in tell)

\* Whose monsters a moving player is shown; who is shown a moving monster.
Shown(p) ==
    IF at[p] = "moveOut" THEN (Adjacent[prevPos[p]] \cap Adjacent[pos[p]]) \cup left[p]
    ELSE Adjacent[prevPos[p]]
ShownBy(m) ==
    IF op \in {"moveReset", "moveSet"} THEN Adjacent[from[m]]
    ELSE IF op = "moveOut" THEN (Adjacent[from[m]] \cap Adjacent[where[m]]) \cup tell
    ELSE Adjacent[where[m]] \ tell

Nothing(p, m) == at[p] \in {"none", "enterSet"} => ~ Will(p, m)

Arriving(p, m) ==
    at[p] \in {"in", "enterTell", "moveIn"} /\ (who = m => op \notin Moving \cup Vanishing)
    => /\ Will(p, m) => Close(p, m)
       /\ Close(p, m) => Will(p, m) \/ ToLook(p, m) \/ ToTell(p, m)

PlayerWalks(p, m) ==
    at[p] \in {"moveReset", "moveSet", "moveOut"} => (Will(p, m) <=> where[m] \in Shown(p))

Respawns(p, m) ==
    /\ at[p] = "respawnReset" => (Will(p, m) => Close(p, m))
    /\ at[p] = "respawnOut" => (Will(p, m) => where[m] \in left[p])

MonsterWalks(p, m) ==
    at[p] = "in" /\ who = m /\ op \in Moving => (Will(p, m) <=> pos[p] \in ShownBy(m))

MonsterGoes(p, m) ==
    at[p] \in {"in", "enterTell"} /\ who = m /\ Will(p, m) =>
        /\ op = "vanishReset" => Close(p, m)
        /\ op = "vanishTell" => pos[p] \in tell

Unborn(p, m) ==
    who = m /\ op = "appearSet" /\ at[p] \notin {"leaveReset", "leaveOut"} => ~ Will(p, m)

Good(p, m) ==
    /\ Nothing(p, m) /\ Arriving(p, m) /\ PlayerWalks(p, m) /\ Respawns(p, m)
    /\ MonsterWalks(p, m) /\ MonsterGoes(p, m) /\ Unborn(p, m)

PairKept(p, m) ==
    <<p, m>> \notin crossed /\ ~ Crossing(p, m) => Good(p, m)

ViewInv ==
    /\ TypeOK /\ Out /\ MainTour
    /\ \A m \in Monsters : MonsterInv(m)
    /\ \A p \in Players : PlayerInv(p)
    /\ \A p \in Players, m \in Monsters : PairKept(p, m)

LEMMA Noted ==
    ASSUME NoteCrossing, NEW p \in Players, NEW m \in Monsters, <<p, m>> \notin crossed'
    PROVE  <<p, m>> \notin crossed /\ ~ Crossing(p, m)
BY DEF NoteCrossing

LEMMA Mutual ==
    ASSUME TypeOK, NEW m \in Monsters, NEW c \in Sectors
    PROVE  /\ where[m] \in Adjacent[c] <=>
                  where[m] \in Sectors /\ c \in Adjacent[where[m]]
           /\ Adjacent[c] \subseteq Sectors
BY MapAssumption, NobodyAssumption DEF TypeOK

-----------------------------------------------------------------------------
(* The player's steps.                                                     *)

LEMMA BeginPair ==
    ASSUME ViewInv, NEW p \in Players, NEW m \in Monsters, NEW c \in Sectors,
           Enter(p, c) \/ Move(p, c) \/ ReSpawn(p) \/ Leave(p)
    PROVE  PairKept(p, m)'
<1> USE DEF Moving, Vanishing, Telling, Retracting, NoLetter
<1> SUFFICES ASSUME <<p, m>> \notin crossed', ~ Crossing(p, m)'
             PROVE  Good(p, m)'
  BY DEF PairKept
<1>1. NoteCrossing /\ UNCHANGED <<left, letter, sees, op, who, tell, where, from>>
  BY DEF Enter, Move, ReSpawn, Leave, Begin, main
<1>2. Good(p, m)
  BY <1>1, Noted DEF ViewInv, PairKept
<1>3. TypeOK /\ PlayerInv(p)
  BY DEF ViewInv
<1>4. at[p] \in {"none", "in"} /\ letter[p].of = {} /\ left[p] = {}
  BY <1>3 DEF Enter, Move, ReSpawn, Leave, PlayerInv
<1>5. Will(p, m) <=> m \in sees[p]
  BY <1>4 DEF Will
<1>6. Will(p, m)' <=> m \in sees[p]
  BY <1>1, <1>4 DEF Will
<1>7. CASE Enter(p, c)
  <2>1. at[p] = "none" /\ at'[p] = "enterSet"
    BY <1>3, <1>7 DEF Enter, Begin, TypeOK
  <2>2. ~ Will(p, m)'
    BY <1>2, <1>5, <1>6, <2>1 DEF Good, Nothing
  <2> QED
    BY <2>1, <2>2 DEF Good, Nothing, Arriving, PlayerWalks, Respawns, MonsterWalks,
       MonsterGoes, Unborn
<1>8. CASE Move(p, c)
  <2>1. at[p] = "in" /\ at'[p] = "moveReset" /\ prevPos'[p] = prevPos[p]
    BY <1>3, <1>8 DEF Move, Begin, TypeOK
  <2>2. who # m /\ who' # m
    BY <1>1, <2>1 DEF Crossing
  <2>3. prevPos[p] = pos[p]
    BY <1>3, <2>1 DEF PlayerInv, Still
  <2>4. Will(p, m) <=> Close(p, m)
    BY <1>2, <2>1, <2>2 DEF Good, Arriving, ToLook, ToTell
  <2>5. Will(p, m)' <=> where'[m] \in Shown(p)'
    BY <1>1, <1>5, <1>6, <2>1, <2>3, <2>4 DEF Shown, Close
  <2> QED
    BY <2>1, <2>2, <2>5 DEF Good, Nothing, Arriving, PlayerWalks, Respawns,
       MonsterWalks, MonsterGoes, Unborn
<1>9. CASE ReSpawn(p)
  <2>1. at[p] = "in" /\ at'[p] = "respawnReset" /\ pos'[p] = pos[p]
    BY <1>3, <1>9 DEF ReSpawn, Begin, TypeOK
  <2>2. who = m => op \notin Moving \cup Vanishing
    BY <1>1, <2>1 DEF Crossing
  <2>3. Will(p, m) => Close(p, m)
    BY <1>2, <2>1, <2>2 DEF Good, Arriving
  <2>4. who = m /\ op = "appearSet" => ~ Will(p, m)
    BY <1>2, <2>1 DEF Good, Unborn
  <2>5. Will(p, m)' => Close(p, m)'
    BY <1>1, <1>5, <1>6, <2>1, <2>3 DEF Close
  <2> QED
    BY <1>1, <1>5, <1>6, <2>1, <2>4, <2>5 DEF Good, Nothing, Arriving, PlayerWalks,
       Respawns, MonsterWalks, MonsterGoes, Unborn
<1>10. CASE Leave(p)
  <2>1. at'[p] = "leaveReset"
    BY <1>3, <1>10 DEF Leave, Begin, TypeOK
  <2> QED
    BY <2>1 DEF Good, Nothing, Arriving, PlayerWalks, Respawns, MonsterWalks,
       MonsterGoes, Unborn
<1> QED
  BY <1>7, <1>8, <1>9, <1>10

LEMMA SetPair ==
    ASSUME ViewInv, NEW p \in Players, NEW m \in Monsters,
           SetPlayer(p) \/ ResetPlayer(p)
    PROVE  PairKept(p, m)'
<1> USE DEF Moving, Vanishing, Telling, Retracting, NoLetter
<1> SUFFICES ASSUME <<p, m>> \notin crossed', ~ Crossing(p, m)'
             PROVE  Good(p, m)'
  BY DEF PairKept
<1>1. /\ NoteCrossing /\ Goto(p, Then[at[p]])
      /\ UNCHANGED <<letter, sees, op, who, tell, where, from, pos, prevPos>>
      /\ at[p] \in {"enterSet", "moveSet", "moveReset", "respawnReset", "leaveReset"}
  BY DEF SetPlayer, ResetPlayer, main
<1>2. Good(p, m) /\ ~ Crossing(p, m)
  BY <1>1, Noted DEF ViewInv, PairKept
<1>3. TypeOK /\ PlayerInv(p)
  BY DEF ViewInv
<1>4. letter[p].of = {}
  BY <1>1, <1>3 DEF PlayerInv
<1>5. (Will(p, m) <=> m \in sees[p]) /\ (Will(p, m)' <=> m \in sees[p])
  BY <1>1, <1>4 DEF Will
<1>6. at'[p] = Then[at[p]] /\ left'[p] = Toured(Then[at[p]], pos[p], prevPos[p])
  BY <1>1, <1>3 DEF Goto, TypeOK
<1>7. CASE at[p] = "enterSet"
  <2>1. at'[p] = "enterTell" /\ left'[p] = Adjacent[pos[p]]
    BY <1>6, <1>7, Order DEF Toured
  <2>2. ~ Will(p, m)'
    BY <1>2, <1>5, <1>7 DEF Good, Nothing
  <2>3. Close(p, m)' => ToLook(p, m)'
    BY <1>1, <2>1 DEF Close, ToLook
  <2> QED
    BY <2>1, <2>2, <2>3 DEF Good, Nothing, Arriving, PlayerWalks, Respawns,
       MonsterWalks, MonsterGoes, Unborn
<1>8. CASE at[p] \in {"moveSet", "moveReset"}
  <2>1. /\ at'[p] \in {"moveSet", "moveOut"}
        /\ at'[p] = "moveOut" => left'[p] = Adjacent[prevPos[p]] \ Adjacent[pos[p]]
    BY <1>6, <1>8, Order DEF Toured
  <2>2. who # m /\ who' # m
    BY <1>1, <1>2, <1>8 DEF Crossing
  <2>3. Will(p, m) <=> where[m] \in Adjacent[prevPos[p]]
    BY <1>2, <1>8 DEF Good, PlayerWalks, Shown
  <2>4. Will(p, m)' <=> where'[m] \in Shown(p)'
    BY <1>1, <1>5, <2>1, <2>3 DEF Shown
  <2> QED
    BY <2>1, <2>2, <2>4 DEF Good, Nothing, Arriving, PlayerWalks, Respawns,
       MonsterWalks, MonsterGoes, Unborn
<1>9. CASE at[p] = "respawnReset"
  <2>1. at'[p] = "respawnOut" /\ left'[p] = Adjacent[pos[p]]
    BY <1>6, <1>9, Order DEF Toured
  <2>2. Will(p, m) => where[m] \in Adjacent[pos[p]]
    BY <1>2, <1>9 DEF Good, Respawns, Close
  <2>3. who = m /\ op = "appearSet" => ~ Will(p, m)
    BY <1>2, <1>9 DEF Good, Unborn
  <2> QED
    BY <1>1, <1>5, <2>1, <2>2, <2>3 DEF Good, Nothing, Arriving, PlayerWalks,
       Respawns, MonsterWalks, MonsterGoes, Unborn
<1>10. CASE at[p] = "leaveReset"
  <2>1. at'[p] = "leaveOut"
    BY <1>6, <1>10, Order
  <2> QED
    BY <2>1 DEF Good, Nothing, Arriving, PlayerWalks, Respawns, MonsterWalks,
       MonsterGoes, Unborn
<1> QED
  BY <1>1, <1>7, <1>8, <1>9, <1>10

LEMMA GatherPair ==
    ASSUME ViewInv, NEW p \in Players, NEW m \in Monsters, NEW c \in Sectors,
           Gather(p, c)
    PROVE  PairKept(p, m)'
<1> USE DEF Moving, Vanishing, Telling, Retracting, NoLetter
<1> SUFFICES ASSUME <<p, m>> \notin crossed', ~ Crossing(p, m)'
             PROVE  Good(p, m)'
  BY DEF PairKept
<1>1. /\ NoteCrossing /\ UNCHANGED <<at, pos, prevPos, sees, op, who, tell, where, from>>
      /\ c \in left[p] /\ letter[p].of = {}
  BY DEF Gather, main
<1>2. Good(p, m) /\ ~ Crossing(p, m)
  BY <1>1, Noted DEF ViewInv, PairKept
<1>3. TypeOK /\ PlayerInv(p) /\ MonsterInv(m)
  BY DEF ViewInv
<1>4. letter'[p].of = monsters[c] /\ left'[p] = left[p] \ {c}
  BY <1>3 DEF Gather, TypeOK
<1>5. at[p] \in Telling \cup Retracting
  BY <1>1, <1>3 DEF PlayerInv
<1>6. Will(p, m) <=> m \in sees[p]
  BY <1>1 DEF Will
<1>7. Will(p, m)' <=> IF m \in monsters[c] THEN at[p] \in Telling ELSE m \in sees[p]
  BY <1>1, <1>4 DEF Will
<1>8. who # m => (m \in monsters[c] <=> c = where[m])
  BY <1>3 DEF MonsterInv
<1>9. who = m /\ op \notin Moving =>
        (m \in monsters[c] <=> op \in {"appearTell", "vanishReset"} /\ c = where[m])
  BY <1>3 DEF MonsterInv
<1>10. Unborn(p, m)'
  BY <1>1, <1>2, <1>6, <1>7, <1>9 DEF Good, Unborn
<1>11. CASE at[p] = "enterTell"
  <2>1. /\ who = m => op \notin Moving
        /\ who = m /\ m \in monsters[c] => op \notin Vanishing
    BY <1>1, <1>2, <1>4, <1>11 DEF Crossing
  <2>2. c \in Adjacent[pos[p]]
    BY <1>1, <1>3, <1>11 DEF PlayerInv
  <2>3. Will(p, m)' <=> m \in monsters[c] \/ m \in sees[p]
    BY <1>7, <1>11
  <2>4. Arriving(p, m)'
    <3>1. SUFFICES ASSUME who = m => op \notin Vanishing
                   PROVE  /\ Will(p, m)' => where[m] \in Adjacent[pos[p]]
                          /\ where[m] \in Adjacent[pos[p]] =>
                               Will(p, m)' \/ where[m] \in left'[p] \/ ToTell(p, m)
      BY <1>1, <1>11 DEF Arriving, Close, ToLook, ToTell
    <3>2. /\ m \in sees[p] => where[m] \in Adjacent[pos[p]]
          /\ where[m] \in Adjacent[pos[p]] =>
               m \in sees[p] \/ where[m] \in left[p] \/ ToTell(p, m)
      BY <1>2, <1>6, <1>11, <2>1, <3>1 DEF Good, Arriving, Close, ToLook
    <3>3. m \in monsters[c] => c = where[m]
      BY <1>8, <1>9, <2>1
    <3>4. c = where[m] => m \in monsters[c] \/ ToTell(p, m)
      <4>1. CASE who = m
        <5>1. op \in Ops \ {"rest"}
          BY <1>3, <4>1, NobodyAssumption DEF TypeOK
        <5>2. op \in {"appearSet", "appearTell"}
          BY <2>1, <3>1, <4>1, <5>1 DEF Ops
        <5> QED
          BY <1>9, <4>1, <5>2 DEF ToTell
      <4> QED
        BY <1>8, <4>1
    <3> QED
      BY <1>4, <2>2, <2>3, <3>2, <3>3, <3>4
  <2>5. MonsterGoes(p, m)'
    BY <1>1, <1>2, <1>6, <1>11, <2>1, <2>3 DEF Good, MonsterGoes, Close
  <2> QED
    BY <1>1, <1>10, <1>11, <2>4, <2>5 DEF Good, Nothing, PlayerWalks, Respawns,
       MonsterWalks
<1>12. CASE at[p] = "moveIn"
  <2>1. who # m
    BY <1>2, <1>12 DEF Crossing
  <2>2. c \in Adjacent[pos[p]]
    BY <1>1, <1>3, <1>12 DEF PlayerInv
  <2>3. /\ m \in sees[p] => where[m] \in Adjacent[pos[p]]
        /\ where[m] \in Adjacent[pos[p]] => m \in sees[p] \/ where[m] \in left[p]
    BY <1>2, <1>6, <1>12, <2>1 DEF Good, Arriving, Close, ToLook, ToTell
  <2>4. Will(p, m)' <=> c = where[m] \/ m \in sees[p]
    BY <1>7, <1>8, <1>12, <2>1
  <2>5. Arriving(p, m)'
    BY <1>1, <1>4, <1>12, <2>2, <2>3, <2>4 DEF Arriving, Close, ToLook
  <2> QED
    BY <1>1, <1>10, <1>12, <2>5 DEF Good, Nothing, PlayerWalks, Respawns,
       MonsterWalks, MonsterGoes
<1>13. CASE at[p] = "moveOut"
  <2>1. who # m
    BY <1>2, <1>13 DEF Crossing
  <2>2. c \in Adjacent[prevPos[p]] \ Adjacent[pos[p]]
    BY <1>1, <1>3, <1>13 DEF PlayerInv
  <2>3. m \in sees[p] <=> where[m] \in (Adjacent[prevPos[p]] \cap Adjacent[pos[p]]) \cup left[p]
    BY <1>2, <1>6, <1>13 DEF Good, PlayerWalks, Shown
  <2>4. Will(p, m)' <=> c # where[m] /\ m \in sees[p]
    BY <1>7, <1>8, <1>13, <2>1
  <2>5. PlayerWalks(p, m)'
    BY <1>1, <1>4, <1>13, <2>2, <2>3, <2>4 DEF PlayerWalks, Shown
  <2> QED
    BY <1>1, <1>10, <1>13, <2>5 DEF Good, Nothing, Arriving, Respawns,
       MonsterWalks, MonsterGoes
<1>14. CASE at[p] = "respawnOut"
  <2>1. who = m => op \notin Moving \cup Vanishing
    BY <1>2, <1>14 DEF Crossing
  <2>2. m \in sees[p] => where[m] \in left[p]
    BY <1>2, <1>6, <1>14 DEF Good, Respawns
  <2>3. c = where[m] => m \in monsters[c] \/ (who = m /\ op = "appearSet")
    <3>1. CASE who = m
      <4>1. op \in {"appearSet", "appearTell"}
        BY <1>3, <2>1, <3>1, NobodyAssumption DEF TypeOK, Ops
      <4> QED
        BY <1>9, <3>1, <4>1
    <3> QED
      BY <1>8, <3>1
  <2>4. who = m /\ op = "appearSet" => m \notin sees[p]
    BY <1>2, <1>6, <1>14 DEF Good, Unborn
  <2>5. Will(p, m)' => where[m] \in left'[p]
    BY <1>4, <1>7, <1>14, <2>2, <2>3, <2>4
  <2> QED
    BY <1>1, <1>10, <1>14, <2>5 DEF Good, Nothing, Arriving, PlayerWalks, Respawns,
       MonsterWalks, MonsterGoes
<1>15. CASE at[p] = "leaveOut"
  BY <1>1, <1>10, <1>15 DEF Good, Nothing, Arriving, PlayerWalks, Respawns,
     MonsterWalks, MonsterGoes
<1> QED
  BY <1>5, <1>11, <1>12, <1>13, <1>14, <1>15

LEMMA DeliverPair ==
    ASSUME ViewInv, NEW p \in Players, NEW m \in Monsters, Deliver(p)
    PROVE  PairKept(p, m)'
<1> USE DEF NoLetter
<1> SUFFICES ASSUME <<p, m>> \notin crossed'
             PROVE  Good(p, m)'
  BY DEF PairKept
<1>1. NoteCrossing /\ UNCHANGED <<at, left, pos, prevPos, op, who, tell, where, from>>
  BY DEF Deliver, main
<1>2. Good(p, m)
  BY <1>1, Noted DEF ViewInv, PairKept
<1>3. /\ letter'[p].of = {}
      /\ sees'[p] = (IF at[p] \in Telling THEN sees[p] \cup letter[p].of
                     ELSE sees[p] \ letter[p].of)
  BY DEF Deliver, ViewInv, TypeOK
<1>4. Will(p, m)' <=> Will(p, m)
  BY <1>3 DEF Will
<1> QED
  BY <1>1, <1>2, <1>4 DEF Good, Nothing, Arriving, PlayerWalks, Respawns,
     MonsterWalks, MonsterGoes, Unborn, Close, ToLook, ToTell, Shown, ShownBy

LEMMA TourDonePair ==
    ASSUME ViewInv, NEW p \in Players, NEW m \in Monsters, TourDone(p)
    PROVE  PairKept(p, m)'
<1> USE DEF Moving, Vanishing, Telling, Retracting, NoLetter
<1> SUFFICES ASSUME <<p, m>> \notin crossed', ~ Crossing(p, m)'
             PROVE  Good(p, m)'
  BY DEF PairKept
<1>1. /\ UNCHANGED <<letter, op, who, tell, where, from>>
      /\ Goto(p, Then[at[p]]) /\ at[p] \in Telling \cup Retracting
      /\ left[p] = {} /\ letter[p].of = {}
  BY DEF TourDone, main
<1>2. TypeOK /\ PlayerInv(p)
  BY DEF ViewInv
<1>3. at'[p] = Then[at[p]] /\ left'[p] = Toured(Then[at[p]], pos[p], prevPos[p])
  BY <1>1, <1>2 DEF Goto, TypeOK
<1>4. (Will(p, m) <=> m \in sees[p]) /\ (Will(p, m)' <=> m \in sees'[p])
  BY <1>1 DEF Will
<1>5. CASE at[p] = "leaveOut"
  <2>1. at'[p] = "none" /\ sees'[p] = {}
    BY <1>2, <1>3, <1>5, Order DEF TourDone, TypeOK
  <2> QED
    BY <1>4, <2>1 DEF Good, Nothing, Arriving, PlayerWalks, Respawns,
       MonsterWalks, MonsterGoes, Unborn
<1>6. CASE at[p] # "leaveOut"
  <2>1. NoteCrossing /\ sees' = sees
    BY <1>6 DEF TourDone
  <2>2. Good(p, m) /\ ~ Crossing(p, m)
    BY <2>1, Noted DEF ViewInv, PairKept
  <2>3. Will(p, m)' <=> Will(p, m)
    BY <1>4, <2>1
  <2>4. /\ at[p] # "respawnOut" => pos'[p] = pos[p]
        /\ at[p] = "moveOut" => prevPos'[p] = prevPos[p]
    BY <1>2 DEF TourDone, TypeOK
  <2>5. CASE at[p] = "enterTell"
    <3>1. at'[p] = "in" /\ (who = m => op \notin Moving) /\ pos'[p] = pos[p]
      BY <1>3, <2>2, <2>4, <2>5, Order DEF Crossing
    <3>2. Arriving(p, m)'
      BY <1>1, <2>2, <2>3, <2>5, <3>1 DEF Good, Arriving, Close, ToLook, ToTell
    <3>3. MonsterGoes(p, m)' /\ Unborn(p, m)'
      BY <1>1, <2>2, <2>3, <2>5, <3>1 DEF Good, MonsterGoes, Unborn, Close
    <3> QED
      BY <1>1, <3>1, <3>2, <3>3 DEF Good, Nothing, PlayerWalks, Respawns, MonsterWalks
  <2>6. CASE at[p] = "moveIn"
    <3>1. at'[p] = "in" /\ who # m /\ pos'[p] = pos[p]
      BY <1>3, <2>2, <2>4, <2>6, Order DEF Crossing
    <3>2. Arriving(p, m)'
      BY <1>1, <2>2, <2>3, <2>6, <3>1 DEF Good, Arriving, Close, ToLook, ToTell
    <3> QED
      BY <1>1, <3>1, <3>2 DEF Good, Nothing, PlayerWalks, Respawns, MonsterWalks,
         MonsterGoes, Unborn
  <2>7. CASE at[p] = "moveOut"
    <3>1. /\ at'[p] = "moveIn" /\ who # m /\ pos'[p] = pos[p]
          /\ left'[p] = Adjacent[pos[p]] \ Adjacent[prevPos[p]]
      BY <1>3, <2>2, <2>4, <2>7, Order DEF Crossing, Toured
    <3>2. Will(p, m) <=> where[m] \in Adjacent[prevPos[p]] \cap Adjacent[pos[p]]
      BY <1>1, <2>2, <2>7 DEF Good, PlayerWalks, Shown
    <3>3. Arriving(p, m)'
      BY <1>1, <2>3, <3>1, <3>2 DEF Arriving, Close, ToLook
    <3> QED
      BY <1>1, <3>1, <3>3 DEF Good, Nothing, PlayerWalks, Respawns, MonsterWalks,
         MonsterGoes, Unborn
  <2>8. CASE at[p] = "respawnOut"
    <3>1. at'[p] = "enterSet" /\ ~ Will(p, m)'
      BY <1>1, <1>3, <2>2, <2>3, <2>8, Order DEF Good, Respawns
    <3> QED
      BY <3>1 DEF Good, Nothing, Arriving, PlayerWalks, Respawns, MonsterWalks,
         MonsterGoes, Unborn
  <2> QED
    BY <1>1, <1>6, <2>5, <2>6, <2>7, <2>8
<1> QED
  BY <1>5, <1>6

LEMMA HandlerPair ==
    ASSUME ViewInv, NEW p \in Players, NEW m \in Monsters, Handler(p)
    PROVE  PairKept(p, m)'
<1>1. ASSUME NEW c \in Sectors, Enter(p, c) \/ Move(p, c) \/ Gather(p, c)
      PROVE  PairKept(p, m)'
  BY <1>1, BeginPair, GatherPair
<1>2. CASE ReSpawn(p) \/ Leave(p)
  BY <1>2, BeginPair, MapAssumption
<1> QED
  BY <1>1, <1>2, SetPair, DeliverPair, TourDonePair DEF Handler

\* A handler of another player leaves the pair as it is.
LEMMA OtherPair ==
    ASSUME ViewInv, NEW p \in Players, NEW q \in Players, q # p,
           NEW m \in Monsters, Handler(p)
    PROVE  PairKept(q, m)'
<1>1. TypeOK /\ PairKept(q, m)
  BY DEF ViewInv
<1>2. /\ at'[q] = at[q] /\ left'[q] = left[q] /\ letter'[q] = letter[q]
      /\ pos'[q] = pos[q] /\ prevPos'[q] = prevPos[q] /\ sees'[q] = sees[q]
      /\ <<q, m>> \in crossed => <<q, m>> \in crossed'
  BY <1>1, OthersKeep
<1>3. UNCHANGED <<op, who, tell, where, from>>
  BY <1>1, HandlerTyped DEF main
<1>4. Crossing(q, m) <=> Crossing(q, m)'
  BY <1>2, <1>3 DEF Crossing
<1>5. Good(q, m) => Good(q, m)'
  BY <1>2, <1>3 DEF Good, Nothing, Arriving, PlayerWalks, Respawns, MonsterWalks,
     MonsterGoes, Unborn, Will, Close, ToLook, ToTell, Shown, ShownBy
<1> QED
  BY <1>1, <1>2, <1>4, <1>5 DEF PairKept

-----------------------------------------------------------------------------
(* The main loop's steps.                                                  *)

\* A step that leaves a monster alone leaves what is told of it alone.
LEMMA AlonePair ==
    ASSUME ViewInv, NEW p \in Players, NEW m \in Monsters, NoteCrossing,
           UNCHANGED player, who # m, who' # m,
           where'[m] = where[m], m \in sees'[p] <=> m \in sees[p]
    PROVE  PairKept(p, m)'
<1> SUFFICES ASSUME <<p, m>> \notin crossed'
             PROVE  Good(p, m)'
  BY DEF PairKept
<1>1. Good(p, m)
  BY Noted DEF ViewInv, PairKept
<1>2. UNCHANGED <<at, left, letter, pos, prevPos>>
  BY DEF player
<1> QED
  BY <1>1, <1>2 DEF Good, Nothing, Arriving, PlayerWalks, Respawns, MonsterWalks,
     MonsterGoes, Unborn, Will, Close, ToLook, ToTell, Shown

LEMMA StartPair ==
    ASSUME ViewInv, NEW p \in Players, NEW m \in Monsters, NEW c \in Sectors,
           Appear(m, c) \/ Walk(m, c) \/ Vanish(m)
    PROVE  PairKept(p, m)'
<1> USE DEF Moving, Vanishing, Telling, Retracting
<1> SUFFICES ASSUME <<p, m>> \notin crossed', ~ Crossing(p, m)'
             PROVE  Good(p, m)'
  BY DEF PairKept
<1>1. TypeOK /\ PlayerInv(p)
  BY DEF ViewInv
<1>2. /\ op = "rest" /\ who' = m /\ NoteCrossing
      /\ UNCHANGED <<at, left, letter, pos, prevPos, tell, sees>>
  BY DEF Appear, Walk, Vanish, Start, player
<1>3. Good(p, m) /\ who # m
  BY <1>1, <1>2, Noted, NobodyAssumption DEF ViewInv, PairKept, TypeOK
<1>4. Will(p, m)' <=> Will(p, m)
  BY <1>2 DEF Will
<1>5. at[p] \in {"in", "enterTell", "moveIn"} =>
        /\ Will(p, m) => Close(p, m)
        /\ at[p] = "in" => (Will(p, m) <=> Close(p, m))
  BY <1>3 DEF Good, Arriving, ToLook, ToTell
<1>6. at[p] \notin Moving \/ at[p] \in {"none", "in"}
  BY <1>2 DEF Crossing
<1>7. pos[p] \in Sectors
  BY <1>1 DEF TypeOK
<1>8. CASE Appear(m, c)
  <2>1. where[m] = None /\ op' = "appearSet"
    BY <1>8 DEF Appear, Start
  <2>2. ~ Close(p, m) /\ None \notin left[p]
    BY <1>1, <1>7, <2>1, Mutual, NobodyAssumption DEF Close, TypeOK
  <2>3. at[p] \notin {"leaveReset", "leaveOut"} => ~ Will(p, m)
    <3>1. at[p] \in Stages
      BY <1>1 DEF TypeOK
    <3> QED
      BY <1>3, <1>5, <1>6, <2>1, <2>2, <3>1 DEF Stages, Good, Nothing, Respawns
  <2> QED
    BY <1>2, <1>3, <1>4, <1>6, <2>1, <2>3 DEF Good, Nothing, Arriving, PlayerWalks,
       Respawns, MonsterWalks, MonsterGoes, Unborn, ToTell
<1>9. CASE Walk(m, c)
  <2>1. op' = "moveReset" /\ from'[m] = where[m]
    BY <1>1, <1>9 DEF Walk, Start, TypeOK
  <2>2. at[p] \in {"none", "in"}
    BY <1>2, <2>1 DEF Crossing
  <2>3. at[p] = "in" => (Will(p, m)' <=> pos'[p] \in ShownBy(m)')
    <3>1. where[m] \in Sectors
      BY <1>1, <1>9 DEF Walk, TypeOK
    <3>2. Close(p, m) <=> pos[p] \in Adjacent[where[m]]
      BY <1>1, <1>7, <3>1, Mutual DEF Close
    <3> QED
      BY <1>2, <1>4, <1>5, <2>1, <3>2 DEF ShownBy
  <2> QED
    BY <1>2, <1>3, <1>4, <2>1, <2>2, <2>3 DEF Good, Nothing, Arriving, PlayerWalks,
       Respawns, MonsterWalks, MonsterGoes, Unborn
<1>10. CASE Vanish(m)
  <2>1. op' = "vanishReset" /\ where' = where
    BY <1>10 DEF Vanish, Start
  <2>2. at[p] \notin {"respawnReset", "respawnOut"}
    BY <1>2, <2>1 DEF Crossing
  <2>3. at[p] \in {"in", "enterTell"} => (Will(p, m)' => Close(p, m)')
    BY <1>2, <1>4, <1>5, <2>1 DEF Close
  <2> QED
    BY <1>2, <1>3, <1>4, <1>6, <2>1, <2>2, <2>3 DEF Good, Nothing, Arriving,
       PlayerWalks, Respawns, MonsterWalks, MonsterGoes, Unborn
<1> QED
  BY <1>8, <1>9, <1>10

LEMMA PlacePair ==
    ASSUME ViewInv, NEW p \in Players, NEW m \in Monsters, who = m,
           SetMonster \/ ResetMonster
    PROVE  PairKept(p, m)'
<1> USE DEF Moving, Vanishing, Telling, Retracting
<1> SUFFICES ASSUME <<p, m>> \notin crossed', ~ Crossing(p, m)'
             PROVE  Good(p, m)'
  BY DEF PairKept
<1>1. TypeOK
  BY DEF ViewInv
<1>2. /\ op \in {"appearSet", "moveSet", "moveReset", "vanishReset"}
      /\ Proceed(After[op]) /\ NoteCrossing
      /\ UNCHANGED <<at, left, letter, pos, prevPos, who, where, from, sees>>
  BY DEF SetMonster, ResetMonster, player
<1>3. Good(p, m) /\ ~ Crossing(p, m)
  BY <1>2, Noted DEF ViewInv, PairKept
<1>4. Will(p, m)' <=> Will(p, m)
  BY <1>2 DEF Will
<1>5. where[m] \in Sectors /\ pos[p] \in Sectors
  BY <1>1, <1>2 DEF ViewInv, TypeOK, Out
<1>6. Close(p, m) <=> pos[p] \in Adjacent[where[m]]
  BY <1>1, <1>5, Mutual DEF Close
<1>7. op' = After[op] /\ tell' = IF op' = "rest" THEN {} ELSE Toured(op', where[m], from[m])
  BY <1>2 DEF Proceed
<1>8. CASE op = "appearSet"
  <2>1. op' = "appearTell" /\ tell' = Adjacent[where[m]]
    BY <1>7, <1>8, MainOrder DEF Toured
  <2>2. at[p] \notin {"leaveReset", "leaveOut"} => ~ Will(p, m)
    BY <1>3, <1>8 DEF Good, Unborn
  <2>3. at[p] \notin Moving
    BY <1>3, <1>8 DEF Crossing
  <2>4. Close(p, m)' => ToTell(p, m)'
    BY <1>2, <1>6, <2>1 DEF Close, ToTell
  <2> QED
    BY <1>2, <1>4, <2>1, <2>2, <2>3, <2>4 DEF Good, Nothing, Arriving, PlayerWalks,
       Respawns, MonsterWalks, MonsterGoes, Unborn
<1>9. CASE op \in {"moveReset", "moveSet"}
  <2>1. /\ op' \in {"moveSet", "moveOut"}
        /\ op' = "moveOut" => tell' = Adjacent[from[m]] \ Adjacent[where[m]]
    BY <1>7, <1>9, MainOrder DEF Toured
  <2>2. at[p] \in {"none", "in"}
    BY <1>3, <1>9 DEF Crossing
  <2>3. at[p] = "in" => (Will(p, m) <=> pos[p] \in Adjacent[from[m]])
    BY <1>3, <1>9 DEF Good, MonsterWalks, ShownBy
  <2>4. MonsterWalks(p, m)'
    BY <1>2, <1>4, <2>1, <2>3 DEF MonsterWalks, ShownBy
  <2> QED
    BY <1>2, <1>3, <1>4, <2>1, <2>2, <2>4 DEF Good, Nothing, Arriving, PlayerWalks,
       Respawns, MonsterGoes, Unborn
<1>10. CASE op = "vanishReset"
  <2>1. op' = "vanishTell" /\ tell' = Adjacent[where[m]]
    BY <1>7, <1>10, MainOrder DEF Toured
  <2>2. at[p] \notin Moving \cup {"respawnReset", "respawnOut"}
    BY <1>3, <1>10 DEF Crossing
  <2>3. at[p] \in {"in", "enterTell"} => (Will(p, m) => pos[p] \in tell')
    BY <1>3, <1>6, <1>10, <2>1 DEF Good, MonsterGoes
  <2> QED
    BY <1>2, <1>3, <1>4, <2>1, <2>2, <2>3 DEF Good, Nothing, Arriving, PlayerWalks,
       Respawns, MonsterWalks, MonsterGoes, Unborn
<1> QED
  BY <1>2, <1>8, <1>9, <1>10

LEMMA TellPair ==
    ASSUME ViewInv, NEW p \in Players, NEW m \in Monsters, who = m,
           NEW c \in Sectors, Tell(c)
    PROVE  PairKept(p, m)'
<1> USE DEF Moving, Vanishing, Telling, Retracting, Seated
<1> SUFFICES ASSUME <<p, m>> \notin crossed', ~ Crossing(p, m)'
             PROVE  Good(p, m)'
  BY DEF PairKept
<1>1. TypeOK /\ PlayerInv(p) /\ MainTour
  BY DEF ViewInv
<1>2. /\ c \in tell /\ tell' = tell \ {c} /\ NoteCrossing
      /\ UNCHANGED <<at, left, letter, pos, prevPos, op, who, where, from>>
      /\ op \in {"appearTell", "moveOut", "moveIn", "vanishTell"}
  BY <1>1 DEF Tell, player, MainTour
<1>3. Good(p, m) /\ ~ Crossing(p, m)
  BY <1>2, Noted DEF ViewInv, PairKept
<1>4. m \in sees'[p] <=>
        IF p \notin sessions[c] THEN m \in sees[p] ELSE op \in {"appearTell", "moveIn"}
  BY DEF Tell
<1>5. where[m] \in Sectors /\ pos[p] \in Sectors
  BY <1>1, <1>2 DEF ViewInv, TypeOK, Out
<1>6. Close(p, m) <=> pos[p] \in Adjacent[where[m]]
  BY <1>1, <1>5, Mutual DEF Close
<1>7. at[p] \in Seated \ {"moveReset"} => (p \in sessions[c] <=> c = pos[p])
  BY <1>1 DEF PlayerInv
<1>8. at[p] \notin Seated => p \notin sessions[c]
  BY <1>1 DEF PlayerInv
<1>9. at[p] \notin Telling \cup Retracting => letter[p].of = {}
  BY <1>1 DEF PlayerInv, NoLetter
<1>10. at[p] \in {"none", "enterSet"} => ~ Will(p, m)'
  BY <1>2, <1>3, <1>4, <1>8, <1>9 DEF Good, Nothing, Will
<1>11. CASE op = "appearTell"
  <2>1. at[p] \notin Moving
    BY <1>3, <1>11 DEF Crossing
  <2>2. c \in Adjacent[where[m]]
    BY <1>1, <1>2, <1>11 DEF MainTour
  <2>3. c = pos[p] => Close(p, m)
    BY <1>6, <2>2
  <2>4. at[p] \in {"in", "enterTell", "respawnReset"} =>
          (Will(p, m)' <=> Will(p, m) \/ c = pos[p])
    BY <1>2, <1>4, <1>7, <1>9, <1>11 DEF Will
  <2>5. Arriving(p, m)'
    BY <1>2, <1>3, <1>11, <2>1, <2>3, <2>4 DEF Good, Arriving, Close, ToLook, ToTell
  <2>6. at[p] = "respawnOut" => (Will(p, m)' <=> Will(p, m))
    BY <1>2, <1>4, <1>8 DEF Will
  <2>7. Respawns(p, m)'
    BY <1>2, <1>3, <2>3, <2>4, <2>6 DEF Good, Respawns, Close
  <2> QED
    BY <1>2, <1>10, <1>11, <2>1, <2>5, <2>7 DEF Good, Nothing, PlayerWalks,
       MonsterWalks, MonsterGoes, Unborn
<1>12. CASE op \in {"moveOut", "moveIn"}
  <2>1. at[p] \in {"none", "in"}
    BY <1>3, <1>12 DEF Crossing
  <2>2. at[p] = "in" =>
          (Will(p, m)' <=> IF c = pos[p] THEN op = "moveIn" ELSE Will(p, m))
    BY <1>2, <1>4, <1>7, <1>9, <1>12 DEF Will
  <2>3. at[p] = "in" => (Will(p, m) <=> pos[p] \in ShownBy(m))
    BY <1>3, <1>12 DEF Good, MonsterWalks
  <2>4. /\ op = "moveOut" => c \in Adjacent[from[m]] \ Adjacent[where[m]]
        /\ op = "moveIn" => c \in Adjacent[where[m]]
    BY <1>1, <1>2 DEF MainTour
  <2>5. MonsterWalks(p, m)'
    BY <1>2, <1>12, <2>2, <2>3, <2>4 DEF MonsterWalks, ShownBy
  <2> QED
    BY <1>2, <1>10, <1>12, <2>1, <2>5 DEF Good, Nothing, Arriving, PlayerWalks,
       Respawns, MonsterGoes, Unborn
<1>13. CASE op = "vanishTell"
  <2>1. /\ at[p] \notin Moving \cup {"respawnReset", "respawnOut"}
        /\ at[p] = "enterTell" => m \notin letter[p].of
    BY <1>3, <1>13 DEF Crossing
  <2>2. at[p] \in {"in", "enterTell"} => (Will(p, m)' <=> c # pos[p] /\ Will(p, m))
    BY <1>2, <1>4, <1>7, <1>9, <1>13, <2>1 DEF Will
  <2>3. MonsterGoes(p, m)'
    BY <1>2, <1>3, <1>13, <2>2 DEF Good, MonsterGoes
  <2> QED
    BY <1>2, <1>10, <1>13, <2>1, <2>3 DEF Good, Nothing, Arriving, PlayerWalks,
       Respawns, MonsterWalks, Unborn
<1> QED
  BY <1>2, <1>11, <1>12, <1>13

LEMMA ToldPair ==
    ASSUME ViewInv, NEW p \in Players, NEW m \in Monsters, who = m, Told
    PROVE  PairKept(p, m)'
<1> USE NobodyAssumption DEF Moving, Vanishing, Telling, Retracting
<1> SUFFICES ASSUME <<p, m>> \notin crossed', ~ Crossing(p, m)'
             PROVE  Good(p, m)'
  BY DEF PairKept
<1>1. TypeOK
  BY DEF ViewInv
<1>2. /\ op \in {"appearTell", "moveOut", "moveIn", "vanishTell"} /\ tell = {}
      /\ Proceed(After[op]) /\ NoteCrossing /\ who' = At(After[op])
      /\ UNCHANGED <<at, left, letter, pos, prevPos, from, sees>>
  BY DEF Told, player
<1>3. Good(p, m) /\ ~ Crossing(p, m)
  BY <1>2, Noted DEF ViewInv, PairKept
<1>4. Will(p, m)' <=> Will(p, m)
  BY <1>2 DEF Will
<1>5. where[m] \in Sectors /\ pos[p] \in Sectors
  BY <1>1, <1>2 DEF ViewInv, TypeOK, Out
<1>6. Close(p, m) <=> pos[p] \in Adjacent[where[m]]
  BY <1>1, <1>5, Mutual DEF Close
<1>7. op # "moveOut" => op' = "rest" /\ who' = None /\ who' # m
  BY <1>2, MainOrder DEF Proceed, At
<1>8. op # "vanishTell" => where' = where
  BY DEF Told
<1>9. CASE op = "appearTell"
  <2>1. at[p] \notin Moving
    BY <1>3, <1>9 DEF Crossing
  <2>2. Arriving(p, m)'
    BY <1>2, <1>3, <1>4, <1>8, <1>9, <2>1 DEF Good, Arriving, Close, ToLook, ToTell
  <2>3. Respawns(p, m)' /\ Nothing(p, m)'
    BY <1>2, <1>3, <1>4, <1>8, <1>9 DEF Good, Respawns, Nothing, Close
  <2> QED
    BY <1>2, <1>7, <1>9, <2>1, <2>2, <2>3 DEF Good, PlayerWalks, MonsterWalks,
       MonsterGoes, Unborn
<1>10. CASE op = "moveOut"
  <2>1. op' = "moveIn" /\ who' = m /\ tell' = Adjacent[where[m]] \ Adjacent[from[m]]
    BY <1>2, <1>10, MainOrder DEF Proceed, At, Toured
  <2>2. at[p] \in {"none", "in"}
    BY <1>3, <1>10 DEF Crossing
  <2>3. at[p] = "in" => (Will(p, m) <=> pos[p] \in Adjacent[from[m]] \cap Adjacent[where[m]])
    BY <1>2, <1>3, <1>10 DEF Good, MonsterWalks, ShownBy
  <2>4. MonsterWalks(p, m)'
    BY <1>2, <1>4, <1>8, <1>10, <2>1, <2>3 DEF MonsterWalks, ShownBy
  <2> QED
    BY <1>2, <1>3, <1>4, <2>1, <2>2, <2>4 DEF Good, Nothing, Arriving, PlayerWalks,
       Respawns, MonsterGoes, Unborn
<1>11. CASE op = "moveIn"
  <2>1. at[p] \in {"none", "in"}
    BY <1>3, <1>11 DEF Crossing
  <2>2. at[p] = "in" => (Will(p, m) <=> Close(p, m))
    BY <1>2, <1>3, <1>6, <1>11 DEF Good, MonsterWalks, ShownBy
  <2>3. Arriving(p, m)'
    BY <1>2, <1>4, <1>8, <1>11, <2>1, <2>2 DEF Arriving, Close
  <2> QED
    BY <1>2, <1>3, <1>4, <1>7, <1>11, <2>1, <2>3 DEF Good, Nothing, PlayerWalks,
       Respawns, MonsterWalks, MonsterGoes, Unborn
<1>12. CASE op = "vanishTell"
  <2>1. at[p] \notin Moving \cup {"respawnReset", "respawnOut"}
    BY <1>3, <1>12 DEF Crossing
  <2>2. where'[m] = None
    BY <1>1, <1>12 DEF Told, TypeOK
  <2>3. ~ Close(p, m)'
    BY <1>1, <1>2, <1>5, <2>2, Mutual, MapAssumption DEF Close
  <2>4. at[p] \in {"in", "enterTell"} => ~ Will(p, m)
    BY <1>2, <1>3, <1>12 DEF Good, MonsterGoes
  <2>5. Arriving(p, m)'
    BY <1>2, <1>4, <2>1, <2>3, <2>4 DEF Arriving
  <2> QED
    BY <1>2, <1>3, <1>4, <1>7, <1>12, <2>1, <2>5 DEF Good, Nothing, PlayerWalks,
       Respawns, MonsterWalks, MonsterGoes, Unborn
<1> QED
  BY <1>2, <1>9, <1>10, <1>11, <1>12

LEMMA LoopPair ==
    ASSUME ViewInv, NEW p \in Players, NEW m \in Monsters, Loop
    PROVE  PairKept(p, m)'
<1>1. TypeOK /\ Out /\ MainTour
  BY DEF ViewInv
<1>2. ASSUME NEW n \in Monsters, NEW c \in Sectors, Appear(n, c) \/ Walk(n, c) \/ Vanish(n)
      PROVE  PairKept(p, m)'
  <2>1. CASE n = m
    BY <1>2, <2>1, StartPair
  <2>2. CASE n # m
    <3>1. /\ op = "rest" /\ who' = n /\ NoteCrossing /\ UNCHANGED <<player, sees>>
          /\ where'[m] = where[m]
      BY <1>1, <1>2, <2>2 DEF Appear, Walk, Vanish, Start, TypeOK
    <3>2. who # m
      BY <1>1, <3>1, NobodyAssumption DEF TypeOK
    <3> QED
      BY <2>2, <3>1, <3>2, AlonePair
  <2> QED
    BY <2>1, <2>2
<1>3. ASSUME NEW n \in Monsters, Vanish(n) PROVE PairKept(p, m)'
  BY <1>2, <1>3, MapAssumption
<1>4. CASE SetMonster \/ ResetMonster
  <2>1. UNCHANGED <<player, who, where, sees>> /\ NoteCrossing
    BY <1>4 DEF SetMonster, ResetMonster
  <2> QED
    BY <1>4, <2>1, PlacePair, AlonePair
<1>5. ASSUME NEW c \in Sectors, Tell(c) PROVE PairKept(p, m)'
  <2>1. UNCHANGED <<player, who, where>> /\ NoteCrossing
    BY <1>5 DEF Tell
  <2>2. who # m => (m \in sees'[p] <=> m \in sees[p])
    BY <1>5 DEF Tell
  <2> QED
    BY <1>5, <2>1, <2>2, TellPair, AlonePair
<1>6. CASE Told
  <2>1. /\ UNCHANGED <<player, sees>> /\ NoteCrossing
        /\ who' \in {who, None} /\ (who # m => where'[m] = where[m])
    BY <1>1, <1>6 DEF Told, At, TypeOK
  <2>2. None # m
    BY NobodyAssumption
  <2> QED
    BY <1>6, <2>1, <2>2, ToldPair, AlonePair
<1> QED
  BY <1>2, <1>3, <1>4, <1>5, <1>6 DEF Loop

-----------------------------------------------------------------------------

LEMMA ViewStep == ViewInv /\ [Next]_vars => ViewInv'
<1> SUFFICES ASSUME ViewInv, [Next]_vars PROVE ViewInv'
  OBVIOUS
<1>1. TypeOK /\ Out
  BY DEF ViewInv
<1>2. ASSUME NEW p \in Players, Handler(p) PROVE ViewInv'
  <2>1. TypeOK' /\ Out' /\ MainTour' /\ (\A m \in Monsters : MonsterInv(m)') /\ UNCHANGED main
    BY <1>1, <1>2, HandlerTyped DEF ViewInv, main, TypeOK, Out, MainTour, MonsterInv
  <2>2. ASSUME NEW q \in Players PROVE PlayerInv(q)'
    BY <1>1, <1>2, PlayerStep, OtherInv DEF ViewInv
  <2>3. ASSUME NEW q \in Players, NEW m \in Monsters PROVE PairKept(q, m)'
    BY <1>2, HandlerPair, OtherPair
  <2> QED
    BY <2>1, <2>2, <2>3 DEF ViewInv
<1>3. CASE Loop
  <2>1. TypeOK' /\ Out' /\ MainTour' /\ \A m \in Monsters : MonsterInv(m)'
    BY <1>1, <1>3, LoopTyped, MainStep DEF ViewInv
  <2>2. UNCHANGED player
    BY <1>3 DEF Loop, Appear, Walk, Vanish, Start, SetMonster, ResetMonster, Tell, Told
  <2>3. ASSUME NEW p \in Players PROVE PlayerInv(p)'
    BY <2>2 DEF ViewInv, PlayerInv, player
  <2>4. ASSUME NEW p \in Players, NEW m \in Monsters PROVE PairKept(p, m)'
    BY <1>3, LoopPair
  <2> QED
    BY <2>1, <2>3, <2>4 DEF ViewInv
<1>4. CASE UNCHANGED vars
  <2>1. UNCHANGED <<at, left, letter, pos, prevPos, sessions, op, who, tell, where,
                    from, monsters, sees, crossed>>
    BY <1>4 DEF vars, player, main
  <2>2. TypeOK' /\ Out' /\ MainTour' /\ \A m \in Monsters : MonsterInv(m)'
    BY <2>1 DEF ViewInv, TypeOK, Out, MainTour, MonsterInv
  <2>3. ASSUME NEW p \in Players PROVE PlayerInv(p)'
    BY <2>1 DEF ViewInv, PlayerInv
  <2>4. ASSUME NEW p \in Players, NEW m \in Monsters PROVE PairKept(p, m)'
    <3>1. PairKept(p, m) /\ (Crossing(p, m)' <=> Crossing(p, m))
      BY <2>1 DEF ViewInv, Crossing
    <3>2. Good(p, m) => Good(p, m)'
      BY <2>1 DEF Good, Nothing, Arriving, PlayerWalks, Respawns, MonsterWalks,
         MonsterGoes, Unborn, Will, Close, ToLook, ToTell, Shown, ShownBy
    <3> QED
      BY <2>1, <3>1, <3>2 DEF PairKept
  <2> QED
    BY <2>2, <2>3, <2>4 DEF ViewInv
<1> QED
  BY <1>2, <1>3, <1>4 DEF Next

\* A client knows of a monster exactly when it is in range, except where a move
\* or a vanishing crossed it: the promise of SendMonsterList and _SpawnMonster.
THEOREM ViewsAreExact == Spec => []ViewsExact
<1>1. Init => ViewInv
  <2> SUFFICES ASSUME Init PROVE ViewInv
    OBVIOUS
  <2>1. TypeOK /\ Out
    BY MapAssumption DEF Init, TypeOK, Out, Stages, Ops, NoLetter, Moving
  <2>2. MainTour /\ \A m \in Monsters : MonsterInv(m)
    BY NobodyAssumption DEF Init, MainTour, MonsterInv
  <2>3. ASSUME NEW p \in Players PROVE PlayerInv(p)
    BY DEF Init, PlayerInv, Seated, Still, Telling
  <2>4. ASSUME NEW p \in Players, NEW m \in Monsters PROVE PairKept(p, m)
    <3>1. at[p] = "none" /\ ~ Will(p, m) /\ who # m
      BY NobodyAssumption DEF Init, Will, NoLetter
    <3> QED
      BY <3>1 DEF PairKept, Good, Nothing, Arriving, PlayerWalks, Respawns,
         MonsterWalks, MonsterGoes, Unborn
  <2> QED
    BY <2>1, <2>2, <2>3, <2>4 DEF ViewInv
<1>2. ViewInv => ViewsExact
  <2> SUFFICES ASSUME ViewInv, NEW p \in Players, NEW m \in Monsters,
                      at[p] = "in", who # m, <<p, m>> \notin crossed
               PROVE  m \in sees[p] <=> where[m] \in Adjacent[pos[p]]
    BY DEF ViewsExact
  <2>1. Good(p, m)
    BY DEF ViewInv, PairKept, Crossing
  <2>2. letter[p].of = {}
    BY DEF ViewInv, PlayerInv, NoLetter, Telling, Retracting
  <2>3. Will(p, m) <=> Close(p, m)
    BY <2>1 DEF Good, Arriving, ToLook, ToTell, Telling
  <2> QED
    BY <2>2, <2>3 DEF Will, Close
<1> QED
  BY <1>1, <1>2, ViewStep, PTL DEF Spec
=============================================================================
