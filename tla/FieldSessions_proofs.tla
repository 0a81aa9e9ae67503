------------------------ MODULE FieldSessions_proofs ------------------------
(***************************************************************************)
(* For any number of sessions, users, sectors and dispatch threads: the    *)
(* sector sets and the session table hold what they should, and clients    *)
(* know of each other what they should.  For maps of any size: what these  *)
(* results take for granted of the sectors around a sector.                *)
(***************************************************************************)
EXTENDS FieldSessions, SectorGrid, SequenceTheorems, TLAPS

\* The order of the stages, one by one.
LEMMA Order ==
    /\ Then["add"] = "enterSet" /\ Then["enterSet"] = "enterTell"
    /\ Then["enterTell"] = "reading"
    /\ Then["moveReset"] = "moveSet" /\ Then["moveSet"] = "moveOut"
    /\ Then["moveOut"] = "moveIn" /\ Then["moveIn"] = "settle"
    /\ Then["settle"] = "reading"
    /\ Then["respawnReset"] = "respawnOut" /\ Then["respawnOut"] = "enterSet"
    /\ Then["leaveReset"] = "leaveOut" /\ Then["leaveOut"] = "free"
BY DEF Then

\* A stage tells only sectors of the map.
LEMMA TellsSectors ==
    ASSUME TypeOK, NEW s \in Sessions, NEW stage
    PROVE  ToTell(s, stage) \subseteq Sectors
<1>1. /\ Adjacent[pos[s]] \subseteq Sectors
      /\ Adjacent[prevPos[s]] \subseteq Sectors
  BY MapAssumption DEF TypeOK
<1> QED
  BY <1>1 DEF ToTell, Gone, Come

\* Going to a stage keeps the stages and the tours typed.
LEMMA GotoTyped ==
    ASSUME TypeOK, NEW s \in Sessions, NEW stage \in Stages, Goto(s, stage)
    PROVE  /\ at' \in [Sessions -> Stages]
           /\ left' \in [Sessions -> SUBSET Sectors]
BY TellsSectors DEF TypeOK, Goto

\* So does going on to the next one.
LEMMA AdvanceTyped ==
    ASSUME TypeOK, NEW s \in Sessions, Advance(s),
           at[s] \in Stages \ (Resting \cup {"pop", "free"})
    PROVE  /\ at' \in [Sessions -> Stages]
           /\ left' \in [Sessions -> SUBSET Sectors]
<1>1. Then[at[s]] \in Stages
  BY Order DEF Stages, Resting, Telling, Retracting, Resetting, Setting
<1> QED
  BY <1>1, GotoTyped DEF Advance

\* The shape of the state is preserved by every step of every session.
LEMMA TypeCorrect == Spec => []TypeOK
<1>1. Init => TypeOK
  BY MapAssumption, BoundAssumption, EmptySeq
     DEF Init, TypeOK, Stages, Resting
<1>2. TypeOK /\ [Next]_vars => TypeOK'
  <2> SUFFICES ASSUME TypeOK, [Next]_vars PROVE TypeOK'
    OBVIOUS
  <2> USE DEF Stages, Resting, Telling, Retracting, Resetting, Setting, sets,
          table, life
  <2>1. CASE UNCHANGED vars
    BY <2>1 DEF vars, TypeOK
  <2>2. CASE Dispatch
    <3>1. Head(completions) \in Sessions /\ Tail(completions) \in Seq(Sessions)
      BY <2>2, HeadTailProperties DEF Dispatch, TypeOK
    <3>2. HandledBy(Head(completions)) \in Stages
      BY DEF HandledBy
    <3> QED
      BY <2>2, <3>1, <3>2, GotoTyped DEF Dispatch, TypeOK
  <2>3. ASSUME NEW s \in Sessions, Post(s)
        PROVE  /\ at' \in [Sessions -> Stages]
               /\ left' \in [Sessions -> SUBSET Sectors]
    BY <2>3, GotoTyped DEF Post
  <2>4. ASSUME NEW s \in Sessions, Accept(s) \/ Rearm(s) PROVE TypeOK'
    BY <2>3, <2>4 DEF Accept, Rearm, TypeOK
  <2>5. ASSUME NEW s \in Sessions, Complete(s) PROVE TypeOK'
    <3>1. completions' \in Seq(Sessions)
      BY <2>5, AppendProperties DEF Complete, TypeOK
    <3>2. /\ at' \in [Sessions -> Stages]
          /\ left' \in [Sessions -> SUBSET Sectors]
      BY <2>5, GotoTyped DEF Complete
    <3>3. burst' \in [Sessions -> 0..MaxBurst]
      BY <2>5 DEF Complete, TypeOK
    <3> QED
      BY <2>5, <3>1, <3>2, <3>3 DEF Complete, TypeOK
  <2>6. ASSUME NEW s \in Sessions, Take(s)
        PROVE  burst' \in [Sessions -> 0..MaxBurst]
    BY <2>6, BoundAssumption DEF Take, TypeOK
  <2>7. ASSUME NEW s \in Sessions, Packet(s) PROVE TypeOK'
    <3>1. ASSUME NEW c \in Home, PlayerInit(s, c) PROVE TypeOK'
      BY <2>6, <3>1, GotoTyped, MapAssumption DEF PlayerInit, InitStart, TypeOK
    <3>2. ASSUME NEW c \in Sectors, MapSync(s, c) PROVE TypeOK'
      BY <2>6, <3>2, GotoTyped DEF MapSync, TypeOK
    <3>3. CASE ReSpawn(s)
      BY <2>6, <3>3, GotoTyped DEF ReSpawn, TypeOK
    <3>4. CASE OtherPacket(s)
      BY <2>6, <3>4 DEF OtherPacket, TypeOK
    <3>5. ASSUME NEW c \in Sectors, PlayerSync(s, c) PROVE TypeOK'
      BY <2>6, <3>5 DEF PlayerSync, TypeOK
    <3> QED
      BY <2>7, <3>1, <3>2, <3>3, <3>4, <3>5 DEF Packet
  <2>8. ASSUME NEW s \in Sessions, Stage(s) PROVE TypeOK'
    <3>1. CASE AddSession(s)
      BY <3>1, AdvanceTyped, UserAssumption DEF AddSession, TypeOK
    <3>2. CASE SetSector(s)
      BY <3>2, AdvanceTyped DEF SetSector, TypeOK
    <3>3. CASE ResetSector(s)
      <4>1. <<s, prevPos[s]>> \in Sessions \X Sectors
        BY DEF TypeOK
      <4>2. strayed' \subseteq Sessions \X Sectors
        BY <3>3, <4>1 DEF ResetSector, TypeOK
      <4> QED
        BY <3>3, <4>2, AdvanceTyped DEF ResetSector, TypeOK
    <3>4. ASSUME NEW c \in Sectors, TellNew(s, c) \/ TellOut(s, c)
          PROVE  TypeOK'
      <4>1. inSector[c] \in SUBSET Sessions
        BY DEF TypeOK
      <4>2. sees' \in [Sessions -> SUBSET Sessions]
        <5>1. CASE TellNew(s, c)
          BY <5>1, <4>1 DEF TellNew, TypeOK
        <5>2. CASE TellOut(s, c)
          BY <5>2, <4>1 DEF TellOut, TypeOK
        <5> QED
          BY <3>4, <5>1, <5>2
      <4>3. left' \in [Sessions -> SUBSET Sectors]
        BY <3>4 DEF TellNew, TellOut, Told, TypeOK
      <4> QED
        BY <3>4, <4>2, <4>3 DEF TellNew, TellOut, TypeOK
    <3>5. CASE TellDone(s)
      BY <3>5, AdvanceTyped, MapAssumption DEF TellDone, TypeOK
    <3>6. CASE Settle(s)
      BY <3>6, AdvanceTyped DEF Settle, TypeOK
    <3>7. CASE PopSession(s)
      BY <3>7, GotoTyped DEF PopSession, Erased, TypeOK
    <3>8. CASE Free(s)
      BY <3>8, GotoTyped, MapAssumption DEF Free, TypeOK
    <3> QED
      BY <2>8, <3>1, <3>2, <3>3, <3>4, <3>5, <3>6, <3>7, <3>8 DEF Stage
  <2> QED
    BY <2>1, <2>2, <2>4, <2>5, <2>7, <2>8 DEF Next, Work
<1> QED
  BY <1>1, <1>2, PTL DEF Spec

-----------------------------------------------------------------------------
(* The invariant.                                                          *)

\* The completion port holds each session at most once, and only sessions
\* whose receive has completed.
PortExact ==
    /\ \A i \in 1..Len(completions) :
        at[completions[i]] \in {"gotData", "gotClose"}
    /\ \A i, j \in 1..Len(completions) :
        completions[i] = completions[j] => i = j

\* Stages in which a session with a player is in the set of no sector of its
\* own, and those in which it is on its way from _prevPos to _pos.
Outside == {"add", "enterSet", "moveSet", "respawnOut", "leaveOut", "free"}
Crossing == {"moveReset", "moveSet", "moveOut", "moveIn", "settle"}

\* The sector whose set holds a session, stage by stage; and no other does,
\* except where ReSet left it.
Entered(s) == IF at[s] \in {"moveOut", "moveIn", "settle"} THEN pos[s]
              ELSE prevPos[s]
Inside(s, c) == player[s] /\ at[s] \notin Outside /\ c = Entered(s)
Placed(s) ==
    \A c \in Sectors :
        /\ Inside(s, c) => s \in inSector[c]
        /\ s \in inSector[c] => Inside(s, c) \/ <<s, c>> \in strayed

\* Where a player arrives its two positions agree, and where it departs by
\* ReSet they do, or its former sector is noted.
Together(s) ==
    /\ at[s] \in {"add", "enterSet", "enterTell"} => prevPos[s] = pos[s]
    /\ at[s] \in {"respawnOut", "leaveOut"} =>
         prevPos[s] = pos[s] \/ <<s, prevPos[s]>> \in strayed

\* Only a session with a player is inside a packet's handler, and memory that
\* may be used again has none.
Played(s) ==
    /\ at[s] \notin Resting \cup {"pop", "free"} => player[s]
    /\ at[s] = "none" => ~ player[s]

SessionInv == \A s \in Sessions : Placed(s) /\ Together(s) /\ Played(s)

\* From AddSession to PopSession a player's id is in the table, unless another
\* session's close erased it.
Registered ==
    \A s \in Sessions :
        player[s] /\ at[s] \notin Unlisted /\ s \notin robbed
            => manager[UserOf[s]] # None

IInv == TypeOK /\ PortExact /\ SessionInv /\ ManagerSound /\ Registered

-----------------------------------------------------------------------------
\* A session none of whose state changes stays in its place.
LEMMA Untouched ==
    ASSUME TypeOK, NEW o \in Sessions, Placed(o), Together(o), Played(o),
           at'[o] = at[o], player'[o] = player[o], pos'[o] = pos[o],
           prevPos'[o] = prevPos[o], strayed \subseteq strayed',
           \A c \in Sectors : o \in inSector'[c] <=> o \in inSector[c]
    PROVE  Placed(o)' /\ Together(o)' /\ Played(o)'
BY DEF Placed, Inside, Entered, Together, Played

\* Entering a sector's set places a session there.
LEMMA SetPlaced ==
    ASSUME IInv, NEW s \in Sessions, SetSector(s)
    PROVE  SessionInv'
<1>1. /\ at[s] \in {"enterSet", "moveSet"} /\ at'[s] = Then[at[s]]
      /\ \A o \in Sessions \ {s} : at'[o] = at[o]
      /\ UNCHANGED <<player, pos, prevPos, strayed>>
      /\ \A c \in Sectors : inSector'[c] =
            IF c = pos[s] THEN inSector[c] \cup {s} ELSE inSector[c]
  BY DEF SetSector, Setting, Advance, Goto, life, IInv, TypeOK
<1>2. Placed(s) /\ Together(s) /\ Played(s)
  BY DEF IInv, SessionInv
<1>3. player[s] /\ at[s] \notin Resting
  BY <1>1, <1>2 DEF Played, Resting
<1>4. at'[s] = IF at[s] = "enterSet" THEN "enterTell" ELSE "moveOut"
  BY <1>1, Order
<1>5. Entered(s)' = pos[s]
  BY <1>1, <1>2, <1>4 DEF Entered, Together
<1>6. Placed(s)'
  BY <1>1, <1>2, <1>3, <1>4, <1>5 DEF Placed, Inside, Outside
<1>7. Together(s)' /\ Played(s)'
  BY <1>1, <1>2, <1>3, <1>4 DEF Together, Played, Resting
<1>8. ASSUME NEW o \in Sessions \ {s}
      PROVE  Placed(o)' /\ Together(o)' /\ Played(o)'
  BY <1>1, <1>8, Untouched DEF IInv, SessionInv
<1> QED
  BY <1>6, <1>7, <1>8 DEF SessionInv

\* The end of a tour leaves it where it is, or outside.
LEMMA TellPlaced ==
    ASSUME IInv, NEW s \in Sessions, TellDone(s)
    PROVE  SessionInv'
<1>1. /\ at[s] \in Telling \cup Retracting /\ at'[s] = Then[at[s]]
      /\ \A o \in Sessions \ {s} :
            at'[o] = at[o] /\ pos'[o] = pos[o] /\ prevPos'[o] = prevPos[o]
      /\ UNCHANGED <<player, inSector, strayed>>
      /\ at[s] # "respawnOut" => pos'[s] = pos[s] /\ prevPos'[s] = prevPos[s]
      /\ at[s] = "respawnOut" => pos'[s] = prevPos'[s]
  BY MapAssumption DEF TellDone, Advance, Goto, life, sets, IInv, TypeOK
<1>2. Placed(s) /\ Together(s) /\ Played(s)
  BY DEF IInv, SessionInv
<1>3. player[s]
  BY <1>1, <1>2 DEF Played, Resting, Telling, Retracting
<1>4. Placed(s)'
  BY <1>1, <1>2, Order
     DEF Placed, Inside, Entered, Outside, Telling, Retracting
<1>5. Together(s)' /\ Played(s)'
  BY <1>1, <1>2, <1>3, Order DEF Together, Played, Resting, Telling, Retracting
<1>6. ASSUME NEW o \in Sessions \ {s}
      PROVE  Placed(o)' /\ Together(o)' /\ Played(o)'
  BY <1>1, <1>6, Untouched DEF IInv, SessionInv
<1> QED
  BY <1>4, <1>5, <1>6 DEF SessionInv

\* Each step keeps each session in its place.
LEMMA SessionStep == IInv /\ [Next]_vars => SessionInv'
<1> SUFFICES ASSUME IInv, [Next]_vars PROVE SessionInv'
  OBVIOUS
<1> USE DEF IInv, SessionInv, Placed, Inside, Entered, Together, Played, Outside,
        Resting, Goto, sets, table, life
<1>1. CASE UNCHANGED vars
  BY <1>1 DEF vars
<1>2. CASE Dispatch
  <2> DEFINE h == Head(completions)
  <2>1. h \in Sessions /\ at[h] \in {"gotData", "gotClose"}
    BY <1>2, HeadTailProperties DEF Dispatch, PortExact, TypeOK
  <2>2. HandledBy(h) \in {"reading", "pop"}
    BY DEF HandledBy
  <2> HIDE DEF h
  <2>3. at' = [at EXCEPT ![h] = HandledBy(h)]
    BY <1>2 DEF Dispatch, h
  <2> QED
    BY <1>2, <2>1, <2>2, <2>3 DEF Dispatch, TypeOK
<1>3. ASSUME NEW s \in Sessions, Accept(s) \/ Rearm(s) PROVE SessionInv'
  <2>1. PICK stage \in {"armed", "lost"} : at' = [at EXCEPT ![s] = stage]
    BY <1>3 DEF Accept, Rearm, Post
  <2>2. UNCHANGED <<player, pos, prevPos, inSector, strayed>>
    BY <1>3 DEF Accept, Rearm
  <2>3. at[s] \in {"none", "reading"}
    BY <1>3 DEF Accept, Rearm
  <2> QED
    BY <2>1, <2>2, <2>3 DEF TypeOK
<1>4. ASSUME NEW s \in Sessions, Complete(s) PROVE SessionInv'
  BY <1>4 DEF Complete, TypeOK
<1>5. ASSUME NEW s \in Sessions, Packet(s) PROVE SessionInv'
  <2>1. ASSUME NEW c \in Home, PlayerInit(s, c) PROVE SessionInv'
    BY <2>1 DEF PlayerInit, Take, InitStart, TypeOK
  <2>2. ASSUME NEW c \in Sectors, MapSync(s, c) PROVE SessionInv'
    BY <2>2 DEF MapSync, Take, TypeOK
  <2>3. CASE ReSpawn(s)
    BY <2>3 DEF ReSpawn, Take, TypeOK
  <2>4. CASE OtherPacket(s)
    BY <2>4 DEF OtherPacket, TypeOK
  <2>5. ASSUME NEW c \in Sectors, PlayerSync(s, c) PROVE SessionInv'
    BY <2>5 DEF PlayerSync, Take, TypeOK
  <2> QED
    BY <1>5, <2>1, <2>2, <2>3, <2>4, <2>5 DEF Packet
<1>6. ASSUME NEW s \in Sessions, Stage(s) PROVE SessionInv'
  <2> USE Order DEF Advance
  <2>1. CASE AddSession(s)
    BY <2>1 DEF AddSession, TypeOK
  <2>2. CASE SetSector(s)
    BY <2>2, SetPlaced
  <2>3. CASE ResetSector(s)
    BY <2>3 DEF ResetSector, LeftSector, Resetting, TypeOK
  <2>4. ASSUME NEW c \in Sectors, TellNew(s, c) \/ TellOut(s, c)
        PROVE  SessionInv'
    BY <2>4 DEF TellNew, TellOut, life
  <2>5. CASE TellDone(s)
    BY <2>5, TellPlaced
  <2>6. CASE Settle(s)
    BY <2>6 DEF Settle, life, TypeOK
  <2>7. CASE PopSession(s)
    BY <2>7 DEF PopSession, TypeOK
  <2>8. CASE Free(s)
    BY <2>8 DEF Free, TypeOK
  <2> QED
    BY <1>6, <2>1, <2>2, <2>3, <2>4, <2>5, <2>6, <2>7, <2>8 DEF Stage
<1> QED
  BY <1>1, <1>2, <1>3, <1>4, <1>5, <1>6 DEF Next, Work

\* No step puts a session into the port's queue twice, or moves one on that is
\* in it.
LEMMA PortStep == IInv /\ [Next]_vars => PortExact'
<1> SUFFICES ASSUME IInv, [Next]_vars PROVE PortExact'
  OBVIOUS
<1> USE DEF IInv, PortExact, Goto
<1>1. CASE UNCHANGED vars
  BY <1>1 DEF vars
<1>2. CASE Dispatch
  <2>1. /\ Len(completions') = Len(completions) - 1
        /\ \A i \in 1..Len(completions') :
            completions'[i] = completions[i + 1]
    BY <1>2, HeadTailProperties DEF Dispatch, TypeOK
  <2>2. Len(completions) \in Nat \ {0} /\ Head(completions) = completions[1]
    BY <1>2, LenProperties, EmptySeq DEF Dispatch, TypeOK
  <2>3. \A i \in 1..Len(completions') :
          /\ i + 1 \in 1..Len(completions) /\ i + 1 # 1
          /\ completions'[i] # Head(completions)
    BY <2>1, <2>2
  <2>4. \A o \in Sessions : o # Head(completions) => at'[o] = at[o]
    BY <1>2 DEF Dispatch, TypeOK
  <2>5. \A i \in 1..Len(completions) : completions[i] \in Sessions
    BY DEF TypeOK
  <2> QED
    BY <2>1, <2>2, <2>3, <2>4, <2>5
<1>3. ASSUME NEW s \in Sessions, Complete(s) PROVE PortExact'
  <2>1. /\ Len(completions') = Len(completions) + 1
        /\ \A i \in 1..Len(completions) : completions'[i] = completions[i]
        /\ completions'[Len(completions) + 1] = s
    BY <1>3, AppendProperties DEF Complete, TypeOK
  <2>2. \A i \in 1..Len(completions) :
          completions[i] # s /\ completions[i] \in Sessions
    <3>1. at[s] = "armed"
      BY <1>3 DEF Complete
    <3>2. ASSUME NEW i \in 1..Len(completions)
          PROVE  completions[i] # s /\ completions[i] \in Sessions
      <4>1. completions[i] \in Sessions
        BY DEF TypeOK
      <4>2. at[completions[i]] \in {"gotData", "gotClose"}
        OBVIOUS
      <4> QED
        BY <3>1, <4>1, <4>2
    <3> QED
      BY <3>2
  <2>3. /\ at'[s] \in {"gotData", "gotClose"}
        /\ \A o \in Sessions : o # s => at'[o] = at[o]
    BY <1>3 DEF Complete, TypeOK
  <2>4. Len(completions) \in Nat
    BY LenProperties DEF TypeOK
  <2>5. \A i \in 1..Len(completions') :
          i \in 1..Len(completions) \/ i = Len(completions) + 1
    BY <2>1, <2>4
  <2> QED
    BY <2>1, <2>2, <2>3, <2>4, <2>5
<1>4. ASSUME NEW s \in Sessions, Accept(s) \/ Work(s) PROVE PortExact'
  <2>1. UNCHANGED completions
    BY <1>4 DEF Accept, Work, Packet, PlayerInit, MapSync, PlayerSync, ReSpawn,
            OtherPacket, Rearm, Stage, AddSession, SetSector, ResetSector,
            TellNew, TellOut, TellDone, Settle, PopSession, Free, life
  <2>2. at[s] \notin {"gotData", "gotClose"}
    BY <1>4 DEF Accept, Work, Packet, PlayerInit, MapSync, PlayerSync, ReSpawn,
            OtherPacket, Take, Rearm, Stage, AddSession, SetSector, ResetSector, TellNew,
            TellOut, TellDone, Settle, PopSession, Free, Setting, Resetting,
            Telling, Retracting
  <2>3. \A o \in Sessions : o # s => at'[o] = at[o]
    BY <1>4 DEF Accept, Work, Packet, PlayerInit, InitStart, MapSync, PlayerSync,
            ReSpawn, OtherPacket, Rearm, Post, Stage, AddSession, SetSector, ResetSector,
            TellNew, TellOut, TellDone, Settle, PopSession, Free, Advance,
            TypeOK
  <2>4. \A i \in 1..Len(completions) : completions[i] \in Sessions
    BY DEF TypeOK
  <2> QED
    BY <2>1, <2>2, <2>3, <2>4
<1> QED
  BY <1>1, <1>2, <1>3, <1>4 DEF Next

\* A step of one session leaves the stage and the player of the others alone.
LEMMA OthersStay ==
    ASSUME TypeOK, NEW s \in Sessions, Accept(s) \/ Complete(s) \/ Work(s)
    PROVE  \A o \in Sessions \ {s} : at'[o] = at[o] /\ player'[o] = player[o]
<1>1. \A o \in Sessions \ {s} : at'[o] = at[o]
  BY DEF Accept, Complete, Work, Packet, PlayerInit, InitStart, MapSync, PlayerSync,
         ReSpawn, OtherPacket, Rearm, Post, Stage, AddSession, SetSector, ResetSector,
         TellNew, TellOut, TellDone, Settle, PopSession, Free, Advance, Goto,
         TypeOK
<1>2. \A o \in Sessions \ {s} : player'[o] = player[o]
  BY DEF Accept, Complete, Work, Packet, PlayerInit, MapSync, PlayerSync,
         ReSpawn, OtherPacket, Rearm, Stage, AddSession, SetSector, ResetSector,
         TellNew, TellOut, TellDone, Settle, PopSession, Free, life, TypeOK
<1> QED
  BY <1>1, <1>2

\* What a step that leaves the table alone may do to a session: with a player,
\* it does not become unlisted, nor does an unlisted one become listed.
KeepsListing(s) ==
    /\ UNCHANGED manager
    /\ \A o \in Sessions : o \in robbed /\ o \notin robbed' => o = s /\ ~ player'[s]
    /\ player[s] /\ at[s] \notin Unlisted \cup {"none"}
        => player'[s] /\ at'[s] \notin Unlisted \cup {"none"}
    /\ player'[s] /\ at'[s] \notin Unlisted
        => player[s] /\ at[s] \notin Unlisted

\* The steps that do so are all but AddSession and PopSession.
LEMMA ListingKept ==
    ASSUME IInv, NEW s \in Sessions,
           Accept(s) \/ Complete(s) \/ Packet(s) \/ Rearm(s) \/ Stage(s),
           ~ AddSession(s), ~ PopSession(s)
    PROVE  KeepsListing(s)
<1> USE DEF KeepsListing, Unlisted, Goto, IInv, SessionInv, table, life
<1>1. CASE Accept(s) \/ Rearm(s)
  <2>1. at'[s] \in {"armed", "lost"} /\ at[s] \in {"none", "reading"}
    BY <1>1 DEF Accept, Rearm, Post, TypeOK
  <2> QED
    BY <1>1, <2>1 DEF Accept, Rearm, Played
<1>2. CASE Complete(s)
  BY <1>2 DEF Complete, TypeOK
<1>3. CASE Packet(s)
  <2>1. ASSUME NEW c \in Home, PlayerInit(s, c) PROVE KeepsListing(s)
    BY <2>1 DEF PlayerInit, Take, InitStart, TypeOK
  <2>2. ASSUME NEW c \in Sectors, MapSync(s, c) PROVE KeepsListing(s)
    BY <2>2 DEF MapSync, Take, TypeOK
  <2>3. CASE ReSpawn(s) \/ OtherPacket(s)
    BY <2>3 DEF ReSpawn, OtherPacket, Take, TypeOK
  <2>4. ASSUME NEW c \in Sectors, PlayerSync(s, c) PROVE KeepsListing(s)
    BY <2>4 DEF PlayerSync, Take, TypeOK
  <2> QED
    BY <1>3, <2>1, <2>2, <2>3, <2>4 DEF Packet
<1>4. CASE Stage(s)
  <2> USE Order DEF Advance
  <2>1. CASE SetSector(s) \/ ResetSector(s)
    BY <2>1 DEF SetSector, ResetSector, Setting, Resetting, TypeOK
  <2>2. ASSUME NEW c \in Sectors, TellNew(s, c) \/ TellOut(s, c)
        PROVE  KeepsListing(s)
    BY <2>2 DEF TellNew, TellOut
  <2>3. CASE TellDone(s) \/ Settle(s)
    BY <2>3 DEF TellDone, Settle, Telling, Retracting, TypeOK
  <2>4. CASE Free(s)
    BY <2>4 DEF Free, TypeOK
  <2> QED
    BY <1>4, <2>1, <2>2, <2>3, <2>4 DEF Stage
<1> QED
  BY <1>1, <1>2, <1>3, <1>4

\* Each step keeps the table sound and complete.
LEMMA TableStep == IInv /\ [Next]_vars => ManagerSound' /\ Registered'
<1> SUFFICES ASSUME IInv, [Next]_vars PROVE ManagerSound' /\ Registered'
  OBVIOUS
<1> USE UserAssumption, NobodyAssumption
    DEF IInv, ManagerSound, Registered, Unlisted, table
<1>1. CASE UNCHANGED vars
  BY <1>1 DEF vars
<1>2. CASE Dispatch
  <2> DEFINE h == Head(completions)
  <2>1. h \in Sessions /\ at[h] \in {"gotData", "gotClose"}
    BY <1>2, HeadTailProperties DEF Dispatch, PortExact, TypeOK
  <2>2. HandledBy(h) \in {"reading", "pop"}
    BY DEF HandledBy
  <2> HIDE DEF h
  <2>3. /\ at' = [at EXCEPT ![h] = HandledBy(h)]
        /\ UNCHANGED <<player, manager, robbed>>
    BY <1>2 DEF Dispatch, Goto, h
  <2> QED
    BY <2>1, <2>2, <2>3 DEF TypeOK
<1>3. ASSUME NEW s \in Sessions, AddSession(s)
      PROVE  ManagerSound' /\ Registered'
  <2>1. /\ at[s] = "add" /\ player[s] /\ at' = [at EXCEPT ![s] = "enterSet"]
        /\ UNCHANGED <<player, robbed>>
        /\ manager' = [manager EXCEPT ![UserOf[s]] =
                            IF @ = None THEN s ELSE @]
    BY <1>3, Order DEF AddSession, Advance, Goto, SessionInv, Played, Resting
  <2> QED
    BY <2>1 DEF TypeOK
<1>4. ASSUME NEW s \in Sessions, PopSession(s)
      PROVE  ManagerSound' /\ Registered'
  <2>1. PICK u \in SessionId(s) :
          /\ at[s] = "pop"
          /\ at' = [at EXCEPT ![s] = IF player[s] THEN "leaveReset" ELSE "free"]
          /\ UNCHANGED player
          /\ \A v \in Users : manager'[v] = IF v = u THEN None ELSE manager[v]
          /\ \A o \in Sessions : o \in robbed' <=>
                \/ o \in robbed
                \/ /\ o # s /\ UserOf[o] = u /\ player[o]
                   /\ at[o] \notin Unlisted
    BY <1>4 DEF PopSession, Erased, Goto
  <2>2. \A o \in Sessions \ {s} : at'[o] = at[o]
    BY <2>1 DEF TypeOK
  <2>3. at'[s] \in Unlisted
    BY <2>1 DEF TypeOK
  <2>4. player[s] => u = UserOf[s]
    BY <2>1 DEF SessionId
  <2>5. ManagerSound'
    <3> SUFFICES ASSUME NEW v \in Users, manager'[v] # None
                 PROVE  /\ UserOf[manager'[v]] = v /\ player[manager'[v]]
                        /\ at'[manager'[v]] \notin Unlisted \cup {"none"}
      BY <2>1
    <3>1. manager'[v] = manager[v] /\ v # u /\ manager[v] \in Sessions
      BY <2>1 DEF TypeOK
    <3>2. manager[v] # s
      BY <2>4, <3>1
    <3> QED
      BY <2>2, <3>1, <3>2
  <2>6. Registered'
    BY <2>1, <2>2, <2>3
  <2> QED
    BY <2>5, <2>6
<1>5. ASSUME NEW s \in Sessions, Accept(s) \/ Complete(s) \/ Work(s),
             ~ AddSession(s), ~ PopSession(s)
      PROVE  ManagerSound' /\ Registered'
  <2>1. KeepsListing(s)
    BY <1>5, ListingKept DEF Work
  <2>2. \A o \in Sessions \ {s} : at'[o] = at[o] /\ player'[o] = player[o]
    BY <1>5, OthersStay
  <2>3. ManagerSound'
    <3> SUFFICES ASSUME NEW u \in Users, manager[u] # None
                 PROVE  /\ UserOf[manager[u]] = u /\ player'[manager[u]]
                        /\ at'[manager[u]] \notin Unlisted \cup {"none"}
      BY <2>1 DEF KeepsListing
    <3>1. /\ manager[u] \in Sessions
          /\ UserOf[manager[u]] = u /\ player[manager[u]]
          /\ at[manager[u]] \notin Unlisted \cup {"none"}
      BY DEF TypeOK
    <3>2. CASE manager[u] = s
      BY <3>1, <3>2, <2>1 DEF KeepsListing
    <3>3. CASE manager[u] # s
      BY <3>1, <3>3, <2>2
    <3> QED
      BY <3>2, <3>3
  <2>4. Registered'
    <3> SUFFICES ASSUME NEW o \in Sessions, player'[o], at'[o] \notin Unlisted,
                        o \notin robbed'
                 PROVE  manager[UserOf[o]] # None
      BY <2>1 DEF KeepsListing
    <3>1. player[o] /\ at[o] \notin Unlisted
      BY <2>1, <2>2 DEF KeepsListing
    <3>2. o \notin robbed
      BY <2>1 DEF KeepsListing
    <3> QED
      BY <3>1, <3>2
  <2> QED
    BY <2>3, <2>4
<1> QED
  BY <1>1, <1>2, <1>3, <1>4, <1>5 DEF Next

-----------------------------------------------------------------------------
(* The theorems.                                                           *)

\* At the start nobody is anywhere.
LEMMA InitIInv == Init /\ TypeOK => IInv
BY NobodyAssumption
   DEF Init, IInv, PortExact, SessionInv, Placed, Inside, Together, Played, Resting,
       ManagerSound, Registered

\* The invariant holds throughout.
LEMMA IInvCorrect == Spec => []IInv
<1>1. IInv /\ TypeOK' /\ [Next]_vars => IInv'
  BY SessionStep, PortStep, TableStep DEF IInv
<1> QED
  BY <1>1, InitIInv, TypeCorrect, PTL DEF Spec

\* The variables of the sessions keep their types.
THEOREM TypeSafe == Spec => []TypeOK
BY TypeCorrect

\* Between handlers a session is in the set of the sector it announced last,
\* and in another, or in one without a player, only where ReSet left it.
THEOREM SectorIsExact == Spec => []SectorExact
<1>1. IInv => SectorExact
  BY DEF IInv, SessionInv, Placed, Inside, Entered, Played, SectorExact, Outside,
         Resting
<1> QED
  BY <1>1, IInvCorrect, PTL

\* The session table never holds a deleted session or one without a player,
\* also when ids are shared.
THEOREM ManagerIsSound == Spec => []ManagerSound
<1>1. IInv => ManagerSound
  BY DEF IInv
<1> QED
  BY <1>1, IInvCorrect, PTL

\* Under the id of a player at rest the table has a session of that id, unless
\* another's close erased the entry during its stay.
THEOREM PlayersAreFound == Spec => []Findable
<1>1. IInv => Findable
  <2> SUFFICES ASSUME IInv, NEW s \in Sessions, player[s], at[s] \in Resting,
                      s \notin robbed
               PROVE  \E o \in Sessions :
                        UserOf[o] = UserOf[s] /\ manager[UserOf[s]] = o
    BY DEF Findable
  <2>1. UserOf[s] \in Users /\ manager[UserOf[s]] # None
    BY UserAssumption DEF IInv, Registered, Unlisted, Resting
  <2>2. /\ manager[UserOf[s]] \in Sessions
        /\ UserOf[manager[UserOf[s]]] = UserOf[s]
    BY <2>1 DEF IInv, TypeOK, ManagerSound
  <2> QED
    BY <2>2
<1> QED
  BY <1>1, IInvCorrect, PTL

-----------------------------------------------------------------------------
(* What clients know of each other.                                        *)

\* The sector a session has announced, or is announcing.
Place(s) == IF at[s] \in Crossing THEN pos[s] ELSE prevPos[s]

Present(s) == player[s] /\ at[s] # "free"
Close(a, b) == Present(a) /\ Present(b) /\ Place(b) \in Adjacent[Place(a)]

\* a has still to look into the sector in which b is.
ToLook(a, b) ==
    at[a] \in {"add", "enterSet"} \/ (at[a] \in Telling /\ Place(b) \in left[a])

\* The sectors that the client of a departing session still shows.
Shown(a) ==
    IF at[a] \in Resetting \cup {"moveSet"} THEN Adjacent[prevPos[a]]
    ELSE IF at[a] = "moveOut"
         THEN (Adjacent[prevPos[a]] \cap Adjacent[pos[a]]) \cup left[a]
    ELSE left[a]

\* Both are in a handler, and one of them is departing: the next step of
\* either notes that they have crossed.
Overlapping(a, b) ==
    /\ at[a] \notin Resting /\ at[b] \notin Resting
    /\ at[a] \in Departing \/ at[b] \in Departing

\* While nobody departs, who is known is close, and who is close is known or
\* will be, because one of the two has still to look.
Arrival(a, b) ==
    at[a] \notin Departing /\ at[b] \notin Departing =>
        /\ b \in sees[a] => Close(a, b)
        /\ Close(a, b) => b \in sees[a] \/ ToLook(a, b) \/ ToLook(b, a)

\* While a departs and b rests, a knows b exactly if its sector is shown.
Departure(a, b) ==
    at[a] \in Departing /\ at[b] \in Resting =>
        (b \in sees[a] <=> player[b] /\ prevPos[b] \in Shown(a))

Pair(a, b) ==
    /\ b \in sees[a] <=> a \in sees[b]
    /\ Arrival(a, b) /\ Departure(a, b) /\ Departure(b, a)

PairKept(a, b) ==
    /\ UserOf[a] # UserOf[b] /\ {a, b} \notin crossed /\ ~ Overlapping(a, b)
    /\ ~ Strayed(a) /\ ~ Strayed(b)
    => Pair(a, b)

\* A tour visits sectors that are, or were, in range.
Tour(s) ==
    /\ at[s] \in Telling => left[s] \subseteq Adjacent[pos[s]]
    /\ at[s] = "moveOut" => left[s] \subseteq Gone(s)

ViewInv ==
    /\ \A s \in Sessions : Tour(s)
    /\ \A a, b \in Sessions : PairKept(a, b)

\* What a stop of a tour changes: s and the others in the sector come to know
\* each other, or no longer do.
LEMMA NewKnown ==
    ASSUME TypeOK, NEW s \in Sessions, NEW c \in Sectors, TellNew(s, c),
           NEW o \in Sessions \ {s}
    PROVE  /\ o \in sees'[s] <=> o \in sees[s] \/ o \in inSector[c]
           /\ UserOf[o] # UserOf[s] =>
                (s \in sees'[o] <=> s \in sees[o] \/ o \in inSector[c])
           /\ \A u \in Sessions \ {s} : u \in sees'[o] <=> u \in sees[o]
<1>1. /\ sees'[s] = sees[s] \cup inSector[c]
      /\ sees'[o] = IF o \in Others(s, c) THEN sees[o] \cup {s} ELSE sees[o]
  BY DEF TellNew
<1>2. o \in Others(s, c) <=> o \in inSector[c] /\ UserOf[o] # UserOf[s]
  BY DEF Others, TypeOK
<1> QED
  BY <1>1, <1>2

LEMMA NewForgotten ==
    ASSUME TypeOK, NEW s \in Sessions, NEW c \in Sectors, TellOut(s, c),
           NEW o \in Sessions \ {s}
    PROVE  /\ o \in sees'[s] <=> o \in sees[s] /\ o \notin inSector[c]
           /\ UserOf[o] # UserOf[s] =>
                (s \in sees'[o] <=> s \in sees[o] /\ o \notin inSector[c])
           /\ \A u \in Sessions \ {s} : u \in sees'[o] <=> u \in sees[o]
<1>1. /\ sees'[s] = sees[s] \ inSector[c]
      /\ sees'[o] = IF o \in Others(s, c) THEN sees[o] \ {s} ELSE sees[o]
  BY DEF TellOut
<1>2. o \in Others(s, c) <=> o \in inSector[c] /\ UserOf[o] # UserOf[s]
  BY DEF Others, TypeOK
<1> QED
  BY <1>1, <1>2

\* A step of one session leaves the positions and the tours of the others
\* alone, and what they know of third ones; and nothing is uncrossed.
LEMMA OthersKeep ==
    ASSUME TypeOK, NEW s \in Sessions, Accept(s) \/ Complete(s) \/ Work(s)
    PROVE  /\ \A o \in Sessions \ {s} :
                /\ pos'[o] = pos[o] /\ prevPos'[o] = prevPos[o]
                /\ left'[o] = left[o]
                /\ \A u \in Sessions \ {s} : u \in sees'[o] <=> u \in sees[o]
           /\ crossed \subseteq crossed' /\ strayed \subseteq strayed'
<1>1. \A o \in Sessions \ {s} : pos'[o] = pos[o] /\ prevPos'[o] = prevPos[o]
  BY DEF Accept, Complete, Work, Packet, PlayerInit, MapSync, PlayerSync,
         ReSpawn, OtherPacket, Rearm, Stage, AddSession, SetSector, ResetSector,
         TellNew, TellOut, TellDone, Settle, PopSession, Free, TypeOK
<1>2. \A o \in Sessions \ {s} : left'[o] = left[o]
  BY DEF Accept, Complete, Work, Packet, PlayerInit, InitStart, MapSync, PlayerSync,
         ReSpawn, OtherPacket, Rearm, Post, Stage, AddSession, SetSector, ResetSector,
         TellNew, TellOut, Told, TellDone, Settle, PopSession, Free, Advance,
         Goto, TypeOK
<1>3. \A o, u \in Sessions \ {s} : u \in sees'[o] <=> u \in sees[o]
  <2>1. ASSUME NEW c \in Sectors, TellNew(s, c) \/ TellOut(s, c)
        PROVE  \A o, u \in Sessions \ {s} : u \in sees'[o] <=> u \in sees[o]
    BY <2>1, NewKnown, NewForgotten
  <2>2. CASE Free(s)
    BY <2>2 DEF Free, TypeOK
  <2>3. \/ \E c \in Sectors : TellNew(s, c) \/ TellOut(s, c)
        \/ Free(s) \/ UNCHANGED sees
    BY DEF Accept, Complete, Work, Packet, PlayerInit, MapSync, PlayerSync,
           ReSpawn, OtherPacket, Rearm, Stage, AddSession, SetSector, ResetSector,
           TellDone, Settle, PopSession
  <2> QED
    BY <2>1, <2>2, <2>3
<1>4. crossed \subseteq crossed'
  BY DEF Accept, Complete, Work, Packet, PlayerInit, MapSync, PlayerSync,
         ReSpawn, OtherPacket, Rearm, Stage, AddSession, SetSector, ResetSector,
         TellNew, TellOut, TellDone, Settle, PopSession, Free, NoteCrossing
<1>5. strayed \subseteq strayed'
  BY DEF Accept, Complete, Work, Packet, PlayerInit, MapSync, PlayerSync,
         ReSpawn, OtherPacket, Rearm, Stage, AddSession, SetSector, ResetSector,
         TellNew, TellOut, TellDone, Settle, PopSession, Free, sets
<1> QED
  BY <1>1, <1>2, <1>3, <1>4, <1>5

\* The stages of a handler note who overlaps.
LEMMA StageNotes ==
    ASSUME NEW s \in Sessions, NEW o \in Sessions \ {s}, Stage(s),
           Overlapping(s, o)
    PROVE  {s, o} \in crossed'
<1>1. NoteCrossing(s)
  BY DEF Stage, AddSession, SetSector, ResetSector, TellNew, TellOut, TellDone,
         Settle, PopSession, Free
<1> QED
  BY <1>1 DEF NoteCrossing, Overlapping

\* A step of a session leaves its own tour on sectors in range.
LEMMA TourStep ==
    ASSUME IInv, NEW s \in Sessions, Tour(s),
           Accept(s) \/ Complete(s) \/ Work(s)
    PROVE  Tour(s)'
<1> USE DEF Tour, Gone, Telling, Retracting
<1>1. CASE Accept(s) \/ Rearm(s)
  <2>1. at'[s] \in {"armed", "lost"}
    BY <1>1 DEF Accept, Rearm, Post, Goto, IInv, TypeOK
  <2> QED
    BY <2>1
<1>2. CASE Complete(s)
  <2>1. at'[s] \in {"gotData", "gotClose"}
    BY <1>2 DEF Complete, Goto, IInv, TypeOK
  <2> QED
    BY <2>1
<1>3. CASE Packet(s)
  <2>1. at'[s] \in {"add", "settle", "moveReset", "respawnReset", "reading"}
    BY <1>3 DEF Packet, PlayerInit, InitStart, MapSync, PlayerSync, ReSpawn,
            OtherPacket, Take, Goto, IInv, TypeOK
  <2> QED
    BY <2>1
<1>4. CASE Stage(s)
  <2> USE Order DEF IInv, Goto, Advance
  <2>1. CASE AddSession(s) \/ ResetSector(s) \/ Settle(s) \/ PopSession(s) \/ Free(s)
    <3>1. at'[s] \in {"enterSet", "moveSet", "respawnOut", "leaveOut", "reading",
                      "leaveReset", "free", "none"}
      BY <2>1 DEF AddSession, ResetSector, Resetting, Settle, PopSession, Free, TypeOK
    <3> QED
      BY <3>1
  <2>2. CASE SetSector(s)
    <3>1. /\ at'[s] \in {"enterTell", "moveOut"}
          /\ left'[s] = ToTell(s, at'[s])
          /\ UNCHANGED <<pos, prevPos>>
      BY <2>2 DEF SetSector, Setting, TypeOK
    <3> QED
      BY <3>1 DEF ToTell
  <2>3. ASSUME NEW c \in Sectors, TellNew(s, c) \/ TellOut(s, c)
        PROVE  Tour(s)'
    <3>1. /\ UNCHANGED <<at, pos, prevPos>>
          /\ left'[s] = left[s] \ {c}
      BY <2>3 DEF TellNew, TellOut, Told, TypeOK
    <3> QED
      BY <3>1
  <2>4. CASE TellDone(s)
    <3>1. CASE at[s] = "moveOut"
      <4>1. /\ at'[s] = "moveIn" /\ left'[s] = ToTell(s, "moveIn")
            /\ pos'[s] = pos[s]
        BY <2>4, <3>1 DEF TellDone, TypeOK
      <4> QED
        BY <4>1 DEF ToTell, Come
    <3>2. CASE at[s] # "moveOut"
      <4>1. at'[s] \in {"reading", "settle", "enterSet", "free"}
        BY <2>4, <3>2 DEF TellDone, TypeOK
      <4> QED
        BY <4>1
    <3> QED
      BY <3>1, <3>2
  <2> QED
    BY <1>4, <2>1, <2>2, <2>3, <2>4 DEF Stage
<1> QED
  BY <1>1, <1>2, <1>3, <1>4 DEF Work

\* The receive loop changes nothing for a pair.
LEMMA RestingPair ==
    ASSUME IInv, NEW s \in Sessions, NEW o \in Sessions \ {s}, PairKept(s, o),
           at[s] \in Resting, at'[s] \in Resting \cup {"pop", "settle"},
           at'[o] = at[o], left'[o] = left[o], Place(s)' = Place(s),
           pos'[o] = pos[o], prevPos'[o] = prevPos[o],
           UNCHANGED <<player, sees, crossed, strayed>>
    PROVE  PairKept(s, o)'
<1> SUFFICES ASSUME UserOf[s] # UserOf[o], {s, o} \notin crossed,
                    ~ Overlapping(s, o)', ~ Strayed(s), ~ Strayed(o)
             PROVE  Pair(s, o)'
  BY DEF PairKept, Strayed
<1>1. ~ Overlapping(s, o)
  BY DEF Overlapping
<1>2. Pair(s, o)
  BY <1>1 DEF PairKept
<1> USE DEF Resting, Departing, Resetting, Retracting, Telling
<1>3. /\ Close(s, o)' <=> Close(s, o)
      /\ ToLook(s, o)' <=> ToLook(s, o)
      /\ ToLook(o, s)' <=> ToLook(o, s)
      /\ Shown(o)' = Shown(o)
      /\ at'[s] \in Resting => prevPos'[s] = prevPos[s]
  <2>1. Place(o)' = Place(o)
    BY DEF Place
  <2>2. at'[s] \in Resting => prevPos'[s] = prevPos[s]
    BY DEF Place, Crossing
  <2>3. Shown(o)' = Shown(o)
    BY DEF Shown
  <2> QED
    BY <2>1, <2>2, <2>3 DEF Close, Present, ToLook
<1>4. /\ at[s] \notin Departing /\ at'[s] \notin Departing
      /\ at[o] \in Departing => at'[s] \in Resting
  BY DEF Overlapping
<1> QED
  BY <1>2, <1>3, <1>4 DEF Pair, Arrival, Departure

\* A packet's handler begins beside a session that rests, or they overlap.
LEMMA PacketPair ==
    ASSUME IInv, NEW s \in Sessions, NEW o \in Sessions \ {s}, PairKept(s, o),
           Packet(s)
    PROVE  PairKept(s, o)'
<1> SUFFICES ASSUME UserOf[s] # UserOf[o], {s, o} \notin crossed,
                    ~ Overlapping(s, o)', ~ Strayed(s), ~ Strayed(o)
             PROVE  Pair(s, o)'
  <2>1. UNCHANGED <<crossed, strayed>>
    BY DEF Packet, PlayerInit, MapSync, PlayerSync, ReSpawn, OtherPacket, sets
  <2> QED
    BY <2>1 DEF PairKept, Strayed
<1>1. /\ at'[o] = at[o] /\ player'[o] = player[o] /\ pos'[o] = pos[o]
      /\ prevPos'[o] = prevPos[o] /\ left'[o] = left[o]
  BY OthersStay, OthersKeep DEF Work, IInv
<1>2. at[s] = "reading" /\ UNCHANGED <<sees, crossed, strayed>>
  BY DEF Packet, PlayerInit, MapSync, PlayerSync, ReSpawn, OtherPacket, Take, sets
<1>3. Pair(s, o)
  BY <1>2 DEF PairKept, Overlapping, Resting
<1>4. Place(s) = prevPos[s] /\ Place(o)' = Place(o)
  BY <1>1, <1>2 DEF Place, Crossing
<1>10. PairKept(s, o)' => Pair(s, o)'
  BY <1>2 DEF PairKept, Strayed
<1> USE DEF Departing, Resetting, Retracting, Telling, Resting
<1>5. ASSUME NEW c \in Home, PlayerInit(s, c) PROVE Pair(s, o)'
  <2>1. ~ player[s] /\ at'[s] = "add"
    BY <1>5 DEF PlayerInit, InitStart, Goto, IInv, TypeOK
  <2>2. at[o] \notin Departing
    BY <1>1, <2>1 DEF Overlapping
  <2>3. o \notin sees[s] /\ s \notin sees[o]
    BY <1>2, <1>3, <2>1, <2>2 DEF Pair, Arrival, Close, Present
  <2> QED
    BY <1>1, <1>2, <2>1, <2>2, <2>3 DEF Pair, Arrival, Departure, ToLook
<1>6. ASSUME NEW c \in Sectors, MapSync(s, c) PROVE Pair(s, o)'
  <2>1. /\ UNCHANGED <<player, prevPos>> /\ pos'[s] = c /\ player[s]
        /\ at'[s] = IF c = prevPos[s] THEN "settle" ELSE "moveReset"
    BY <1>6 DEF MapSync, Goto, IInv, TypeOK
  <2>2. CASE c = prevPos[s]
    <3>1. at'[s] = "settle" /\ Place(s)' = Place(s)
      BY <1>4, <2>1, <2>2 DEF Place, Crossing
    <3> QED
      BY <1>1, <1>2, <1>10, <2>1, <3>1, RestingPair
  <2>3. CASE c # prevPos[s]
    <3>1. at'[s] = "moveReset" /\ at[o] \in Resting
      BY <1>1, <2>1, <2>3 DEF Overlapping
    <3>2. o \in sees[s] <=> player[o] /\ prevPos[o] \in Adjacent[prevPos[s]]
      BY <1>2, <1>3, <1>4, <2>1, <3>1
         DEF Pair, Arrival, Close, Present, ToLook, Place, Crossing
    <3> QED
      BY <1>1, <1>2, <1>3, <2>1, <3>1, <3>2 DEF Pair, Arrival, Departure, Shown
  <2> QED
    BY <2>2, <2>3
<1>7. CASE ReSpawn(s)
  <2>1. /\ UNCHANGED <<player, pos, prevPos>> /\ player[s]
        /\ at'[s] = "respawnReset"
    BY <1>7 DEF ReSpawn, Goto, IInv, TypeOK
  <2>2. at[o] \in Resting
    BY <1>1, <2>1 DEF Overlapping
  <2>3. o \in sees[s] <=> player[o] /\ prevPos[o] \in Adjacent[prevPos[s]]
    BY <1>2, <1>3, <1>4, <2>1, <2>2
       DEF Pair, Arrival, Close, Present, ToLook, Place, Crossing
  <2> QED
    BY <1>1, <1>2, <1>3, <2>1, <2>2, <2>3 DEF Pair, Arrival, Departure, Shown
<1>8. CASE OtherPacket(s)
  <2>1. UNCHANGED <<at, left, player, pos, prevPos>>
    BY <1>8 DEF OtherPacket
  <2> QED
    BY <1>1, <1>2, <1>10, <2>1, RestingPair DEF Place
<1>9. ASSUME NEW c \in Sectors, PlayerSync(s, c) PROVE Pair(s, o)'
  <2>1. UNCHANGED <<at, left, player, prevPos>>
    BY <1>9 DEF PlayerSync
  <2>2. Place(s)' = Place(s)
    BY <1>2, <2>1 DEF Place, Crossing
  <2> QED
    BY <1>1, <1>2, <1>10, <2>1, <2>2, RestingPair
<1> QED
  BY <1>5, <1>6, <1>7, <1>8, <1>9 DEF Packet

\* Each stage of a handler keeps what a pair that has not crossed knows.
LEMMA StagePair ==
    ASSUME IInv, NEW s \in Sessions, NEW o \in Sessions \ {s}, PairKept(s, o),
           Tour(s), Stage(s)
    PROVE  PairKept(s, o)'
<1> SUFFICES ASSUME UserOf[s] # UserOf[o], {s, o} \notin crossed',
                    ~ Overlapping(s, o)', ~ Strayed(s)', ~ Strayed(o)'
             PROVE  Pair(s, o)'
  BY DEF PairKept
<1>1. /\ at'[o] = at[o] /\ player'[o] = player[o] /\ pos'[o] = pos[o]
      /\ prevPos'[o] = prevPos[o] /\ left'[o] = left[o]
      /\ crossed \subseteq crossed' /\ strayed \subseteq strayed'
  BY OthersStay, OthersKeep DEF Work, IInv
<1>2. ~ Overlapping(s, o)
  BY StageNotes
<1>0. ~ Strayed(s) /\ ~ Strayed(o)
  BY <1>1 DEF Strayed
<1>3. Pair(s, o)
  BY <1>0, <1>1, <1>2 DEF PairKept
<1>4. /\ pos[s] \in Sectors /\ prevPos[s] \in Sectors
      /\ \A c \in Sectors : o \in inSector[c] <=> Inside(o, c)
  BY <1>0 DEF IInv, SessionInv, Placed, TypeOK, Strayed
<1>5. at[s] \notin Resting
  BY DEF Stage, AddSession, SetSector, ResetSector, TellNew, TellOut, TellDone,
         Settle, PopSession, Free, Resting, Setting, Resetting, Retracting, Telling
<1>6. /\ at[o] \notin Departing
      /\ at[s] \in Departing => at[o] \in Resting
  BY <1>2, <1>5 DEF Overlapping, Departing, Resting, Resetting, Retracting
<1>7. at[s] \notin {"pop", "free"} => player[s]
  BY <1>5 DEF IInv, SessionInv, Played
<1>17. /\ at[s] \notin Crossing => Place(s) = prevPos[s]
       /\ at[s] \in Crossing => Place(s) = pos[s]
       /\ at[s] = "enterTell" => prevPos[s] = pos[s]
       /\ Place(o)' = Place(o) /\ (at[o] \in Resting => Place(o) = prevPos[o])
  BY <1>1 DEF Place, Crossing, Resting, IInv, SessionInv, Together
<1>18. \A c \in Sectors : o \in inSector[c] <=>
         player[o] /\ at[o] \notin Outside /\ c = Place(o)
  BY <1>4, <1>6
     DEF Inside, Entered, Place, Crossing, Departing, Resetting, Outside
<1> USE Order DEF Departing, Resetting, Retracting, Telling, Resting, Setting,
        Advance, Goto, Pair, Arrival, Departure
<1>8. CASE AddSession(s)
  <2>1. /\ at[s] = "add" /\ at'[s] = "enterSet"
        /\ UNCHANGED <<player, pos, prevPos, sees>>
    BY <1>8 DEF AddSession, IInv, TypeOK
  <2> QED
    BY <1>1, <1>3, <1>6, <1>17, <2>1 DEF Close, Present, ToLook, Place, Crossing
<1>9. CASE SetSector(s)
  <2>1. /\ at[s] \in Setting /\ at'[s] = Then[at[s]]
        /\ left'[s] = ToTell(s, at'[s])
        /\ UNCHANGED <<player, pos, prevPos, sees>>
    BY <1>9 DEF SetSector, life, IInv, TypeOK
  <2>2. CASE at[s] = "enterSet"
    <3>1. at'[s] = "enterTell" /\ left'[s] = Adjacent[pos[s]]
      BY <2>1, <2>2 DEF ToTell
    <3>2. prevPos[s] = pos[s] /\ Place(s)' = Place(s) /\ Place(s) = pos[s]
      BY <2>1, <2>2, <3>1 DEF Place, Crossing, IInv, SessionInv, Together
    <3> QED
      BY <1>1, <1>3, <1>6, <1>17, <2>1, <2>2, <3>1, <3>2 DEF Close, Present, ToLook
  <2>3. CASE at[s] = "moveSet"
    <3>1. at'[s] = "moveOut" /\ left'[s] = Gone(s)
      BY <2>1, <2>3 DEF ToTell
    <3>2. Shown(s)' = Adjacent[prevPos[s]] /\ Shown(s) = Adjacent[prevPos[s]]
      BY <2>1, <2>3, <3>1 DEF Shown, Gone
    <3> QED
      BY <1>1, <1>3, <1>6, <2>1, <2>3, <3>1, <3>2
  <2> QED
    BY <2>1, <2>2, <2>3
<1>10. CASE ResetSector(s)
  <2>1. /\ at[s] \in Resetting /\ at'[s] = Then[at[s]]
        /\ left'[s] = ToTell(s, at'[s])
        /\ UNCHANGED <<player, pos, prevPos, sees>>
        /\ at[s] = "moveReset" \/ pos[s] = prevPos[s]
             \/ <<s, prevPos[s]>> \in strayed'
    BY <1>10 DEF ResetSector, life, IInv, TypeOK
  <2>3. at[s] = "moveReset" \/ pos[s] = prevPos[s]
    BY <1>4, <2>1 DEF Strayed
  <2>2. at'[s] \in {"moveSet", "respawnOut", "leaveOut"} /\ Shown(s)' = Shown(s)
    BY <2>1, <2>3 DEF ToTell, Shown
  <2> QED
    BY <1>1, <1>3, <1>6, <2>1, <2>2
<1>11. ASSUME NEW c \in Sectors, TellNew(s, c) PROVE Pair(s, o)'
  <2>1. /\ at[s] \in Telling /\ c \in left[s] /\ left'[s] = left[s] \ {c}
        /\ UNCHANGED <<at, player, pos, prevPos>>
    BY <1>11 DEF TellNew, Told, life, IInv, TypeOK
  <2>2. /\ o \in sees'[s] <=> o \in sees[s] \/ o \in inSector[c]
        /\ s \in sees'[o] <=> s \in sees[o] \/ o \in inSector[c]
    BY <1>11, NewKnown DEF IInv
  <2>6. Place(s)' = Place(s) /\ left[s] \subseteq Adjacent[Place(s)]
    BY <1>17, <2>1 DEF Tour, Place, Crossing
  <2>3. o \in inSector[c] => Close(s, o) /\ Place(o) = c
    BY <1>7, <1>18, <2>1, <2>6 DEF Close, Present, Outside
  <2>4. Close(s, o) /\ Place(o) = c => o \in inSector[c] \/ ToLook(o, s)
    BY <1>6, <1>18 DEF Close, Present, Outside, ToLook
  <2>5. /\ Close(s, o)' <=> Close(s, o)
        /\ ToLook(o, s)' <=> ToLook(o, s)
        /\ ToLook(s, o)' <=> ToLook(s, o) /\ Place(o) # c
    BY <1>1, <1>17, <2>1, <2>6 DEF Close, Present, ToLook
  <2> QED
    BY <1>1, <1>3, <1>6, <2>1, <2>2, <2>3, <2>4, <2>5
<1>12. ASSUME NEW c \in Sectors, TellOut(s, c) PROVE Pair(s, o)'
  <2>1. /\ at[s] \in Retracting /\ c \in left[s] /\ left'[s] = left[s] \ {c}
        /\ UNCHANGED <<at, player, pos, prevPos>>
    BY <1>12 DEF TellOut, Told, life, IInv, TypeOK
  <2>2. /\ o \in sees'[s] <=> o \in sees[s] /\ o \notin inSector[c]
        /\ s \in sees'[o] <=> s \in sees[o] /\ o \notin inSector[c]
    BY <1>12, NewForgotten DEF IInv
  <2>3. at[o] \in Resting /\ (o \in inSector[c] <=> player[o] /\ prevPos[o] = c)
    BY <1>6, <1>17, <1>18, <2>1 DEF Outside
  <2>4. Shown(s)' = Shown(s) \ {c}
    BY <2>1 DEF Shown, Tour, Gone
  <2> QED
    BY <1>1, <1>3, <1>6, <2>1, <2>2, <2>3, <2>4
<1>13. CASE TellDone(s)
  <2>1. /\ at[s] \in Telling \cup Retracting /\ left[s] = {} /\ at'[s] = Then[at[s]]
        /\ left'[s] = ToTell(s, at'[s])
        /\ at[s] # "respawnOut" => pos'[s] = pos[s] /\ prevPos'[s] = prevPos[s]
        /\ UNCHANGED <<player, sees>>
    BY <1>13 DEF TellDone, life, IInv, TypeOK
  <2>2. CASE at[s] \in Telling
    <3>1. at'[s] \in {"reading", "settle"}
      BY <2>1, <2>2
    <3>3. Place(s)' = Place(s)
      BY <1>17, <2>1, <2>2 DEF Place, Crossing
    <3>2. ~ ToLook(s, o) /\ (Close(s, o)' <=> Close(s, o))
          /\ (ToLook(o, s)' <=> ToLook(o, s))
      BY <1>1, <1>17, <2>1, <2>2, <3>1, <3>3 DEF ToLook, Close, Present
    <3> QED
      BY <1>1, <1>3, <1>6, <2>1, <2>2, <3>1, <3>2
  <2>3. CASE at[s] = "moveOut"
    <3>1. at'[s] = "moveIn" /\ left'[s] = Adjacent[pos[s]] \ Adjacent[prevPos[s]]
      BY <2>1, <2>3 DEF ToTell, Come
    <3>2. Shown(s) = Adjacent[prevPos[s]] \cap Adjacent[pos[s]]
      BY <2>1, <2>3 DEF Shown
    <3>3. o \in sees[s] <=> player[o] /\ Place(o) \in Shown(s)
      BY <1>3, <1>6, <1>17, <2>3
    <3>4. Place(s)' = pos[s]
      BY <2>1, <2>3, <3>1 DEF Place, Crossing
    <3> QED
      BY <1>1, <1>3, <1>6, <1>7, <1>17, <2>1, <2>3, <3>1, <3>2, <3>3, <3>4
         DEF Close, Present, ToLook
  <2>4. CASE at[s] \in {"respawnOut", "leaveOut"}
    <3>1. at'[s] \in {"enterSet", "free"}
      BY <2>1, <2>4
    <3>2. o \notin sees[s]
      BY <1>3, <1>6, <2>1, <2>4 DEF Shown
    <3> QED
      BY <1>1, <1>3, <1>6, <2>1, <3>1, <3>2 DEF Close, Present, ToLook
  <2> QED
    BY <2>1, <2>2, <2>3, <2>4
<1>14. CASE Settle(s)
  <2>1. /\ at[s] = "settle" /\ at'[s] = "reading" /\ prevPos'[s] = pos[s]
        /\ UNCHANGED <<player, pos, sees>>
    BY <1>14 DEF Settle, life, IInv, TypeOK
  <2>2. Place(s)' = Place(s) /\ Place(s) = pos[s]
    BY <2>1 DEF Place, Crossing
  <2> QED
    BY <1>1, <1>3, <1>6, <1>17, <2>1, <2>2 DEF Close, Present, ToLook
<1>15. CASE PopSession(s)
  <2>1. /\ at[s] = "pop" /\ at'[s] = IF player[s] THEN "leaveReset" ELSE "free"
        /\ UNCHANGED <<player, pos, prevPos, sees>>
    BY <1>15 DEF PopSession, IInv, TypeOK
  <2>2. CASE player[s]
    <3>1. at'[s] = "leaveReset" /\ at[o] \in Resting
      BY <1>1, <1>6, <2>1, <2>2 DEF Overlapping
    <3>2. o \in sees[s] <=> player[o] /\ prevPos[o] \in Adjacent[prevPos[s]]
      BY <1>3, <1>17, <2>1, <2>2, <3>1 DEF Close, Present, ToLook, Crossing
    <3> QED
      BY <1>1, <1>3, <2>1, <3>1, <3>2 DEF Shown
  <2>3. CASE ~ player[s]
    BY <1>1, <1>3, <1>6, <2>1, <2>3 DEF Close, Present
  <2> QED
    BY <2>2, <2>3
<1>16. CASE Free(s)
  <2>1. /\ at[s] = "free" /\ at'[s] = "none" /\ player'[s] = FALSE
        /\ sees'[s] = {} /\ sees'[o] = sees[o]
    BY <1>16 DEF Free, IInv, TypeOK
  <2>2. o \notin sees[s] /\ s \notin sees[o]
    BY <1>3, <1>6, <2>1 DEF Close, Present
  <2> QED
    BY <1>1, <1>6, <2>1, <2>2 DEF Close, Present
<1> QED
  BY <1>8, <1>9, <1>10, <1>11, <1>12, <1>13, <1>14, <1>15, <1>16 DEF Stage

\* So does every step of a session.
LEMMA SessionPair ==
    ASSUME IInv, NEW s \in Sessions, NEW o \in Sessions \ {s}, PairKept(s, o),
           Tour(s), Accept(s) \/ Complete(s) \/ Work(s)
    PROVE  PairKept(s, o)'
<1>1. /\ at'[o] = at[o] /\ player'[o] = player[o] /\ pos'[o] = pos[o]
      /\ prevPos'[o] = prevPos[o] /\ left'[o] = left[o]
  BY OthersStay, OthersKeep DEF IInv
<1>2. CASE Accept(s) \/ Complete(s) \/ Rearm(s)
  <2>1. at[s] \in Resting
        /\ UNCHANGED <<player, pos, prevPos, sees, crossed, strayed>>
    BY <1>2 DEF Accept, Complete, Rearm, Resting, life, sets
  <2>2. at'[s] \in Resting
    BY <1>2 DEF Accept, Complete, Rearm, Post, Goto, Resting, IInv, TypeOK
  <2>3. Place(s)' = Place(s)
    BY <2>1, <2>2 DEF Place, Crossing, Resting
  <2> QED
    BY <1>1, <2>1, <2>2, <2>3, RestingPair
<1> QED
  BY <1>2, PacketPair, StagePair DEF Work

\* What holds of a pair holds of it the other way round.
LEMMA PairTurned ==
    ASSUME TypeOK', NEW a \in Sessions, NEW b \in Sessions, PairKept(a, b)'
    PROVE  PairKept(b, a)'
<1> SUFFICES ASSUME UserOf[b] # UserOf[a], {b, a} \notin crossed',
                    ~ Overlapping(b, a)', ~ Strayed(a)', ~ Strayed(b)'
             PROVE  Pair(b, a)'
  BY DEF PairKept
<1>1. {a, b} = {b, a}
  OBVIOUS
<1>2. Pair(a, b)'
  BY <1>1 DEF PairKept, Overlapping
<1>3. Close(b, a)' <=> Close(a, b)'
  BY MapAssumption DEF Close, Place, TypeOK
<1> QED
  BY <1>2, <1>3 DEF Pair, Arrival

\* Every step keeps what is known.
LEMMA ViewStep == IInv /\ TypeOK' /\ ViewInv /\ [Next]_vars => ViewInv'
<1> SUFFICES ASSUME IInv, TypeOK', ViewInv, [Next]_vars PROVE ViewInv'
  OBVIOUS
<1>1. CASE UNCHANGED vars
  <2>1. UNCHANGED <<at, left, player, pos, prevPos, sees, crossed, strayed>>
    BY <1>1 DEF vars
  <2>2. ASSUME NEW s \in Sessions PROVE Tour(s)'
    BY <2>1 DEF ViewInv, Tour, Gone
  <2>3. ASSUME NEW a \in Sessions, NEW b \in Sessions PROVE PairKept(a, b)'
    <3>1. PairKept(a, b)
      BY DEF ViewInv
    <3> QED
      BY <2>1, <3>1 DEF PairKept, Pair, Arrival, Departure, Close, Present, ToLook,
         Shown, Overlapping, Place, Strayed
  <2> QED
    BY <2>2, <2>3 DEF ViewInv
<1>2. ASSUME NEW s \in Sessions,
             \A a, b \in Sessions \ {s} :
                /\ at'[a] = at[a] /\ player'[a] = player[a] /\ pos'[a] = pos[a]
                /\ prevPos'[a] = prevPos[a] /\ left'[a] = left[a]
                /\ b \in sees'[a] <=> b \in sees[a],
             crossed \subseteq crossed', strayed \subseteq strayed',
             Tour(s)', \A o \in Sessions \ {s} : PairKept(s, o)'
      PROVE  ViewInv'
  <2>1. ASSUME NEW a \in Sessions PROVE Tour(a)'
    <3>1. CASE a = s
      BY <1>2, <3>1
    <3>2. CASE a # s
      BY <1>2, <3>2 DEF ViewInv, Tour, Gone
    <3> QED
      BY <3>1, <3>2
  <2>2. ASSUME NEW a \in Sessions, NEW b \in Sessions PROVE PairKept(a, b)'
    <3>1. CASE a = s /\ b # s
      BY <1>2, <3>1
    <3>2. CASE a # s /\ b = s
      <4>1. PairKept(b, a)'
        BY <1>2, <3>2
      <4> QED
        BY <3>2, <4>1, PairTurned
    <3>3. CASE a # s /\ b # s
      <4>1. PairKept(a, b)
        BY DEF ViewInv
      <4> QED
        BY <1>2, <3>3, <4>1 DEF PairKept, Pair, Arrival, Departure, Close, Present,
           ToLook, Shown, Overlapping, Place, Strayed
    <3>4. CASE a = b
      BY <3>4 DEF PairKept
    <3> QED
      BY <3>1, <3>2, <3>3, <3>4
  <2> QED
    BY <2>1, <2>2 DEF ViewInv
<1>3. CASE Dispatch
  <2>1. PICK h \in Sessions :
          /\ h = Head(completions) /\ at[h] \in {"gotData", "gotClose"}
    BY <1>3, HeadTailProperties DEF Dispatch, PortExact, IInv, TypeOK
  <2>2. HandledBy(h) \in {"reading", "pop"}
    BY DEF HandledBy
  <2>3. /\ at' = [at EXCEPT ![h] = HandledBy(h)]
        /\ left' = [left EXCEPT ![h] = ToTell(h, HandledBy(h))]
        /\ UNCHANGED <<player, pos, prevPos, sees, crossed, strayed>>
    BY <1>3, <2>1 DEF Dispatch, Goto, sets
  <2>4. at'[h] \in {"reading", "pop"} /\ Tour(h)'
    BY <2>1, <2>2, <2>3 DEF Tour, Telling, IInv, TypeOK
  <2>5. \A o \in Sessions \ {h} : at'[o] = at[o] /\ left'[o] = left[o]
    BY <2>3 DEF IInv, TypeOK
  <2>7. Place(h)' = Place(h)
    BY <2>1, <2>3, <2>4 DEF Place, Crossing
  <2>6. \A o \in Sessions \ {h} : PairKept(h, o)'
    BY <2>1, <2>3, <2>4, <2>5, <2>7, RestingPair DEF Resting, ViewInv
  <2> QED
    BY <1>2, <2>1, <2>3, <2>4, <2>5, <2>6
<1>4. ASSUME NEW s \in Sessions, Accept(s) \/ Complete(s) \/ Work(s)
      PROVE  ViewInv'
  <2>1. Tour(s)'
    BY <1>4, TourStep DEF ViewInv
  <2>2. \A o \in Sessions \ {s} : PairKept(s, o)'
    BY <1>4, SessionPair DEF ViewInv
  <2> QED
    BY <1>2, <1>4, <2>1, <2>2, OthersStay, OthersKeep DEF IInv
<1> QED
  BY <1>1, <1>3, <1>4 DEF Next

\* Two players at rest, with ids of their own, know each other exactly when
\* the sectors they announced last are in range, unless one left a sector during
\* a handler of the other or ReSet left one in a set: for any number of players, sectors and dispatch threads.
THEOREM ViewsAreExact == Spec => []ViewsExact
<1>1. Init => ViewInv
  BY DEF Init, ViewInv, Tour, Telling, PairKept, Pair, Arrival, Departure, Close,
     Present, Departing, Resetting, Retracting
<1>2. IInv /\ ViewInv => ViewsExact
  <2> SUFFICES ASSUME IInv, ViewInv, NEW a \in Sessions, NEW b \in Sessions,
                      Settled(a, b), {a, b} \notin crossed,
                      ~ Strayed(a), ~ Strayed(b)
               PROVE  b \in sees[a] <=> Near(a, b)
    BY DEF ViewsExact
  <2>1. Pair(a, b)
    BY DEF ViewInv, PairKept, Settled, Overlapping
  <2> QED
    BY <2>1 DEF Pair, Arrival, Close, Present, Place, Crossing, ToLook, Settled, Near,
       Resting, Departing, Resetting, Retracting, Telling
<1>3. IInv /\ ViewInv /\ TypeOK' /\ [Next]_vars => ViewInv'
  BY ViewStep
<1> QED
  BY <1>1, <1>2, <1>3, IInvCorrect, TypeCorrect, PTL DEF Spec

-----------------------------------------------------------------------------
(* The map: SectorGrid is where Adjacent comes from, and what MapAssumption *)
(* takes for granted of it.                                                *)

\* Division by a positive number, as the provers see it.
LEMMA Divided ==
    ASSUME NEW s \in Nat \ {0}, NEW k \in Nat
    PROVE  /\ k \div s \in Int
           /\ s * (k \div s) <= k /\ k < s * (k \div s) + s
OBVIOUS

\* A length of n sectors is cut into n of them.
LEMMA Cut ==
    ASSUME NEW s \in Nat \ {0}, NEW n \in Nat \ {0}, NEW k \in 0..(n * s - 1)
    PROVE  k \div s \in 0..(n - 1)
<1> DEFINE q == k \div s
<1>0. n * s \in Nat /\ k \in Nat
  OBVIOUS
<1>1. q \in Int /\ s * q <= k /\ k < s * q + s
  BY <1>0, Divided
<1> HIDE DEF q
<1>2. 0 <= q
  <2> SUFFICES ASSUME q <= -1 PROVE FALSE
    BY <1>1
  <2>1. s * (q + 1) = s * q + s
    BY <1>1
  <2>2. s * (q + 1) <= 0
    BY <1>1
  <2> QED
    BY <1>0, <1>1, <2>1, <2>2
<1>3. q <= n - 1
  <2> SUFFICES ASSUME n <= q PROVE FALSE
    BY <1>1
  <2>1. s * n <= s * q
    BY <1>1
  <2> QED
    BY <1>0, <1>1, <2>1
<1> QED
  BY <1>1, <1>2, <1>3 DEF q

\* Two cells no more than a sector's size apart are in sectors that touch.
LEMMA Touch ==
    ASSUME NEW s \in Nat \ {0}, NEW j \in Nat, NEW k \in Nat, j - k \in -s..s
    PROVE  (j \div s) - (k \div s) \in -1..1
<1> DEFINE p == j \div s
           q == k \div s
<1>1. /\ p \in Int /\ s * p <= j /\ j < s * p + s
      /\ q \in Int /\ s * q <= k /\ k < s * q + s
  BY Divided
<1> HIDE DEF p, q
<1>2. ASSUME NEW a \in Int, NEW b \in Int, b + 2 <= a
      PROVE  s * b + 2 * s <= s * a
  <2>1. s * (b + 2) = s * b + 2 * s
    OBVIOUS
  <2>2. s * (b + 2) <= s * a
    BY <1>2
  <2> QED
    BY <2>1, <2>2
<1>3. s * p \in Int /\ s * q \in Int
  BY <1>1
<1>4. p - q <= 1
  <2> SUFFICES ASSUME q + 2 <= p PROVE FALSE
    BY <1>1
  <2>1. s * q + 2 * s <= s * p
    BY <1>1, <1>2
  <2> QED
    BY <1>1, <1>3, <2>1
<1>5. q - p <= 1
  <2> SUFFICES ASSUME p + 2 <= q PROVE FALSE
    BY <1>1
  <2>1. s * p + 2 * s <= s * q
    BY <1>1, <1>2
  <2> QED
    BY <1>1, <1>3, <2>1
<1> QED
  BY <1>1, <1>4, <1>5 DEF p, q

\* Row and column give an index on the map.
LEMMA Flattened ==
    ASSUME NEW m \in Nat \ {0}, NEW n \in Nat \ {0}, NEW r \in 0..(m - 1), NEW c \in 0..(n - 1)
    PROVE  r * n + c \in 0..(n * m - 1)
<1>1. r * n \in Nat
  OBVIOUS
<1>2. r * n <= (m - 1) * n
  OBVIOUS
<1>3. (m - 1) * n = n * m - n
  OBVIOUS
<1>4. n * m \in Nat
  OBVIOUS
<1> QED
  BY <1>1, <1>2, <1>3, <1>4

\* The nine offsets.
LEMMA Nine ==
    ASSUME NEW a \in Int, NEW b \in Int, zRange \in Nat
    PROVE  a \in ConvertSectorIndexAdjacentIndex(b) <=>
             /\ a \in Indexes
             /\ a - b \in {0, -zRange, -zRange + 1, 1, zRange + 1, zRange,
                           zRange - 1, -1, -1 - zRange}
<1>1. DOMAIN Offsets = 1..9
  BY DEF Offsets
<1>2. /\ Offsets[1] = 0 /\ Offsets[2] = -zRange
      /\ Offsets[3] = -zRange + 1 /\ Offsets[4] = 1
      /\ Offsets[5] = zRange + 1 /\ Offsets[6] = zRange
      /\ Offsets[7] = zRange - 1 /\ Offsets[8] = -1
      /\ Offsets[9] = -1 - zRange
  BY DEF Offsets
<1>3. 1..9 = {1, 2, 3, 4, 5, 6, 7, 8, 9}
  OBVIOUS
<1>4. (\E i \in DOMAIN Offsets : a = b + Offsets[i]) <=>
         a - b \in {0, -zRange, -zRange + 1, 1, zRange + 1, zRange,
                    zRange - 1, -1, -1 - zRange}
  BY <1>1, <1>2, <1>3
<1> QED
  BY <1>4 DEF ConvertSectorIndexAdjacentIndex

\* What MapAssumption takes of the map.
LEMMA OffsetsMutual ==
    ASSUME zRange \in Nat, NEW a \in Indexes, NEW b \in Indexes
    PROVE  a \in ConvertSectorIndexAdjacentIndex(b) <=> b \in ConvertSectorIndexAdjacentIndex(a)
<1>1. a \in Int /\ b \in Int
  BY DEF Indexes
<1> QED
  BY <1>1, Nine

GridInv ==
    /\ zRange \in Nat \ {0} /\ xRange \in Nat \ {0} /\ <<zRange, xRange>> \in Maps
    /\ z \in Rows /\ x \in Columns

LEMMA GridTyped == GridSpec => []GridInv
<1>1. GridInit => GridInv
  <2> SUFFICES ASSUME GridInit PROVE GridInv
    OBVIOUS
  <2>1. PICK m \in Maps : zRange = m[1] /\ xRange = m[2]
    BY DEF GridInit
  <2>2. m \in (Nat \ {0}) \X (Nat \ {0})
    BY GridAssumption
  <2>3. m = <<m[1], m[2]>> /\ m[1] \in Nat \ {0} /\ m[2] \in Nat \ {0}
    BY <2>2
  <2> QED
    BY <2>1, <2>3 DEF GridInit, GridInv
<1>2. GridInv /\ [Walk]_grid => GridInv'
  BY DEF GridInv, Walk, grid, Rows, Columns
<1> QED
  BY <1>1, <1>2, PTL DEF GridSpec

LEMMA Indexed ==
    ASSUME GridInv, NEW r \in Rows, NEW c \in Columns
    PROVE  /\ r \div SectorBlockSize \in 0..(zRange - 1)
           /\ c \div SectorBlockSize \in 0..(xRange - 1)
           /\ ConvertSectorIndex(r, c) \in Indexes
<1>1. /\ r \div SectorBlockSize \in 0..(zRange - 1)
      /\ c \div SectorBlockSize \in 0..(xRange - 1)
  BY Cut, GridAssumption DEF GridInv, Rows, Columns
<1>2. ConvertSectorIndex(r, c) \in Indexes
  BY <1>1, Flattened DEF GridInv, ConvertSectorIndex, Indexes
<1> QED
  BY <1>1, <1>2

\* Who is told of a creature would tell it: the offsets of
\* ConvertSectorIndexAdjacentIndex lead back and forth, on maps of any size.
THEOREM NearIsMutual == GridSpec => []AdjacentMutual
<1>1. ASSUME GridInv PROVE AdjacentMutual
  <2> DEFINE here == ConvertSectorIndex(z, x)
  <2>1. here \in Indexes
    BY <1>1, Indexed DEF GridInv
  <2>2. zRange \in Nat
    BY <1>1 DEF GridInv
  <2> HIDE DEF here
  <2>3. ASSUME NEW a \in Indexes
        PROVE  a \in ConvertSectorIndexAdjacentIndex(here) <=> here \in ConvertSectorIndexAdjacentIndex(a)
    BY <2>1, <2>2, OffsetsMutual
  <2> QED
    BY <2>3 DEF AdjacentMutual, here
<1> QED
  BY <1>1, GridTyped, PTL

\* On square maps the nine sectors around a creature's contain every cell within
\* a sector's size of it.
THEOREM SightIsCovered ==
    ASSUME \A m \in Maps : m[1] = m[2]
    PROVE  GridSpec => []SightCovered
<1>1. ASSUME GridInv PROVE SightCovered
  <2> SUFFICES ASSUME NEW r \in Rows, NEW c \in Columns,
                      r - z \in -SectorBlockSize..SectorBlockSize,
                      c - x \in -SectorBlockSize..SectorBlockSize
               PROVE  ConvertSectorIndex(r, c) \in
                        ConvertSectorIndexAdjacentIndex(ConvertSectorIndex(z, x))
    BY DEF SightCovered
  <2> DEFINE rz == r \div SectorBlockSize
             zz == z \div SectorBlockSize
             cx == c \div SectorBlockSize
             xx == x \div SectorBlockSize
  <2>1. xRange = zRange /\ zRange \in Nat \ {0}
    BY <1>1 DEF GridInv
  <2>2. rz \in Int /\ zz \in Int /\ cx \in Int /\ xx \in Int
    BY <1>1, Indexed DEF GridInv
  <2>3. rz - zz \in -1..1 /\ cx - xx \in -1..1
    BY <1>1, <2>1, Touch, GridAssumption DEF GridInv, Rows, Columns
  <2>4. /\ ConvertSectorIndex(r, c) \in Indexes
        /\ ConvertSectorIndex(z, x) \in Int
        /\ ConvertSectorIndex(r, c) \in Int
    BY <1>1, Indexed DEF GridInv, Indexes
  <2>5. /\ ConvertSectorIndex(r, c) = rz * zRange + cx
        /\ ConvertSectorIndex(z, x) = zz * zRange + xx
    BY <2>1 DEF ConvertSectorIndex
  <2> HIDE DEF rz, zz, cx, xx
  <2>6. ConvertSectorIndex(r, c) - ConvertSectorIndex(z, x)
          = (rz - zz) * zRange + (cx - xx)
    <3>1. ASSUME NEW i \in Int, NEW j \in Int, NEW k \in Int, NEW l \in Int, NEW n \in Int
          PROVE  (i * n + k) - (j * n + l) = (i - j) * n + (k - l)
      OBVIOUS
    <3> QED
      BY <2>1, <2>2, <2>5, <3>1
  <2>7. (rz - zz) * zRange \in {-zRange, 0, zRange}
    <3>1. zRange \in Int
      BY <2>1
    <3>2. CASE rz - zz = -1
      BY <3>1, <3>2
    <3>3. CASE rz - zz = 0
      BY <3>1, <3>3
    <3>4. CASE rz - zz = 1
      BY <3>1, <3>4
    <3> QED
      BY <2>2, <2>3, <3>2, <3>3, <3>4
  <2>8. cx - xx \in {-1, 0, 1}
    BY <2>2, <2>3
  <2>9. (rz - zz) * zRange + (cx - xx) \in
           {0, -zRange, -zRange + 1, 1, zRange + 1, zRange, zRange - 1, -1, -1 - zRange}
    BY <2>1, <2>7, <2>8
  <2>10. ConvertSectorIndex(r, c) - ConvertSectorIndex(z, x) \in
           {0, -zRange, -zRange + 1, 1, zRange + 1, zRange, zRange - 1, -1, -1 - zRange}
    BY <2>6, <2>9, Zenon
  <2> QED
    BY <2>1, <2>4, <2>10, Nine
<1> QED
  BY <1>1, GridTyped, PTL
=============================================================================
