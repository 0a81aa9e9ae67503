---------------------- MODULE DBConnectionPool_proofs ----------------------
(***************************************************************************)
(* For any number of threads and connections: no connection is shared,     *)
(* none is lost, and no more are made than threads.                        *)
(***************************************************************************)
EXTENDS DBConnectionPool, FiniteSetTheorems, FunctionTheorems,
        SequenceTheorems, TLAPS

TypeOK ==
    /\ made \in Nat
    /\ dbConnections \in Seq(1..made)
    /\ con \in [Threads -> 1..made \cup {None}]
    /\ prepared \in [1..made -> Threads \cup {None}]

\* A query is only on the connection of the thread it belongs to.
QueryHeld ==
    \A c \in 1..made : prepared[c] # None => con[prepared[c]] = c

IInv == TypeOK /\ QueryHeld /\ Exclusive /\ Bounded

\* When the pool is empty and a thread has no connection, the others have them
\* all, one each: there are fewer than threads.
LEMMA EmptyPool ==
    ASSUME IInv, NEW t \in Threads, con[t] = None, dbConnections = << >>
    PROVE  made + 1 <= Cardinality(Threads)
<1> DEFINE others == Threads \ {t}
           holder == [c \in 1..made |-> CHOOSE u \in Threads : con[u] = c]
<1>1. \A c \in 1..made : \E u \in Threads : con[u] = c
  BY DEF IInv, Bounded, Borrowed, Idle
<1>2. \A c \in 1..made : holder[c] \in Threads /\ con[holder[c]] = c
  BY <1>1
<1>3. holder \in [1..made -> others]
  BY <1>2, NoneAssumption DEF IInv, TypeOK
<1>4. holder \in Injection(1..made, others)
  BY <1>2, <1>3 DEF Injection, IsInjective
<1>5. IsFiniteSet(others) /\ Cardinality(others) = Cardinality(Threads) - 1
  BY ThreadAssumption, FS_RemoveElement
<1>6. Cardinality(1..made) <= Cardinality(others)
  BY <1>4, <1>5, FS_Injection
<1>7. made \in Nat /\ Cardinality(1..made) = made
  BY FS_Interval DEF IInv, TypeOK
<1>8. Cardinality(Threads) \in Nat
  BY ThreadAssumption, FS_CardinalityType
<1> QED
  BY <1>5, <1>6, <1>7, <1>8

\* At the start all connections are idle.
LEMMA InitIInv == Init => IInv
<1> SUFFICES ASSUME Init PROVE IInv
  OBVIOUS
<1>1. dbConnections \in Seq(1..made) /\ Len(dbConnections) = InitCount
  BY CountAssumption DEF Init
<1>2. Idle = 1..made
  BY <1>1, CountAssumption DEF Init, Idle
<1> QED
  BY <1>1, <1>2, CountAssumption, NoneAssumption
     DEF Init, IInv, TypeOK, QueryHeld, Exclusive, Bounded, Borrowed

\* Pop of an idle connection.
LEMMA PopIdleStep ==
    ASSUME IInv, NEW t \in Threads, PopIdle(t)
    PROVE  IInv'
<1> USE NoneAssumption DEF IInv
<1>1. /\ Len(dbConnections) \in Nat \ {0}
      /\ \A i \in 1..Len(dbConnections) : dbConnections[i] \in 1..made
      /\ Head(dbConnections) = dbConnections[1]
  BY LenProperties, EmptySeq DEF PopIdle, TypeOK
<1>2. /\ dbConnections' \in Seq(1..made)
      /\ Len(dbConnections') = Len(dbConnections) - 1
      /\ \A i \in 1..Len(dbConnections') :
            dbConnections'[i] = dbConnections[i + 1]
  BY HeadTailProperties DEF PopIdle, Rest, TypeOK
<1>3. /\ con' = [con EXCEPT ![t] = dbConnections[1]]
      /\ con[t] = None /\ UNCHANGED <<made, prepared>>
  BY <1>1 DEF PopIdle
<1>4. TypeOK'
  BY <1>1, <1>2, <1>3 DEF TypeOK
<1>5. \A i, j \in 1..Len(dbConnections) :
        dbConnections[i] = dbConnections[j] => i = j
  BY DEF Exclusive
<1>6. Idle' = Idle \ {dbConnections[1]}
  <2>1. \A i \in 1..Len(dbConnections') :
          /\ i + 1 \in 1..Len(dbConnections) /\ i + 1 # 1
          /\ dbConnections'[i] = dbConnections[i + 1]
    BY <1>1, <1>2
  <2>2. 1 \in 1..Len(dbConnections)
    BY <1>1
  <2>3. \A i \in 1..Len(dbConnections) :
          i # 1 => /\ i - 1 \in 1..Len(dbConnections')
                   /\ dbConnections'[i - 1] = dbConnections[i]
    BY <1>1, <1>2
  <2>4. Idle' \subseteq Idle \ {dbConnections[1]}
    BY <1>5, <2>1, <2>2 DEF Idle
  <2>5. Idle \ {dbConnections[1]} \subseteq Idle'
    BY <2>3 DEF Idle
  <2> QED
    BY <2>4, <2>5
<1>7. dbConnections[1] \in Idle /\ dbConnections[1] \notin Borrowed
  BY <1>1 DEF Exclusive, Idle
<1>8. Borrowed' = Borrowed \cup {dbConnections[1]}
  BY <1>1, <1>3 DEF Borrowed, TypeOK
<1>9. prepared[dbConnections[1]] = None
  BY <1>1, <1>7 DEF QueryHeld, Borrowed, TypeOK
<1>10. QueryHeld'
  BY <1>3 DEF QueryHeld, TypeOK
<1>11. Exclusive'
  <2>1. \A i, j \in 1..Len(dbConnections') :
          dbConnections'[i] = dbConnections'[j] => i = j
    BY <1>1, <1>2, <1>5
  <2>2. \A u, v \in Threads : con'[u] # None /\ con'[u] = con'[v] => u = v
    BY <1>3, <1>7 DEF Exclusive, Borrowed, TypeOK
  <2>3. \A u \in Threads : con'[u] # None => prepared'[con'[u]] \in {None, u}
    BY <1>3, <1>9 DEF Exclusive, TypeOK
  <2>4. Borrowed' \cap Idle' = {}
    BY <1>6, <1>8 DEF Exclusive
  <2> QED
    BY <2>1, <2>2, <2>3, <2>4 DEF Exclusive
<1>12. Bounded'
  BY <1>3, <1>6, <1>7, <1>8 DEF Bounded
<1> QED
  BY <1>4, <1>10, <1>11, <1>12

\* Pop with an empty pool makes one connection more.
LEMMA PopNewStep ==
    ASSUME IInv, NEW t \in Threads, PopNew(t)
    PROVE  IInv'
<1> USE NoneAssumption DEF IInv
<1>1. made + 1 <= Cardinality(Threads)
  BY EmptyPool DEF PopNew
<1>2. /\ made \in Nat /\ made' = made + 1 /\ dbConnections = << >>
      /\ dbConnections' = << >> /\ con[t] = None
      /\ con' = [con EXCEPT ![t] = made + 1]
      /\ prepared' = [c \in 1..(made + 1) |->
                        IF c \in 1..made THEN prepared[c] ELSE None]
  BY DEF PopNew, TypeOK
<1>3. /\ 1..made \subseteq 1..made' /\ made + 1 \in 1..made'
      /\ made + 1 \notin 1..made /\ 1..made' = 1..made \cup {made + 1}
  BY <1>2
<1>4. /\ dbConnections' \in Seq(1..made')
      /\ Len(dbConnections) = 0 /\ Len(dbConnections') = 0
  BY <1>2, EmptySeq
<1>5. TypeOK'
  BY <1>2, <1>3, <1>4 DEF TypeOK
<1>6. Idle = {} /\ Idle' = {}
  BY <1>4 DEF Idle
<1>7. Borrowed' = Borrowed \cup {made + 1}
  BY <1>2, <1>3 DEF Borrowed, TypeOK
<1>8. QueryHeld'
  BY <1>2, <1>3 DEF QueryHeld, TypeOK
<1>9. Exclusive'
  <2>1. \A u, v \in Threads : con'[u] # None /\ con'[u] = con'[v] => u = v
    BY <1>2, <1>3 DEF Exclusive, TypeOK
  <2>2. \A u \in Threads : con'[u] # None => prepared'[con'[u]] \in {None, u}
    BY <1>2, <1>3 DEF Exclusive, TypeOK
  <2> QED
    BY <1>4, <1>6, <2>1, <2>2 DEF Exclusive
<1>10. Bounded'
  BY <1>1, <1>2, <1>3, <1>6, <1>7 DEF Bounded
<1> QED
  BY <1>5, <1>8, <1>9, <1>10

\* A query on a borrowed connection.
LEMMA PrepareStep ==
    ASSUME IInv, NEW t \in Threads, Prepare(t)
    PROVE  IInv'
<1> USE NoneAssumption DEF IInv, Prepare
<1>1. TypeOK'
  BY DEF TypeOK
<1>2. QueryHeld'
  BY DEF QueryHeld, TypeOK
<1>3. Exclusive'
  <2>1. UNCHANGED <<dbConnections, con>>
    OBVIOUS
  <2>2. \A u \in Threads : con[u] # None => prepared'[con[u]] \in {None, u}
    <3>1. \A u \in Threads \ {t} : con[u] # con[t]
      BY DEF Exclusive
    <3> QED
      BY <3>1 DEF Exclusive, TypeOK
  <2> QED
    BY <2>1, <2>2 DEF Exclusive, Borrowed, Idle
<1>4. Bounded'
  BY DEF Bounded, Borrowed, Idle
<1> QED
  BY <1>1, <1>2, <1>3, <1>4

\* The connection goes back.
LEMMA PushStep ==
    ASSUME IInv, NEW t \in Threads, Push(t)
    PROVE  IInv'
<1> USE NoneAssumption DEF IInv
<1> DEFINE c == con[t]
<1>1. /\ c \in 1..made /\ prepared[c] = t
      /\ prepared' = [prepared EXCEPT ![c] = None]
      /\ con' = [con EXCEPT ![t] = None] /\ made' = made
  BY DEF Push, TypeOK
<1>2. /\ Len(dbConnections) \in Nat
      /\ dbConnections' \in Seq(1..made)
      /\ Len(dbConnections') = Len(dbConnections) + 1
      /\ \A i \in 1..Len(dbConnections) : dbConnections'[i] = dbConnections[i]
      /\ dbConnections'[Len(dbConnections) + 1] = c
  BY <1>1, AppendProperties, LenProperties DEF Push, Returned, TypeOK
<1>3. TypeOK'
  BY <1>1, <1>2 DEF TypeOK
<1>4. c \in Borrowed /\ c \notin Idle
  BY <1>1 DEF Borrowed, Exclusive
<1> HIDE DEF c
<1>5. Idle' = Idle \cup {c}
  <2>1. \A i \in 1..Len(dbConnections') :
          i \in 1..Len(dbConnections) \/ i = Len(dbConnections) + 1
    BY <1>2
  <2>2. /\ Len(dbConnections) + 1 \in 1..Len(dbConnections')
        /\ \A i \in 1..Len(dbConnections) : i \in 1..Len(dbConnections')
    BY <1>2
  <2> QED
    BY <1>2, <2>1, <2>2 DEF Idle
<1>6. Borrowed' = Borrowed \ {c}
  BY <1>1 DEF Borrowed, Exclusive, TypeOK, c
<1>7. QueryHeld'
  BY <1>1 DEF QueryHeld, TypeOK, c
<1>8. Exclusive'
  <2>1. \A i, j \in 1..Len(dbConnections') :
          dbConnections'[i] = dbConnections'[j] => i = j
    BY <1>2, <1>4 DEF Exclusive, Idle
  <2>2. \A u, v \in Threads : con'[u] # None /\ con'[u] = con'[v] => u = v
    BY <1>1 DEF Exclusive, TypeOK
  <2>3. \A u \in Threads : con'[u] # None => prepared'[con'[u]] \in {None, u}
    BY <1>1 DEF Exclusive, TypeOK
  <2>4. Borrowed' \cap Idle' = {}
    BY <1>5, <1>6 DEF Exclusive
  <2> QED
    BY <2>1, <2>2, <2>3, <2>4 DEF Exclusive
<1>9. Bounded'
  BY <1>1, <1>4, <1>5, <1>6 DEF Bounded
<1> QED
  BY <1>3, <1>7, <1>8, <1>9

\* The invariant holds throughout.
LEMMA IInvCorrect == Spec => []IInv
<1>1. IInv /\ UNCHANGED vars => IInv'
  <2> HAVE IInv /\ UNCHANGED vars
  <2>1. UNCHANGED <<dbConnections, made, con, prepared>>
    BY DEF vars
  <2>2. TypeOK' /\ QueryHeld'
    BY <2>1 DEF IInv, TypeOK, QueryHeld
  <2>3. Idle' = Idle /\ Borrowed' = Borrowed
    BY <2>1 DEF Idle, Borrowed
  <2> QED
    BY <2>1, <2>2, <2>3 DEF IInv, Exclusive, Bounded
<1>2. IInv /\ Next => IInv'
  BY PopIdleStep, PopNewStep, PrepareStep, PushStep DEF Next
<1> QED
  BY <1>1, <1>2, InitIInv, PTL DEF Spec

-----------------------------------------------------------------------------
\* No connection has two users, and a thread's rows answer its own query.
THEOREM NoneIsShared == Spec => []Exclusive
<1>1. IInv => Exclusive
  BY DEF IInv
<1> QED
  BY <1>1, IInvCorrect, PTL

\* No connection is lost, and more than Init made are made only up to the
\* number of threads.
THEOREM PoolIsBounded == Spec => []Bounded
<1>1. IInv => Bounded
  BY DEF IInv
<1> QED
  BY <1>1, IInvCorrect, PTL
=============================================================================
