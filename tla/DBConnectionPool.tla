-------------------------- MODULE DBConnectionPool --------------------------
(***************************************************************************)
(* requies_server/DBConnectionPool, used by WelcomeInitPacket on the       *)
(* dispatch threads: Pop, three steps with the connection's one statement  *)
(* handle, Push.  Pop and Push run under the pool's lock; a statement      *)
(* handle is no one's but its borrower's.                                  *)
(***************************************************************************)
EXTENDS Naturals, Sequences, FiniteSets

CONSTANTS
    Threads,    \* dispatch threads
    None,
    InitCount   \* totalDbConnection of Init

ASSUME ThreadAssumption == IsFiniteSet(Threads)
ASSUME CountAssumption == InitCount \in Nat
ASSUME NoneAssumption == None \notin Nat /\ None \notin Threads

VARIABLES
    dbConnections,  \* _dbConnections, oldest first
    made,           \* connections 1..made exist
    con,            \* the connection each thread has, or None
    prepared        \* the thread whose query each connection carries, or None

vars == <<dbConnections, made, con, prepared>>

Init ==
    /\ dbConnections = [i \in 1..InitCount |-> i]
    /\ made = InitCount
    /\ con = [t \in Threads |-> None]
    /\ prepared = [c \in 1..InitCount |-> None]

\* front() and pop().
RestUnpopped == dbConnections
Rest == Tail(dbConnections)

PopIdle(t) ==
    /\ con[t] = None /\ dbConnections # << >>
    /\ con' = [con EXCEPT ![t] = Head(dbConnections)]
    /\ dbConnections' = Rest
    /\ UNCHANGED <<made, prepared>>

\* An empty pool makes one more.
PopNew(t) ==
    /\ con[t] = None /\ dbConnections = << >>
    /\ made' = made + 1
    /\ con' = [con EXCEPT ![t] = made + 1]
    /\ prepared' = [c \in 1..(made + 1) |->
                        IF c \in 1..made THEN prepared[c] ELSE None]
    /\ UNCHANGED dbConnections

\* SQLPrepare ... SQLExecute: the query and the columns of this thread.
Prepare(t) ==
    /\ con[t] # None /\ prepared[con[t]] # t
    /\ prepared' = [prepared EXCEPT ![con[t]] = t]
    /\ UNCHANGED <<dbConnections, made, con>>

ReturnedNot(t) == dbConnections
Returned(t) == Append(dbConnections, con[t])

\* SQLFetch, SQLCloseCursor, and Push.
Push(t) ==
    /\ con[t] # None /\ prepared[con[t]] = t
    /\ prepared' = [prepared EXCEPT ![con[t]] = None]
    /\ dbConnections' = Returned(t)
    /\ con' = [con EXCEPT ![t] = None]
    /\ UNCHANGED made

Next == \E t \in Threads : PopIdle(t) \/ PopNew(t) \/ Prepare(t) \/ Push(t)

Spec == Init /\ [][Next]_vars

-----------------------------------------------------------------------------
(* Properties.                                                             *)

Borrowed == {con[t] : t \in Threads} \ {None}
Idle == {dbConnections[i] : i \in 1..Len(dbConnections)}

\* The rows a thread fetches answer its own query, and no connection is with
\* two threads, or with one while it waits in the pool, or in the pool twice.
Exclusive ==
    /\ \A t \in Threads : con[t] # None => prepared[con[t]] \in {None, t}
    /\ \A t, u \in Threads : con[t] # None /\ con[t] = con[u] => t = u
    /\ Borrowed \cap Idle = {}
    /\ \A i, j \in 1..Len(dbConnections) :
        dbConnections[i] = dbConnections[j] => i = j

\* The pool grows with the demand and no further: a connection more than it
\* began with is made only when a thread more needs one.
Bounded ==
    /\ made <= InitCount \/ made <= Cardinality(Threads)
    /\ Borrowed \cup Idle = 1..made
=============================================================================
