--------------------------- MODULE TSQueue_proofs ---------------------------
(***************************************************************************)
(* For any number of dispatch threads and any events: the spin lock        *)
(* excludes, the double buffer loses and reorders nothing, and the queue   *)
(* implements FifoChannel's safety part.                                   *)
(***************************************************************************)
EXTENDS TSQueue, SequenceTheorems, TLAPS

\* A thread inside its critical section holds the lock.
LockHeld == \A t \in Threads : InCritical(t) => lock = TRUE

\* What a thread loaded is still in the buffer when it stores.
LoadedFresh == \A t \in Threads : pc[t] = "store" => loaded[t] = pushQueue

\* The main thread swaps only after it drained the buffer it had: this is why
\* the swap puts an empty buffer under the producers.
DrainedBeforeSwap ==
    pc[Consumer] \in {"home", "spin", "store"} => popQueue = << >>

IInv == /\ TypeOK /\ LockHeld /\ MutualExclusion
        /\ LoadedFresh /\ DrainedBeforeSwap /\ NothingLost

\* Appending to the last of three sequences appends to their concatenation.
LEMMA AppendToLast ==
    \A a, b, c \in Seq(Events), e \in Events :
        Append(a \o b \o c, e) = a \o b \o Append(c, e)
<1> TAKE a, b, c \in Seq(Events), e \in Events
<1>1. a \o b \in Seq(Events) /\ <<e>> \in Seq(Events)
  BY ConcatProperties
<1>2. Append((a \o b) \o c, e) = ((a \o b) \o c) \o <<e>>
  BY <1>1, AppendIsConcat
<1>3. Append(c, e) = c \o <<e>>
  BY AppendIsConcat
<1>4. ((a \o b) \o c) \o <<e>> = (a \o b) \o (c \o <<e>>)
  BY <1>1, ConcatAssociative
<1> QED
  BY <1>2, <1>3, <1>4

\* The shape of the state is preserved by every step of every thread.
LEMMA TypeCorrect == Spec => []TypeOK
<1>1. Init => TypeOK
  <2> HAVE Init
  <2>1. << >> \in Seq(Events)
    BY EmptySeq
  <2>2. pc \in [Threads -> Places]
    BY DEF Init, Places
  <2>3. loaded \in [Threads -> Seq(Events)]
    BY <2>1 DEF Init
  <2> QED
    BY <2>1, <2>2, <2>3 DEF Init, TypeOK
<1>2. TypeOK /\ [Next]_vars => TypeOK'
  <2> SUFFICES ASSUME TypeOK, [Next]_vars PROVE TypeOK'
    OBVIOUS
  <2> USE DEF TypeOK, Threads, Places, Goto
  <2>1. ASSUME NEW p \in Producers, NEW e \in Events, PushCall(p, e)
        PROVE  TypeOK'
    BY <2>1 DEF PushCall
  <2>2. ASSUME NEW p \in Producers, PushLock(p) PROVE TypeOK'
    BY <2>2 DEF PushLock, Acquire
  <2>3. ASSUME NEW p \in Producers, PushStore(p) PROVE TypeOK'
    BY <2>3 DEF PushStore
  <2>4. ASSUME NEW t \in Threads, Unlock(t) PROVE TypeOK'
    BY <2>4 DEF Unlock, Release
  <2>5. CASE PollEmpty
    BY <2>5 DEF PollEmpty
  <2>6. CASE PollFull
    BY <2>6 DEF PollFull
  <2>7. CASE SwapLock
    BY <2>7 DEF SwapLock, Acquire
  <2>8. CASE SwapStore
    BY <2>8 DEF SwapStore
  <2>9. CASE Drain
    BY <2>9 DEF Drain
  <2>10. CASE DrainDone
    BY <2>10 DEF DrainDone
  <2>11. CASE UNCHANGED vars
    BY <2>11 DEF vars
  <2> QED
    BY <2>1, <2>2, <2>3, <2>4, <2>5, <2>6, <2>7, <2>8, <2>9, <2>10, <2>11
       DEF Next, Consume, Push
<1> QED
  BY <1>1, <1>2, PTL DEF Spec

\* Only the thread that takes the free lock enters the critical section, so
\* the lock, the freshness of what was loaded and the two buffers stay right.
LEMMA StepIInv == IInv /\ TypeOK' /\ [Next]_vars => IInv'
<1> SUFFICES ASSUME IInv, TypeOK', [Next]_vars PROVE IInv'
  OBVIOUS
<1> USE ConsumerAssumption DEF IInv, LockHeld, MutualExclusion, LoadedFresh,
        DrainedBeforeSwap, NothingLost, InCritical, Threads, Goto
<1>1. ASSUME NEW p \in Producers, NEW e \in Events, PushCall(p, e)
      PROVE  IInv'
  BY <1>1 DEF PushCall, TypeOK
<1>2. ASSUME NEW p \in Producers, PushLock(p) PROVE IInv'
  BY <1>2 DEF PushLock, Acquire, TypeOK
<1>3. ASSUME NEW p \in Producers, PushStore(p) PROVE IInv'
  <2>1. LockHeld' /\ MutualExclusion' /\ LoadedFresh' /\ DrainedBeforeSwap'
    BY <1>3 DEF PushStore, TypeOK
  <2>2. NothingLost'
    <3>1. pushQueue' = Append(pushQueue, arg[p])
      BY <1>3 DEF PushStore
    <3>2. /\ pushed' = Append(pushed, arg[p])
          /\ UNCHANGED <<popQueue, applied>>
      BY <1>3 DEF PushStore
    <3>3. /\ arg[p] \in Events /\ applied \in Seq(Events)
          /\ popQueue \in Seq(Events) /\ pushQueue \in Seq(Events)
      BY DEF TypeOK
    <3>4. Append(applied \o popQueue \o pushQueue, arg[p])
            = applied \o popQueue \o Append(pushQueue, arg[p])
      BY ONLY <3>3, AppendToLast
    <3> QED
      BY <3>1, <3>2, <3>4
  <2> QED
    BY <2>1, <2>2
<1>4. ASSUME NEW t \in Threads, Unlock(t) PROVE IInv'
  BY <1>4 DEF Unlock, Release, TypeOK
<1>5. CASE PollEmpty
  BY <1>5 DEF PollEmpty, TypeOK
<1>6. CASE PollFull
  BY <1>6 DEF PollFull, TypeOK
<1>7. CASE SwapLock
  BY <1>7 DEF SwapLock, Acquire, TypeOK
<1>8. CASE SwapStore
  <2>1. LockHeld' /\ MutualExclusion' /\ LoadedFresh' /\ DrainedBeforeSwap'
    BY <1>8 DEF SwapStore, TypeOK
  <2>2. popQueue = << >> /\ loaded[Consumer] = pushQueue
    BY <1>8 DEF SwapStore
  <2>3. applied \o << >> \o pushQueue = applied \o pushQueue \o << >>
    BY DEF TypeOK
  <2>4. NothingLost'
    BY <1>8, <2>2, <2>3 DEF SwapStore
  <2> QED
    BY <2>1, <2>4
<1>9. CASE Drain
  <2>1. LockHeld' /\ MutualExclusion' /\ LoadedFresh' /\ DrainedBeforeSwap'
    BY <1>9 DEF Drain, TypeOK
  <2>2. applied \o popQueue
          = Append(applied, Head(popQueue)) \o Tail(popQueue)
    BY <1>9 DEF Drain, TypeOK
  <2>3. NothingLost'
    BY <1>9, <2>2 DEF Drain
  <2> QED
    BY <2>1, <2>3
<1>10. CASE DrainDone
  BY <1>10 DEF DrainDone, LoopDone, TypeOK
<1>11. CASE UNCHANGED vars
  BY <1>11 DEF vars
<1> QED
  BY <1>1, <1>2, <1>3, <1>4, <1>5, <1>6, <1>7, <1>8, <1>9, <1>10, <1>11
     DEF Next, Consume, Push

\* TypeOK holds in every reachable state.
THEOREM TypeSafe == Spec => []TypeOK
BY TypeCorrect

\* The conjuncts above hold together in every reachable state.
LEMMA IInvCorrect == Spec => []IInv
<1>1. Init /\ TypeOK => IInv
  BY DEF Init, IInv, LockHeld, MutualExclusion, LoadedFresh,
         DrainedBeforeSwap, NothingLost, InCritical, Threads, TypeOK
<1> QED
  BY <1>1, StepIInv, TypeCorrect, PTL DEF Spec

\* SpinLock excludes: no two threads are inside the queue's critical section.
THEOREM LockExcludes == Spec => []MutualExclusion
<1>1. IInv => MutualExclusion
  BY DEF IInv
<1> QED
  BY <1>1, IInvCorrect, PTL

\* Push, SwapQueue and the drain loop of AttackedProc hand every hit over once
\* and in push order, however the threads interleave.
THEOREM QueueLosesNothing == Spec => []NothingLost
<1>1. IInv => NothingLost
  BY DEF IInv
<1> QED
  BY <1>1, IInvCorrect, PTL

\* The store of a Push is a Put, a drained hit is a Take, and the lock, the
\* poll and the swap are invisible to a user of the queue.
THEOREM ImplementsFifo == Spec => Channel!SafeSpec
<1>1. Init => Channel!Init
  BY DEF Init, Channel!Init
<1>2. IInv /\ [Next]_vars => [Channel!Next]_(Channel!vars)
  <2> SUFFICES ASSUME IInv, [Next]_vars
               PROVE  Channel!Next \/ UNCHANGED Channel!vars
    OBVIOUS
  <2> USE DEF Channel!vars
  <2>1. ASSUME NEW p \in Producers, PushStore(p) PROVE Channel!Next
    <3>1. /\ loaded[p] = pushQueue /\ arg[p] \in Events
          /\ pushQueue \in Seq(Events) /\ popQueue \in Seq(Events)
      BY <2>1 DEF PushStore, Goto, IInv, LoadedFresh, TypeOK, Threads
    <3>2. popQueue \o Append(pushQueue, arg[p])
            = Append(popQueue \o pushQueue, arg[p])
      BY <3>1
    <3>3. Channel!Put(arg[p])
      BY <2>1, <3>1, <3>2 DEF PushStore, Channel!Put
    <3> QED
      BY <3>1, <3>3 DEF Channel!Next
  <2>2. CASE SwapStore
    <3>1. /\ popQueue = << >> /\ loaded[Consumer] = pushQueue
          /\ pushQueue \in Seq(Events)
      BY <2>2 DEF SwapStore, Goto, IInv, LoadedFresh, DrainedBeforeSwap,
                  TypeOK, Threads
    <3>2. pushQueue \o << >> = << >> \o pushQueue
      BY <3>1
    <3> QED
      BY <2>2, <3>1, <3>2 DEF SwapStore
  <2>3. CASE Drain
    <3>1. /\ popQueue # << >>
          /\ pushQueue \in Seq(Events) /\ popQueue \in Seq(Events)
      BY <2>3 DEF Drain, IInv, TypeOK
    <3>2. /\ popQueue \o pushQueue # << >>
          /\ Head(popQueue \o pushQueue) = Head(popQueue)
          /\ Tail(popQueue \o pushQueue) = Tail(popQueue) \o pushQueue
      BY <3>1
    <3>3. Channel!Take
      BY <2>3, <3>2 DEF Drain, Channel!Take
    <3> QED
      BY <3>3 DEF Channel!Next
  <2>4. ASSUME NEW p \in Producers, NEW e \in Events, PushCall(p, e)
        PROVE  UNCHANGED Channel!vars
    BY <2>4 DEF PushCall
  <2>5. ASSUME NEW p \in Producers, PushLock(p)
        PROVE  UNCHANGED Channel!vars
    BY <2>5 DEF PushLock
  <2>6. ASSUME NEW t \in Threads, Unlock(t) PROVE UNCHANGED Channel!vars
    BY <2>6 DEF Unlock
  <2>7. CASE PollEmpty \/ PollFull \/ SwapLock \/ DrainDone
    BY <2>7 DEF PollEmpty, PollFull, SwapLock, DrainDone
  <2>8. CASE UNCHANGED vars
    BY <2>8 DEF vars
  <2> QED
    BY <2>1, <2>2, <2>3, <2>4, <2>5, <2>6, <2>7, <2>8
       DEF Next, Consume, Push, Threads
<1> QED
  BY <1>1, <1>2, IInvCorrect, PTL DEF Spec, Channel!SafeSpec
=============================================================================
