------------------------------ MODULE TSQueue ------------------------------
(***************************************************************************)
(* requies_server/TSQueue.h over the SpinLock of mallo/Lock.h: the double  *)
(* buffer of hits every Monster owns.  The IOCP dispatch threads push; the *)
(* main thread alone swaps the two buffers and drains the one it got, in   *)
(* Monster::AttackedProc.  push_back and std::swap are not atomic: each is *)
(* a load of the buffer followed by a store, so that only the lock keeps   *)
(* two of them from overwriting one another.                               *)
(***************************************************************************)
EXTENDS Naturals, Sequences, FiniteSets

CONSTANTS
    Producers,  \* dispatch threads
    Consumer,   \* the main thread
    Events,     \* what can be pushed
    MaxPushes   \* bound: calls of Push in a behaviour

ASSUME ConsumerAssumption == Consumer \notin Producers
ASSUME MaxPushesAssumption == MaxPushes \in Nat

Threads == Producers \cup {Consumer}

VARIABLES
    lock,       \* SpinLock::_lock
    pushQueue,  \* _pushQueue
    popQueue,   \* _popQueue
    pc,         \* where each thread is
    arg,        \* the event a producer is pushing
    loaded,     \* the buffer a thread loaded inside its critical section
    pushed,     \* history: events stored, in the order of the stores
    applied     \* history: events the consumer drained, in order

vars == <<lock, pushQueue, popQueue, pc, arg, loaded, pushed, applied>>

Goto(t, from, to) == pc[t] = from /\ pc' = [pc EXCEPT ![t] = to]

\* SpinLock::Lock: the compare-and-swap succeeds only on a free lock.
AcquireUntested == lock' = TRUE
Acquire == lock = FALSE /\ lock' = TRUE

Release == lock' = FALSE

Init ==
    /\ lock = FALSE
    /\ pushQueue = << >> /\ popQueue = << >>
    /\ pc = [t \in Threads |-> "home"]
    /\ arg \in [Producers -> Events]
    /\ loaded = [t \in Threads |-> << >>]
    /\ pushed = << >> /\ applied = << >>

-----------------------------------------------------------------------------
(* Push, by a dispatch thread.                                             *)

InPush == {p \in Producers : pc[p] \in {"spin", "store"}}

PushCall(p, e) ==
    /\ Len(pushed) + Cardinality(InPush) < MaxPushes
    /\ Goto(p, "home", "spin")
    /\ arg' = [arg EXCEPT ![p] = e]
    /\ UNCHANGED <<lock, pushQueue, popQueue, loaded, pushed, applied>>

PushLock(p) ==
    /\ Goto(p, "spin", "store")
    /\ Acquire
    /\ loaded' = [loaded EXCEPT ![p] = pushQueue]
    /\ UNCHANGED <<pushQueue, popQueue, arg, pushed, applied>>

PushStore(p) ==
    /\ Goto(p, "store", "unlock")
    /\ pushQueue' = Append(loaded[p], arg[p])
    /\ pushed' = Append(pushed, arg[p])
    /\ UNCHANGED <<lock, popQueue, arg, loaded, applied>>

Unlock(t) ==
    /\ Goto(t, "unlock", IF t = Consumer THEN "drain" ELSE "home")
    /\ Release
    /\ UNCHANGED <<pushQueue, popQueue, arg, loaded, pushed, applied>>

-----------------------------------------------------------------------------
(* SwapQueue and the drain loop, by the main thread.                       *)

\* SwapQueue's empty() runs before the lock is taken.
SeesPopped == popQueue # << >>
SeesPushed == pushQueue # << >>

PollEmpty ==
    /\ ~ SeesPushed
    /\ Goto(Consumer, "home", "home")
    /\ UNCHANGED <<lock, pushQueue, popQueue, arg, loaded, pushed, applied>>

PollFull ==
    /\ SeesPushed
    /\ Goto(Consumer, "home", "spin")
    /\ UNCHANGED <<lock, pushQueue, popQueue, arg, loaded, pushed, applied>>

SwapLock ==
    /\ Goto(Consumer, "spin", "store")
    /\ Acquire
    /\ loaded' = [loaded EXCEPT ![Consumer] = pushQueue]
    /\ UNCHANGED <<pushQueue, popQueue, arg, pushed, applied>>

SwapStore ==
    /\ Goto(Consumer, "store", "unlock")
    /\ popQueue' = loaded[Consumer]
    /\ pushQueue' = popQueue
    /\ UNCHANGED <<lock, arg, loaded, pushed, applied>>

Drain ==
    /\ popQueue # << >>
    /\ Goto(Consumer, "drain", "drain")
    /\ applied' = Append(applied, Head(popQueue))
    /\ popQueue' = Tail(popQueue)
    /\ UNCHANGED <<lock, pushQueue, arg, loaded, pushed>>

\* The loop of AttackedProc ends only when PopQueueEmpty().
LoopDoneAfterOne == TRUE
LoopDone == popQueue = << >>

DrainDone ==
    /\ LoopDone
    /\ Goto(Consumer, "drain", "home")
    /\ UNCHANGED <<lock, pushQueue, popQueue, arg, loaded, pushed, applied>>

-----------------------------------------------------------------------------
Push(p) == (\E e \in Events : PushCall(p, e)) \/ PushLock(p) \/ PushStore(p)
              \/ Unlock(p)

Consume == \/ PollEmpty \/ PollFull \/ SwapLock \/ SwapStore
           \/ Unlock(Consumer) \/ Drain \/ DrainDone

Next == Consume \/ \E p \in Producers : Push(p)

\* A dispatch thread inside Push runs on, and the main loop never stops; that
\* another hit arrives is not assumed.
Fairness ==
    /\ WF_vars(Consume)
    /\ \A p \in Producers : WF_vars(PushLock(p) \/ PushStore(p) \/ Unlock(p))

Spec == Init /\ [][Next]_vars /\ Fairness

-----------------------------------------------------------------------------
Places == {"home", "spin", "store", "unlock", "drain"}

TypeOK ==
    /\ lock \in BOOLEAN
    /\ pushQueue \in Seq(Events) /\ popQueue \in Seq(Events)
    /\ pc \in [Threads -> Places]
    /\ arg \in [Producers -> Events]
    /\ loaded \in [Threads -> Seq(Events)]
    /\ pushed \in Seq(Events) /\ applied \in Seq(Events)

InCritical(t) == pc[t] \in {"store", "unlock"}

\* At most one thread is between SpinLock::Lock and SpinLock::UnLock of the
\* queue, so no push or swap is interrupted by another.
MutualExclusion ==
    \A s, t \in Threads : InCritical(s) /\ InCritical(t) => s = t

\* Every hit stored by Push is in exactly one place, and in push order:
\* already applied by AttackedProc, in the buffer being drained, or in the
\* buffer being filled.  Nothing is lost, doubled or overtaken by the swap.
NothingLost == pushed = applied \o popQueue \o pushQueue

\* The queue is a FIFO channel: a step of Push or of the drain is a Put or a
\* Take of FifoChannel, every other step is invisible, and events get taken.
Channel == INSTANCE FifoChannel WITH
              queue <- popQueue \o pushQueue, taken <- applied

IsFifoChannel == Channel!Spec
=============================================================================
