---------------------------- MODULE FifoChannel ----------------------------
(***************************************************************************)
(* What a TSQueue and a RecvBuffer promise: a channel that hands every     *)
(* event over exactly once, in the order in which the pushes happened.     *)
(***************************************************************************)
EXTENDS Sequences

CONSTANT Events

VARIABLES
    queue,      \* events put and not yet taken
    taken       \* events taken so far, oldest first

vars == <<queue, taken>>

Init == queue = << >> /\ taken = << >>

Put(e) == queue' = Append(queue, e) /\ UNCHANGED taken

Take ==
    /\ queue # << >>
    /\ taken' = Append(taken, Head(queue))
    /\ queue' = Tail(queue)

Next == Take \/ \E e \in Events : Put(e)

\* The safety half of the promise, the half the proof establishes.
SafeSpec == Init /\ [][Next]_vars

\* The consumer keeps taking, so nothing stays in the channel for ever.
Spec == SafeSpec /\ WF_vars(Take)
============================================================================
