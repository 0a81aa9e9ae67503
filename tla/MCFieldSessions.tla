-------------------------- MODULE MCFieldSessions ---------------------------
(* Two sessions with ids of their own on a row of three sectors, of which   *)
(* only neighbours are in range: they can be near, far, and cross.          *)
EXTENDS FieldSessions, TLC

CONSTANTS s1, s2

MCUserOf == [s \in Sessions |-> s]
MCSectors == 1..3
MCAdjacent == [c \in 1..3 |-> {c - 1, c, c + 1} \cap 1..3]
MCSymmetry == Permutations(Sessions)
MCBound == Cardinality(strayed) <= 1
=============================================================================
