--------------------------- MODULE MCMonsterViews ---------------------------
(* Two monsters on a row of sectors of which neighbours are in range.       *)
EXTENDS MonsterViews, Integers

MCSectors == 1..3
MCAdjacent == [c \in 1..3 |-> {c - 1, c, c + 1} \cap 1..3]
=============================================================================
