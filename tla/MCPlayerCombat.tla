--------------------------- MODULE MCPlayerCombat ---------------------------
(* A player hit by the main loop, by another player and by itself.         *)
EXTENDS PlayerCombat

MCHpMaxOf == [l \in Levels |-> l + 1]
MCTrueDamages == {-1, 2}
MCMinHp == -1
=============================================================================
