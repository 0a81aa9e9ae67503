-------------------------- MODULE MCMonsterField --------------------------
(* Two players' hits against two monsters that two zones compete for.       *)
EXTENDS MonsterField, TLC

MCMaxSpawn == 1 :> 1 @@ 2 :> 2
MCAggressive == {2}
MCSymmetry == Permutations(Players)
============================================================================
