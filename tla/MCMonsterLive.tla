--------------------------- MODULE MCMonsterLive ---------------------------
(* Enough monsters for all zones, and an attacker that need never tire.    *)
EXTENDS MonsterField, TLC

MCMaxSpawn == 1 :> 1 @@ 2 :> 1
MCAggressive == {2}
============================================================================
