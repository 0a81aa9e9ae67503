----------------------------- MODULE MCFindPath -----------------------------
(* Four by three cells that can be entered; any of the two middle columns   *)
(* closed: walls with and without a gap, bends, dead ends.                  *)
EXTENDS FindPath

Middle == {c \in Cells : c.x \in 1..2 /\ c.z < ZSize - 1}
MCTerrains == SUBSET Middle
=============================================================================
