---------------------------- MODULE MCSectorGrid ----------------------------
(* Square maps of one to four sectors a side, two cells to a sector.        *)
EXTENDS SectorGrid

MCMaps == {<<n, n>> : n \in 1..4}
MCWideMaps == {<<n, n>> : n \in 3..5}
=============================================================================
