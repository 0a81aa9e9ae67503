----------------------------- MODULE SectorGrid -----------------------------
(***************************************************************************)
(* The sector arithmetic of MapManager: a position is cut into a sector    *)
(* index, and the sectors that are told of a creature are found by adding  *)
(* nine offsets to the index.  A creature walks over maps of several sizes *)
(* that are whole numbers of sectors.                                      *)
(***************************************************************************)
EXTENDS Integers, FiniteSets

CONSTANTS
    SectorBlockSize,    \* 32
    Maps                \* pairs <<_zRange, _xRange>> of map sizes in sectors

ASSUME GridAssumption ==
    SectorBlockSize \in Nat \ {0} /\ Maps \subseteq (Nat \ {0}) \X (Nat \ {0})

VARIABLES
    zRange, xRange,     \* _zRange, _xRange, set by MapLoad
    z, x                \* the creature's cell

grid == <<zRange, xRange, z, x>>

Rows == 0..(zRange * SectorBlockSize - 1)
Columns == 0..(xRange * SectorBlockSize - 1)
Indexes == 0..(xRange * zRange - 1)

\* ConvertSectorIndex of a position whose coordinates are not negative.
ConvertSectorIndex(cz, cx) ==
    (cz \div SectorBlockSize) * xRange + (cx \div SectorBlockSize)

\* _d: self, up, right up, right, right down, down, left down, left, left up.
OffsetsSeven ==
    <<0, -zRange, -zRange + 1, 1, zRange + 1, zRange, zRange - 1, -1>>
Offsets ==
    <<0, -zRange, -zRange + 1, 1, zRange + 1, zRange, zRange - 1, -1,
      -1 - zRange>>

ConvertSectorIndexAdjacentIndex(index) ==
    {index + Offsets[i] : i \in DOMAIN Offsets} \cap Indexes

GridInit ==
    /\ \E m \in Maps : zRange = m[1] /\ xRange = m[2]
    /\ z \in Rows /\ x \in Columns

\* One cell in any of the eight directions.
Walk ==
    /\ z' \in {z - 1, z, z + 1} \cap Rows
    /\ x' \in {x - 1, x, x + 1} \cap Columns
    /\ UNCHANGED <<zRange, xRange>>

GridSpec == GridInit /\ [][Walk]_grid

-----------------------------------------------------------------------------
(* Properties.                                                             *)

\* Who is told of a creature: everything within one block of it, wherever in
\* its sector the creature stands.  Holds for square maps only: the offsets
\* step by _zRange where the index steps by _xRange.
SightCovered ==
    \A cz \in Rows, cx \in Columns :
        /\ cz - z \in -SectorBlockSize..SectorBlockSize
        /\ cx - x \in -SectorBlockSize..SectorBlockSize
        => ConvertSectorIndex(cz, cx) \in
              ConvertSectorIndexAdjacentIndex(ConvertSectorIndex(z, x))

\* Being told is mutual: MapSync and ReSet let one side tell both.
AdjacentMutual ==
    \A a \in Indexes : LET here == ConvertSectorIndex(z, x) IN
        a \in ConvertSectorIndexAdjacentIndex(here)
            <=> here \in ConvertSectorIndexAdjacentIndex(a)

\* Directions of the offsets as MapManager.h names them, rows first.
Named == <<<<0, 0>>, <<-1, 0>>, <<-1, 1>>, <<0, 1>>, <<1, 1>>, <<1, 0>>,
           <<1, -1>>, <<0, -1>>, <<-1, -1>>>>

\* The comment on _d: each offset that leads to a sector leads to the
\* neighbour in the named direction.
OffsetsAsNamed ==
    LET here == ConvertSectorIndex(z, x) IN
    \A i \in DOMAIN Offsets :
        LET there == here + Offsets[i] IN
        there \in Indexes =>
            /\ there \div xRange = (here \div xRange) + Named[i][1]
            /\ there % xRange = (here % xRange) + Named[i][2]
=============================================================================
