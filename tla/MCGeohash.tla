------------------------------ MODULE MCGeohash ------------------------------
(***************************************************************************)
(* Geohash trees of at most four levels: factories with every kind of      *)
(* argument, and points at edges, corners and centres of cells.            *)
(***************************************************************************)
EXTENDS GeohashPrefixTree

Given(levels, detail, geo, lonlat) ==
  [ maxLevels |-> levels, maxDetailDist |-> detail, geo |-> geo, lonlat |-> lonlat ]

(* Distances at, above and below the sizes 512, 128 by 64, 16 and 4 by 2 of*)
(* the cells of each length.                                               *)
MCArgs ==
  { Given(l, Absent, TRUE, TRUE) : l \in 0..(MaxPrecision + 1) }
  \cup { Given(Absent, d, TRUE, TRUE) : d \in {1, 2, 3, 16, 17, 64, 65, 512, 513} }
  \cup { Given(Absent, Absent, TRUE, TRUE), Given(Absent, Absent, FALSE, TRUE),
         Given(Absent, 17, FALSE, TRUE), Given(2, Absent, FALSE, FALSE) }

SampleLongitudes == {-HalfTurn, -HalfTurn + 1, -512, 0, 2, 63, 64, 66, 256, HalfTurn - 64, HalfTurn - 2, HalfTurn}
SampleLatitudes  == {-(HalfTurn \div 2), -32, 0, 1, 256, HalfTurn \div 2}

MCPoints == { MakePoint(x, y) : x \in SampleLongitudes, y \in SampleLatitudes }
=============================================================================
