---------------------------- MODULE MCGathering ----------------------------
(* A small map for TLC: a horizontal road, two vertical ones crossing it or   *)
(* ending at it, and a second horizontal road that continues the first; two   *)
(* objects on their way, between the grid points, and an office at a crossing.*)
(* Tenth = 3 and Speed = 13 bring a dog EPSILON beyond a border (from <<1, 1>>*)
(* down), between a border and the next cell, and to the borders.             *)
EXTENDS Gathering

CONSTANTS o1, o2

Road(x0, y0, x1, y1) == [x0 |-> x0, y0 |-> y0, x1 |-> x1, y1 |-> y1]

MCRoads == {Road(0, 0, 2, 0), Road(1, -1, 1, 1), Road(2, 0, 2, 1), Road(3, 0, 2, 0)}
MCSpawns == {<<0, 0>>, <<1, 1>>}
MCObjects == {o1, o2}
MCPlaces == [o \in MCObjects |-> IF o = o1 THEN <<26, 0>> ELSE <<9, 9>>]
MCOffices == {<<1, 0>>}
MCDeltas == {-1, 1, 4}
=============================================================================
