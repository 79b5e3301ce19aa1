----------------------------- MODULE MCGeoFence -----------------------------
(***************************************************************************)
(* A small instance of GeoFence: a route whose first three stops overlap;  *)
(* the same with lines cut short; a file that is one line too short; and   *)
(* seven fences that touch, with slanted edges and corners in the middle   *)
(* of a neighbour's edge.  At 76 degrees of longitude a float resolves 8   *)
(* millionths of a degree, at 10 degrees of latitude 1; the sum of the     *)
(* test is off by half its spacing and the rounding of five operations.    *)
(***************************************************************************)
EXTENDS GeoFence

MCUlpX == 8
MCUlpY == 1
MCErr == 4 * MCUlpX      \* enough for edges of up to 90 degrees

Scaled(numbers) == [k \in DOMAIN numbers |-> 50 * numbers[k]]
Touching == << Scaled(<< 0, 0,  2, 0,   4, 6,   0, 6,   0, 3 >>),
               Scaled(<< 0, 6,  4, 6,   6, 12,  0, 12,  0, 9 >>),
               Scaled(<< 2, 0,  8, 0,   8, 4,   8, 9,   3, 3 >>),
               Scaled(<< 3, 3,  8, 9,   8, 12,  6, 12,  4, 6 >>),
               Scaled(<< 8, 0,  12, 0,  12, 4,  8, 4,   8, 2 >>),
               Scaled(<< 8, 4,  12, 4,  12, 8,  8, 8,   8, 6 >>),
               Scaled(<< 8, 8,  12, 8,  12, 12, 8, 12,  8, 9 >>) >>

Stops == << << 0, 0 >>, << 1000, 0 >>, << 1000, 600 >>, << 5000, 0 >>,
            << 5000, 5000 >>, << 0, 5000 >>, << 0, 9000 >> >>
Route == [i \in 1 .. 7 |-> generatePolygonVertices(Stops[i][1], Stops[i][2])]

MCFiles == { Touching, Route,
             [Route EXCEPT ![2] = SubSeq(@, 1, 3), ![3] = <<>>, ![6] = SubSeq(@, 1, 8)],
             SubSeq(Route, 1, 6) }

MCFixes == { << 50 * i + 25, 50 * j >> : i \in 0 .. 11, j \in 0 .. 12 }
              \cup { << 250 * i, 200 * j >> : i \in -4 .. 8, j \in -5 .. 8 }
              \cup { Stops[i] : i \in DOMAIN Stops }

=============================================================================
