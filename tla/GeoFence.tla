------------------------------ MODULE GeoFence ------------------------------
(***************************************************************************)
(* The endless loop of geo_fence_task_func(): take the position, and test  *)
(* it against the seven polygons of up_output.txt one after the other.     *)
(* Coordinates are whole numbers (the file has six decimals).  A float     *)
(* holds them only at the spacing of the floats around there, and the      *)
(* float arithmetic of the test adds an error of its own: any within Err   *)
(* is allowed.  What the mutexes around gps_read() do is in Telemetry.     *)
(***************************************************************************)
EXTENDS Integers, Sequences, SequencesExt, FiniteSetsExt

CONSTANTS
    Files,     \* the possible contents of up_output.txt, a sequence of lines
    Fixes,     \* the points <<x, y>> the bus can be at
    NoFix,     \* the coordinates of gpsd without a fix, which are NaN
    UlpX,      \* the spacing of the floats at the longitudes of the file
    UlpY,      \* the same at its latitudes
    Err        \* bound on the error of the sum in GeoFence.c:39

ASSUME FileAssumption == \A f \in Files : f \in Seq(Seq(Int))
ASSUME FixAssumption == Fixes \subseteq Int \X Int
ASSUME FloatAssumption == UlpX \in Nat \ {0} /\ UlpY \in Nat \ {0} /\ Err \in Nat

Corners == 5          \* polyCorners
LastLine == 7         \* the loop ends before 8

VARIABLES
    file,    \* the lines of up_output.txt, each the numbers sscanf() can read in it
    poly,    \* polyX and polyY: the corners in use
    pos,     \* x and y
    line,    \* i, the line to test next; beyond LastLine between two scans
    past,    \* i_past_value
    ended,   \* exit(EXIT_FAILURE) has ended the process
    hits     \* history: the lines of this scan the point was found inside

vars == << file, poly, pos, line, past, ended, hits >>

-----------------------------------------------------------------------------
(* GeoFence.c                                                              *)

\* The float nearest to v where floats are u apart.
Stored(v, u) == u * ((v + u \div 2) \div u)

\* readPolygonFromFile(): up to ten numbers are scanned into floats, and what a
\* short line does not have stays as the line before left it.
Scanned(old, numbers) ==
    [c \in 1 .. Corners |->
        << IF 2 * c - 1 <= Len(numbers)
              THEN Stored(numbers[2 * c - 1], UlpX) ELSE old[c][1],
           IF 2 * c <= Len(numbers)
              THEN Stored(numbers[2 * c], UlpY) ELSE old[c][2] >>]

Before(c) == IF c = 1 THEN Corners ELSE c - 1      \* j

\* Mutant: both ends count when they are at the height of the point.
StraddlesClosed(p, c, pt) ==
    LET yi == p[c][2]  yj == p[Before(c)][2]
    IN  yi # yj /\ ((yi <= pt[2] /\ yj >= pt[2]) \/ (yj <= pt[2] /\ yi >= pt[2]))

\* Edge (c, j) leads from below the point to its height or above, or back.
Straddles(p, c, pt) ==
    LET yi == p[c][2]  yj == p[Before(c)][2]
    IN  (yi < pt[2] /\ yj >= pt[2]) \/ (yj < pt[2] /\ yi >= pt[2])

\* The edge does not lie right of the point altogether.
NotRight(p, c, pt) == p[c][1] <= pt[1] \/ p[Before(c)][1] <= pt[1]

\* xi + (y - yi) / (yj - yi) * (xj - xi) < x when err is added on the left.
CrossesLeft(p, c, pt, err) ==
    LET xi == p[c][1]  yi == p[c][2]  xj == p[Before(c)][1]  yj == p[Before(c)][2]
        lhs == (pt[2] - yi) * (xj - xi)
        rhs == (pt[1] - err - xi) * (yj - yi)
    IN  IF yj > yi THEN lhs < rhs ELSE lhs > rhs

\* The edges counted when every sum is off by err.
Crossed(p, pt, err) == { c \in 1 .. Corners :
    Straddles(p, c, pt) /\ NotRight(p, c, pt) /\ CrossesLeft(p, c, pt, err) }

\* oddNodes: an odd number of edges is crossed to the left of the point; the set of
\* the answers that some rounding of the sums gives.  Every comparison with NaN is
\* false.
pointInPolygon(p, pt) ==
    IF pt = NoFix THEN {FALSE}
    ELSE { Cardinality(S) % 2 = 1 : S \in { T \in SUBSET Crossed(p, pt, -Err) :
                                            Crossed(p, pt, Err) \subseteq T } }

\* generatePolygonVertices(): a regular pentagon of the up route's radius,
\* 100 / 111325 of a degree, around a stop, in millionths of a degree.  The stop is
\* taken at a whole millionth; around others, printing puts a number one off.
generatePolygonVertices(x, y) ==
    << x + 898, y, x + 278, y + 854, x - 727, y + 528, x - 727, y - 528, x + 278, y - 854 >>

-----------------------------------------------------------------------------
Init ==
    /\ file \in Files
    /\ poly = [c \in 1 .. Corners |-> << 0, 0 >>]
    /\ pos = NoFix /\ line = LastLine + 1 /\ past = 0
    /\ ended = FALSE /\ hits = {}

\* gps_read() succeeds: x and y are the position, as floats, or NaN without a fix.
Poll ==
    /\ ~ended /\ line > LastLine
    /\ \/ pos' = NoFix
       \/ \E pt \in Fixes : pos' = << Stored(pt[1], UlpX), Stored(pt[2], UlpY) >>
    /\ line' = 1 /\ hits' = {}
    /\ UNCHANGED << file, poly, past, ended >>

PollFails ==
    /\ ~ended /\ line > LastLine
    /\ ended' = TRUE
    /\ UNCHANGED << file, poly, pos, line, past, hits >>

\* No such file, or fewer lines: the process exits.
NoLine ==
    /\ ~ended /\ line <= LastLine /\ line > Len(file)
    /\ ended' = TRUE
    /\ UNCHANGED << file, poly, pos, line, past, hits >>

\* Mutant: only a later stop of the route is remembered.
TestLineForward ==
    /\ ~ended /\ line <= LastLine /\ line <= Len(file)
    /\ poly' = Scanned(poly, file[line])
    /\ \E inside \in pointInPolygon(poly', pos) :
          IF inside
          THEN hits' = hits \cup {line} /\ past' = IF past < line THEN line ELSE past
          ELSE UNCHANGED << hits, past >>
    /\ line' = line + 1
    /\ UNCHANGED << file, pos, ended >>

\* One pass of the for loop.  Inside a fence other than the last one the task
\* sleeps for a second and remembers the line.
TestLine ==
    /\ ~ended /\ line <= LastLine /\ line <= Len(file)
    /\ poly' = Scanned(poly, file[line])
    /\ \E inside \in pointInPolygon(poly', pos) :
          IF inside
          THEN hits' = hits \cup {line} /\ past' = line
          ELSE UNCHANGED << hits, past >>
    /\ line' = line + 1
    /\ UNCHANGED << file, pos, ended >>

Next == Poll \/ PollFails \/ NoLine \/ TestLine

Spec == Init /\ [][Next]_vars

-----------------------------------------------------------------------------
(* Properties.                                                             *)

\* The corners that a complete line draws, as floats.
Drawn(numbers) == [c \in 1 .. Corners |->
    << Stored(numbers[2 * c - 1], UlpX), Stored(numbers[2 * c], UlpY) >>]

Complete(i) == Len(file[i]) = 2 * Corners
Fence(i) == Drawn(file[i])

\* The reference: which side of the edge into corner c the point is on.
Side(p, c, pt) ==
    LET a == p[Before(c)]  b == p[c]
    IN  (b[1] - a[1]) * (pt[2] - a[2]) - (b[2] - a[2]) * (pt[1] - a[1])
Within(p, pt) == \A c \in 1 .. Corners : Side(p, c, pt) > 0
Beyond(p, pt) == \E c \in 1 .. Corners : Side(p, c, pt) < 0

\* Every corner is to the left of every edge, or on its line.
Convex(p) == \A c, d \in 1 .. Corners : Side(p, c, p[d]) >= 0

\* What lies between the ends of edge c in height: its rise, or its fall.
Rise(p, c) == p[c][2] - p[Before(c)][2]

\* The point is further than Err, to the east or the west, from every edge that
\* comes past its height.
Clear(p, pt) ==
    \A c \in 1 .. Corners : Straddles(p, c, pt) =>
        LET reach == Err * Rise(p, c)
        IN  \/ Side(p, c, pt) > reach /\ Side(p, c, pt) > -reach
            \/ Side(p, c, pt) < reach /\ Side(p, c, pt) < -reach

\* For a convex fence whose line is complete, and however floats round, the test
\* says inside of every point left of all its edges and outside of every one right of
\* some edge, points at the height of a corner too, unless the point is closer to an
\* edge than the float arithmetic resolves; and it says outside of a bus without a
\* fix.  Short lines and earlier scans have left other corners behind meanwhile.
FenceTestIsRight ==
    \A i \in 1 .. line - 1 : i <= Len(file) /\ Complete(i) /\ Convex(Fence(i)) =>
        IF pos = NoFix THEN i \notin hits
        ELSE Clear(Fence(i), pos) => /\ Within(Fence(i), pos) => i \in hits
                                     /\ Beyond(Fence(i), pos) => i \notin hits

\* After a scan the remembered stop is the last fence in the order of the route
\* that contains the bus, however fences overlap and in whichever order it has
\* come through them; outside of all of them the stop before is kept.
CurrentStopIsLastHit ==
    line > LastLine /\ hits # {} => past = Max(hits)

=============================================================================
