-------------------------- MODULE GeoFence_geometry --------------------------
(***************************************************************************)
(* What pointInPolygon() answers for a convex fence, for all corners, all  *)
(* points and every way floats may round: inside of the points left of     *)
(* every edge and outside of those right of some edge, as long as the      *)
(* point is further from the edges than the rounding reaches.  Without     *)
(* rounding the test says whether the place a little left of the point,    *)
(* and much less below it, is in the fence.  The lemmas argue about signs  *)
(* of cross products; the longest parts are that five corners are crossed  *)
(* at the height of the point by one edge up and one down, or are a flat   *)
(* zigzag, and that a fence just left of the point has corners below it    *)
(* and corners that are not.                                               *)
(***************************************************************************)
EXTENDS GeoFence, FiniteSetTheorems, TLAPS

Points == Int \X Int
Polygons == [1 .. Corners -> Points]

\* Corner c is below the point, and the edge into it leads up to the height of the
\* point, or down from it.
Below(p, c, pt) == p[c][2] < pt[2]
Up(p, c, pt) == Below(p, Before(c), pt) /\ ~Below(p, c, pt)
Down(p, c, pt) == ~Below(p, Before(c), pt) /\ Below(p, c, pt)

\* What the test computes when nothing is rounded.
Inside(p, pt) == pt # NoFix /\ Cardinality(Crossed(p, pt, 0)) % 2 = 1

\* The edge leads up, or it is level and leads to the left: what is left of it, or
\* below it, is on the side of the fence.
Owns(p, c) ==
    \/ p[Before(c)][2] < p[c][2]
    \/ p[Before(c)][2] = p[c][2] /\ p[c][1] < p[Before(c)][1]

\* The fence contains the place a little left of the point and much less than that
\* below it.
JustWithin(p, pt) ==
    /\ \E c \in 1 .. Corners : p[c] # p[Before(c)]
    /\ \A c \in 1 .. Corners : p[c] # p[Before(c)] =>
          Side(p, c, pt) > 0 \/ (Side(p, c, pt) = 0 /\ Owns(p, c))

\* An edge of p has all of q on its other side; the two may touch.
Apart(p, q) ==
    \E c \in 1 .. Corners :
        /\ p[c] # p[Before(c)]
        /\ \A d \in 1 .. Corners : Side(p, c, q[d]) <= 0

\* On which side of the line from a to b the point (x, y) is.
Cross(ax, ay, bx, by, x, y) == (bx - ax) * (y - ay) - (by - ay) * (x - ax)

\* The corners of a polygon and the corners before them have whole coordinates.
LEMMA Coordinates ==
    ASSUME NEW p \in Polygons
    PROVE  \A c \in 1 .. Corners :
              /\ Before(c) \in 1 .. Corners
              /\ p[c][1] \in Int /\ p[c][2] \in Int
              /\ p[Before(c)][1] \in Int /\ p[Before(c)][2] \in Int
<1>1. \A c \in 1 .. Corners : Before(c) \in 1 .. Corners
  BY DEF Before, Corners
<1>2. \A q \in Points : q[1] \in Int /\ q[2] \in Int
  BY DEF Points
<1> QED
  BY <1>1, <1>2 DEF Polygons

\* What CrossesLeft and NotRight say of an edge that comes up to the height of the
\* point or above: it is crossed left of the point exactly when the point is right of
\* it, and then it does not lie right of the point altogether.
LEMMA RisingEdge ==
    ASSUME NEW xi \in Int, NEW yi \in Int, NEW xj \in Int, NEW yj \in Int,
           NEW x \in Int, NEW y \in Int, yj < y, yi >= y
    PROVE  /\ (y - yi) * (xj - xi) > (x - xi) * (yj - yi) <=> Cross(xj, yj, xi, yi, x, y) < 0
           /\ Cross(xj, yj, xi, yi, x, y) < 0 => xi <= x \/ xj <= x
<1>1. (y - yi) * (xj - xi) - (x - xi) * (yj - yi) = - Cross(xj, yj, xi, yi, x, y)
  BY DEF Cross
<1>2. Cross(xj, yj, xi, yi, x, y) = (xj - x) * (yi - y) + (y - yj) * (xi - x)
  BY DEF Cross
<1>3. xj > x /\ xi > x => (xj - x) * (yi - y) >= 0 /\ (y - yj) * (xi - x) >= 0
  OBVIOUS
<1>4. Cross(xj, yj, xi, yi, x, y) \in Int
  BY DEF Cross
<1> QED
  BY <1>1, <1>2, <1>3, <1>4

\* The same of an edge that goes down from there: it is crossed left of the point
\* exactly when the point is left of the edge in its direction.
LEMMA FallingEdge ==
    ASSUME NEW xi \in Int, NEW yi \in Int, NEW xj \in Int, NEW yj \in Int,
           NEW x \in Int, NEW y \in Int, yj >= y, yi < y
    PROVE  /\ (y - yi) * (xj - xi) < (x - xi) * (yj - yi) <=> Cross(xj, yj, xi, yi, x, y) > 0
           /\ Cross(xj, yj, xi, yi, x, y) > 0 => xi <= x \/ xj <= x
<1>1. (y - yi) * (xj - xi) - (x - xi) * (yj - yi) = - Cross(xj, yj, xi, yi, x, y)
  BY DEF Cross
<1>2. Cross(xj, yj, xi, yi, x, y) = - ((xj - x) * (y - yi) + (yj - y) * (xi - x))
  BY DEF Cross
<1>3. xj > x /\ xi > x => (xj - x) * (y - yi) >= 0 /\ (yj - y) * (xi - x) >= 0
  OBVIOUS
<1>4. Cross(xj, yj, xi, yi, x, y) \in Int
  BY DEF Cross
<1> QED
  BY <1>1, <1>2, <1>3, <1>4

\* The edges Inside() counts, in terms of the side the point is on.
LEMMA EdgeTest ==
    ASSUME NEW p \in Polygons, NEW pt \in Points, NEW c \in 1 .. Corners
    PROVE  c \in Crossed(p, pt, 0) <=> \/ Up(p, c, pt) /\ Side(p, c, pt) < 0
                                       \/ Down(p, c, pt) /\ Side(p, c, pt) > 0
<1>1. PICK xi \in Int, yi \in Int, xj \in Int, yj \in Int :
         /\ p[c][1] = xi /\ p[c][2] = yi
         /\ p[Before(c)][1] = xj /\ p[Before(c)][2] = yj
  BY Coordinates
<1>2. PICK x \in Int, y \in Int : pt[1] = x /\ pt[2] = y
  BY DEF Points
<1>3. Side(p, c, pt) = Cross(xj, yj, xi, yi, x, y)
  BY <1>1, <1>2 DEF Side, Cross
<1>4. Cross(xj, yj, xi, yi, x, y) \in Int
  BY DEF Cross
<1>5. CASE Up(p, c, pt)
  <2>1. yj < y /\ yi >= y
    BY <1>1, <1>2, <1>5 DEF Up, Below
  <2>2. Straddles(p, c, pt) /\ ~ Down(p, c, pt)
    BY <1>1, <1>2, <2>1 DEF Straddles, Down, Below
  <2>3. /\ (y - yi) * (xj - xi) > (x - xi) * (yj - yi)
              <=> Cross(xj, yj, xi, yi, x, y) < 0
        /\ Cross(xj, yj, xi, yi, x, y) < 0 => xi <= x \/ xj <= x
    BY ONLY <2>1, RisingEdge
  <2>4. CrossesLeft(p, c, pt, 0) <=> Cross(xj, yj, xi, yi, x, y) < 0
    BY <1>1, <1>2, <2>1, <2>3 DEF CrossesLeft
  <2>5. Cross(xj, yj, xi, yi, x, y) < 0 => NotRight(p, c, pt)
    BY <1>1, <1>2, <2>3 DEF NotRight
  <2> QED
    BY <1>3, <1>5, <2>2, <2>4, <2>5 DEF Crossed
<1>6. CASE Down(p, c, pt)
  <2>1. yj >= y /\ yi < y
    BY <1>1, <1>2, <1>6 DEF Down, Below
  <2>2. Straddles(p, c, pt) /\ ~ Up(p, c, pt)
    BY <1>1, <1>2, <2>1 DEF Straddles, Up, Below
  <2>3. /\ (y - yi) * (xj - xi) < (x - xi) * (yj - yi)
              <=> Cross(xj, yj, xi, yi, x, y) > 0
        /\ Cross(xj, yj, xi, yi, x, y) > 0 => xi <= x \/ xj <= x
    BY ONLY <2>1, FallingEdge
  <2>4. CrossesLeft(p, c, pt, 0) <=> Cross(xj, yj, xi, yi, x, y) > 0
    BY <1>1, <1>2, <2>1, <2>3 DEF CrossesLeft
  <2>5. Cross(xj, yj, xi, yi, x, y) > 0 => NotRight(p, c, pt)
    BY <1>1, <1>2, <2>3 DEF NotRight
  <2> QED
    BY <1>3, <1>6, <2>2, <2>4, <2>5 DEF Crossed
<1>7. CASE ~ Up(p, c, pt) /\ ~ Down(p, c, pt)
  <2>1. ~ Straddles(p, c, pt)
    BY <1>1, <1>2, <1>7 DEF Straddles, Up, Down, Below
  <2> QED
    BY <1>7, <2>1 DEF Crossed
<1> QED
  BY <1>5, <1>6, <1>7

\* The edge into e keeps to one side of the height, the four others cross it.
Zigzag(p, e, pt) ==
    /\ Before(e) # e
    /\ Below(p, e, pt) <=> Below(p, Before(e), pt)
    /\ \A c \in (1 .. Corners) \ {e} : Below(p, c, pt) <=> ~ Below(p, Before(c), pt)

\* Going around the five corners: all are below the height, none is, one edge leads
\* up and one down, or the edges zigzag.
LEMMA Round ==
    ASSUME NEW p, NEW pt
    PROVE  \/ \A c \in 1 .. Corners : Below(p, c, pt)
           \/ \A c \in 1 .. Corners : ~ Below(p, c, pt)
           \/ \E u, d \in 1 .. Corners :
                 /\ Up(p, u, pt) /\ Down(p, d, pt)
                 /\ \A c \in 1 .. Corners : (Up(p, c, pt) => c = u) /\ (Down(p, c, pt) => c = d)
           \/ \E e \in 1 .. Corners : Zigzag(p, e, pt)
<1> DEFINE b(c) == Below(p, c, pt)
<1>1. 1 .. Corners = {1, 2, 3, 4, 5}
  BY DEF Corners
<1>2. Before(1) = 5 /\ Before(2) = 1 /\ Before(3) = 2 /\ Before(4) = 3 /\ Before(5) = 4
  BY DEF Before, Corners
<1>3. /\ Up(p, 1, pt) <=> b(5) /\ ~b(1)
      /\ Up(p, 2, pt) <=> b(1) /\ ~b(2)
      /\ Up(p, 3, pt) <=> b(2) /\ ~b(3)
      /\ Up(p, 4, pt) <=> b(3) /\ ~b(4)
      /\ Up(p, 5, pt) <=> b(4) /\ ~b(5)
  BY <1>2 DEF Up
<1>4. /\ Down(p, 1, pt) <=> ~b(5) /\ b(1)
      /\ Down(p, 2, pt) <=> ~b(1) /\ b(2)
      /\ Down(p, 3, pt) <=> ~b(2) /\ b(3)
      /\ Down(p, 4, pt) <=> ~b(3) /\ b(4)
      /\ Down(p, 5, pt) <=> ~b(4) /\ b(5)
  BY <1>2 DEF Down
<1>5. /\ Zigzag(p, 1, pt) <=> (b(1) <=> b(5)) /\ (b(2) <=> ~b(1)) /\ (b(3) <=> ~b(2)) /\ (b(4) <=> ~b(3)) /\ (b(5) <=> ~b(4))
      /\ Zigzag(p, 2, pt) <=> (b(2) <=> b(1)) /\ (b(1) <=> ~b(5)) /\ (b(3) <=> ~b(2)) /\ (b(4) <=> ~b(3)) /\ (b(5) <=> ~b(4))
      /\ Zigzag(p, 3, pt) <=> (b(3) <=> b(2)) /\ (b(1) <=> ~b(5)) /\ (b(2) <=> ~b(1)) /\ (b(4) <=> ~b(3)) /\ (b(5) <=> ~b(4))
      /\ Zigzag(p, 4, pt) <=> (b(4) <=> b(3)) /\ (b(1) <=> ~b(5)) /\ (b(2) <=> ~b(1)) /\ (b(3) <=> ~b(2)) /\ (b(5) <=> ~b(4))
      /\ Zigzag(p, 5, pt) <=> (b(5) <=> b(4)) /\ (b(1) <=> ~b(5)) /\ (b(2) <=> ~b(1)) /\ (b(3) <=> ~b(2)) /\ (b(4) <=> ~b(3))
  BY <1>1, <1>2 DEF Zigzag
<1> HIDE DEF b
<1>6. (\A c \in 1 .. Corners : b(c)) \/ (\A c \in 1 .. Corners : ~ b(c))
        \/ ((\E u \in 1 .. Corners : Up(p, u, pt)) /\ (\E d \in 1 .. Corners : Down(p, d, pt)))
  BY ONLY <1>1, <1>3, <1>4
<1>7. ASSUME NEW c \in 1 .. Corners, NEW d \in 1 .. Corners, c # d,
             Up(p, c, pt), Up(p, d, pt)
      PROVE  \E e \in 1 .. Corners : Zigzag(p, e, pt)
  BY ONLY <1>1, <1>3, <1>5, <1>7
<1>8. ASSUME NEW c \in 1 .. Corners, NEW d \in 1 .. Corners, c # d,
             Down(p, c, pt), Down(p, d, pt)
      PROVE  \E e \in 1 .. Corners : Zigzag(p, e, pt)
  BY ONLY <1>1, <1>4, <1>5, <1>8
<1> QED
  BY <1>6, <1>7, <1>8 DEF b

-----------------------------------------------------------------------------
\* Of three directions in the upper half plane, each not to the right of the one
\* before, the last is not to the right of the first.
LEMMA Turn ==
    ASSUME NEW ux \in Int, NEW uy \in Int, NEW vx \in Int, NEW vy \in Int,
           NEW wx \in Int, NEW wy \in Int, uy > 0, vy > 0, wy > 0,
           ux * vy - uy * vx >= 0, vx * wy - vy * wx >= 0
    PROVE  ux * wy - uy * wx >= 0
<1> DEFINE uv == ux * vy - uy * vx
           vw == vx * wy - vy * wx
           uw == ux * wy - uy * wx
<1>1. uw * vy = vw * uy + uv * wy
  OBVIOUS
<1>2. uv \in Int /\ vw \in Int /\ uw \in Int /\ uv >= 0 /\ vw >= 0
  OBVIOUS
<1> HIDE DEF uv, vw, uw
<1>3. vw * uy >= 0 /\ uv * wy >= 0
  BY ONLY <1>2, uy > 0, wy > 0, uy \in Int, wy \in Int
<1>4. uw * vy >= 0
  BY ONLY <1>1, <1>2, <1>3, uy \in Int, vy \in Int, wy \in Int
<1>5. uw >= 0
  BY ONLY <1>2, <1>4, vy > 0, vy \in Int
<1> QED
  BY <1>5 DEF uw

\* Directions in the upper half plane that never turn right all the way around never
\* turn left either.
LEMMA NoTurnAroundInHalfPlane ==
    ASSUME NEW X \in [1 .. Corners -> Int], NEW Y \in [1 .. Corners -> Int],
           \A c \in 1 .. Corners : Y[c] > 0,
           \A c \in 1 .. Corners : X[Before(c)] * Y[c] - Y[Before(c)] * X[c] >= 0
    PROVE  \A c \in 1 .. Corners : X[Before(c)] * Y[c] - Y[Before(c)] * X[c] = 0
<1> DEFINE Left(i, j) == X[i] * Y[j] - Y[i] * X[j] >= 0
<1>1. 1 .. Corners = {1, 2, 3, 4, 5}
  BY DEF Corners
<1>2. Before(1) = 5 /\ Before(2) = 1 /\ Before(3) = 2 /\ Before(4) = 3 /\ Before(5) = 4
  BY DEF Before, Corners
<1>3. Left(5, 1) /\ Left(1, 2) /\ Left(2, 3) /\ Left(3, 4) /\ Left(4, 5)
  <2>1. \A c \in 1 .. Corners : Left(Before(c), c)
    OBVIOUS
  <2> HIDE DEF Left
  <2> QED
    BY ONLY <1>1, <1>2, <2>1
<1>4. ASSUME NEW i \in 1 .. Corners, NEW j \in 1 .. Corners, NEW k \in 1 .. Corners,
             Left(i, j), Left(j, k)
      PROVE  Left(i, k)
  <2>1. /\ X[i] \in Int /\ Y[i] \in Int /\ X[j] \in Int /\ Y[j] \in Int
        /\ X[k] \in Int /\ Y[k] \in Int /\ Y[i] > 0 /\ Y[j] > 0 /\ Y[k] > 0
    OBVIOUS
  <2> QED
    BY ONLY <1>4, <2>1, Turn
<1>5. ASSUME NEW c \in 1 .. Corners, Left(c, Before(c))
      PROVE  X[Before(c)] * Y[c] - Y[Before(c)] * X[c] = 0
  <2>1. Before(c) \in 1 .. Corners
    BY DEF Before, Corners
  <2>2. PICK a \in Int, b \in Int, f \in Int, g \in Int :
          a = X[c] /\ b = Y[c] /\ f = X[Before(c)] /\ g = Y[Before(c)]
    BY <2>1
  <2>3. a * g - b * f >= 0 /\ f * b - g * a >= 0
    BY <1>5, <2>2
  <2>4. f * b - g * a = 0
    BY ONLY <2>3, a \in Int, b \in Int, f \in Int, g \in Int
  <2> QED
    BY <2>2, <2>4
<1> HIDE DEF Left
<1>6. ASSUME NEW a \in 1 .. Corners, NEW b \in 1 .. Corners, NEW c \in 1 .. Corners,
             NEW d \in 1 .. Corners, NEW e \in 1 .. Corners,
             Left(a, b), Left(b, c), Left(c, d), Left(d, e)
      PROVE  Left(a, e)
  BY <1>4, <1>6
<1>7. 1 \in 1 .. Corners /\ 2 \in 1 .. Corners /\ 3 \in 1 .. Corners /\ 4 \in 1 .. Corners /\ 5 \in 1 .. Corners
  BY <1>1
<1>8. Left(1, 5) /\ Left(2, 1) /\ Left(3, 2) /\ Left(4, 3) /\ Left(5, 4)
  BY ONLY <1>3, <1>6, <1>7
<1>9. \A c \in 1 .. Corners : Left(c, Before(c))
  BY ONLY <1>1, <1>2, <1>8
<1> QED
  BY <1>5, <1>9

\* What Side is, with the corners' coordinates.
LEMMA SideIsCross ==
    ASSUME NEW p \in Polygons, NEW pt \in Points, NEW c \in 1 .. Corners
    PROVE  /\ Side(p, c, pt) \in Int
           /\ Side(p, c, pt) = Cross(p[Before(c)][1], p[Before(c)][2], p[c][1], p[c][2], pt[1], pt[2])
  BY Coordinates DEF Side, Cross, Points

\* Nothing is to the left of an edge without a length.
LEMMA NoSideOfAPoint ==
    ASSUME NEW p \in Polygons, NEW pt \in Points, NEW c \in 1 .. Corners, p[c] = p[Before(c)]
    PROVE  Side(p, c, pt) = 0
<1>1. PICK xi \in Int, yi \in Int, x \in Int, y \in Int :
        /\ p[c][1] = xi /\ p[c][2] = yi /\ pt[1] = x /\ pt[2] = y
  BY Coordinates DEF Points
<1>2. (xi - xi) * (y - yi) - (yi - yi) * (x - xi) = 0
  OBVIOUS
<1> QED
  BY <1>1, <1>2 DEF Side

\* A bound on the extent of all edges.
LEMMA Extent ==
    ASSUME NEW p \in Polygons
    PROVE  \E n \in Nat : n >= 2 /\ \A c \in 1 .. Corners :
              /\ p[c][1] - p[Before(c)][1] < n
              /\ p[c][2] - p[Before(c)][2] > - n
              /\ p[c][2] - p[Before(c)][2] < n
<1>1. ASSUME NEW f \in [1 .. Corners -> Int]
      PROVE  \E n \in Nat : n >= 2 /\ \A c \in 1 .. Corners : f[c] < n /\ f[c] > - n
  <2>1. 1 .. Corners = {1, 2, 3, 4, 5}
    BY DEF Corners
  <2>2. PICK f1 \in Int, f2 \in Int, f3 \in Int, f4 \in Int, f5 \in Int :
          f1 = f[1] /\ f2 = f[2] /\ f3 = f[3] /\ f4 = f[4] /\ f5 = f[5]
    BY <2>1
  <2>3. PICK n \in Nat :
          /\ n >= 2 /\ f1 < n /\ f1 > - n /\ f2 < n /\ f2 > - n /\ f3 < n /\ f3 > - n
          /\ f4 < n /\ f4 > - n /\ f5 < n /\ f5 > - n
    <3>1. \A v \in Int, m \in Nat : \E k \in Nat : k >= m /\ v < k /\ v > - k
      <4> SUFFICES ASSUME NEW v \in Int, NEW m \in Nat
                   PROVE  \E k \in Nat : k >= m /\ v < k /\ v > - k
        OBVIOUS
      <4>1. CASE v < 0
        <5>1. m + 1 - v \in Nat /\ m + 1 - v >= m /\ v < m + 1 - v /\ v > - (m + 1 - v)
          BY <4>1
        <5> QED
          BY <5>1
      <4>2. CASE v >= 0
        <5>1. m + 1 + v \in Nat /\ m + 1 + v >= m /\ v < m + 1 + v /\ v > - (m + 1 + v)
          BY <4>2
        <5> QED
          BY <5>1
      <4> QED
        BY <4>1, <4>2
    <3>2. PICK n1 \in Nat : n1 >= 2 /\ f1 < n1 /\ f1 > - n1
      BY <3>1
    <3>3. PICK n2 \in Nat : n2 >= n1 /\ f2 < n2 /\ f2 > - n2
      BY <3>1
    <3>4. PICK n3 \in Nat : n3 >= n2 /\ f3 < n3 /\ f3 > - n3
      BY <3>1
    <3>5. PICK n4 \in Nat : n4 >= n3 /\ f4 < n4 /\ f4 > - n4
      BY <3>1
    <3>6. PICK n5 \in Nat : n5 >= n4 /\ f5 < n5 /\ f5 > - n5
      BY <3>1
    <3>7. /\ n5 >= 2 /\ f1 < n5 /\ f1 > - n5 /\ f2 < n5 /\ f2 > - n5 /\ f3 < n5 /\ f3 > - n5
          /\ f4 < n5 /\ f4 > - n5 /\ f5 < n5 /\ f5 > - n5
      BY ONLY <3>2, <3>3, <3>4, <3>5, <3>6, f1 \in Int, f2 \in Int, f3 \in Int, f4 \in Int,
              f5 \in Int
    <3> QED
      BY ONLY <3>7, n5 \in Nat, Zenon
  <2> QED
    BY ONLY <2>1, <2>2, <2>3
<1>2. PICK a \in Nat : \A c \in 1 .. Corners : p[c][1] - p[Before(c)][1] < a
  <2> DEFINE f == [c \in 1 .. Corners |-> p[c][1] - p[Before(c)][1]]
  <2>1. f \in [1 .. Corners -> Int]
    BY Coordinates
  <2> HIDE DEF f
  <2>2. PICK n \in Nat : \A c \in 1 .. Corners : f[c] < n
    BY <1>1, <2>1
  <2> QED
    BY <2>2 DEF f
<1>3. PICK b \in Nat : /\ b >= 2
                       /\ \A c \in 1 .. Corners : /\ p[c][2] - p[Before(c)][2] < b
                                                  /\ p[c][2] - p[Before(c)][2] > - b
  <2> DEFINE f == [c \in 1 .. Corners |-> p[c][2] - p[Before(c)][2]]
  <2>1. f \in [1 .. Corners -> Int]
    BY Coordinates
  <2> HIDE DEF f
  <2>2. PICK n \in Nat : n >= 2 /\ \A c \in 1 .. Corners : f[c] < n /\ f[c] > - n
    BY <1>1, <2>1
  <2> QED
    BY <2>2 DEF f
<1>4. ASSUME NEW c \in 1 .. Corners
      PROVE  /\ p[c][1] - p[Before(c)][1] < a + b
             /\ p[c][2] - p[Before(c)][2] > - (a + b)
             /\ p[c][2] - p[Before(c)][2] < a + b
  <2>1. PICK v \in Int, w \in Int : v = p[c][1] - p[Before(c)][1] /\ w = p[c][2] - p[Before(c)][2]
    BY Coordinates
  <2>2. v < a /\ w < b /\ w > - b
    BY <1>2, <1>3, <2>1
  <2> QED
    BY ONLY <2>1, <2>2, a \in Nat, b \in Nat, v \in Int, w \in Int
<1>5. a + b \in Nat /\ a + b >= 2
  BY ONLY <1>3, a \in Nat, b \in Nat
<1> QED
  BY ONLY <1>4, <1>5

\* The sign of a cross product with a point moved by 1 / n to the left and 1 / n^2 down.
LEMMA MovedSide ==
    ASSUME NEW s \in Int, NEW dx \in Int, NEW dy \in Int, NEW n \in Nat,
           n >= 2, dx < n, dy > - n, dy < n
    PROVE  /\ s > 0 => n * n * s + n * dy - dx > 0
           /\ s = 0 /\ dy > 0 => n * n * s + n * dy - dx > 0
           /\ s = 0 /\ dy = 0 /\ dx < 0 => n * n * s + n * dy - dx > 0
<1>1. dy >= 1 - n => n * dy >= n - n * n
  <2>1. dy >= 1 - n => n * (dy - (1 - n)) >= 0
    OBVIOUS
  <2> QED
    BY <2>1
<1>2. s > 0 => n * n * s >= n * n
  <2>1. n * n \in Nat
    OBVIOUS
  <2>2. ASSUME s > 0 PROVE (n * n) * (s - 1) >= 0
    BY ONLY <2>1, <2>2, s \in Int
  <2>3. (n * n) * (s - 1) = n * n * s - n * n
    OBVIOUS
  <2>4. n * n * s \in Int /\ n * n \in Int
    OBVIOUS
  <2> QED
    BY <2>2, <2>3, <2>4
<1>3. dy > 0 => n * dy >= n
  <2>1. dy > 0 => n * (dy - 1) >= 0
    OBVIOUS
  <2> QED
    BY <2>1
<1>4. s = 0 => n * n * s = 0
  OBVIOUS
<1>5. dy = 0 => n * dy = 0
  OBVIOUS
<1>6. PICK a \in Int, b \in Int, m \in Int : a = n * n * s /\ b = n * dy /\ m = n * n
  OBVIOUS
<1>7. /\ b >= n - m
      /\ s > 0 => a >= m
      /\ dy > 0 => b >= n
      /\ s = 0 => a = 0
      /\ dy = 0 => b = 0
  BY <1>1, <1>2, <1>3, <1>4, <1>5, <1>6
<1>8. /\ s > 0 => a + b - dx > 0
      /\ s = 0 /\ dy > 0 => a + b - dx > 0
      /\ s = 0 /\ dy = 0 /\ dx < 0 => a + b - dx > 0
  BY ONLY <1>7, a \in Int, b \in Int, m \in Int, dx \in Int, n \in Nat, dx < n
<1> QED
  BY ONLY <1>6, <1>8

\* A fence that contains the place just left of a point has corners below the point
\* and corners that are not.
LEMMA JustWithinHeights ==
    ASSUME NEW p \in Polygons, NEW pt \in Points, JustWithin(p, pt)
    PROVE  /\ ~ \A c \in 1 .. Corners : Below(p, c, pt)
           /\ ~ \A c \in 1 .. Corners : ~ Below(p, c, pt)
<1>1. PICK n \in Nat : n >= 2 /\ \A c \in 1 .. Corners :
         /\ p[c][1] - p[Before(c)][1] < n
         /\ p[c][2] - p[Before(c)][2] > - n
         /\ p[c][2] - p[Before(c)][2] < n
  BY Extent
<1>2. PICK x \in Int, y \in Int : pt[1] = x /\ pt[2] = y
  BY DEF Points
<1>3. PICK m \in Nat : m = n * n /\ m >= 2
  <2>1. n * n >= n
    BY <1>1
  <2> QED
    BY <1>1, <2>1
<1> DEFINE X == [c \in 1 .. Corners |-> m * (p[c][1] - x) + n]
           Y == [c \in 1 .. Corners |-> m * (p[c][2] - y) + 1]
           X_ == [c \in 1 .. Corners |-> - X[c]]
           Y_ == [c \in 1 .. Corners |-> - Y[c]]
           Moved(c) == X[Before(c)] * Y[c] - Y[Before(c)] * X[c]
<1>4. X \in [1 .. Corners -> Int] /\ Y \in [1 .. Corners -> Int]
  BY Coordinates
<1>5. ASSUME NEW c \in 1 .. Corners
      PROVE  /\ Moved(c) \in Int
             /\ p[c] = p[Before(c)] => Moved(c) = 0
             /\ p[c] # p[Before(c)] => Moved(c) > 0
  <2>1. PICK xi \in Int, yi \in Int, xj \in Int, yj \in Int :
          /\ p[c][1] = xi /\ p[c][2] = yi
          /\ p[Before(c)][1] = xj /\ p[Before(c)][2] = yj
    BY Coordinates
  <2>2. PICK s \in Int : s = Side(p, c, pt) /\ s = Cross(xj, yj, xi, yi, x, y)
    BY <1>2, <2>1, SideIsCross
  <2>3. Moved(c) = m * (m * s + n * (yi - yj) - (xi - xj))
    <3>1. Before(c) \in 1 .. Corners
      BY Coordinates
    <3>2. /\ X[Before(c)] = m * (xj - x) + n /\ Y[Before(c)] = m * (yj - y) + 1
          /\ X[c] = m * (xi - x) + n /\ Y[c] = m * (yi - y) + 1
      BY <2>1, <3>1
    \* Seen from the moved point, and enlarged by m.
    <3>3. (m * (xj - x) + n) * (m * (yi - y) + 1) - (m * (yj - y) + 1) * (m * (xi - x) + n)
            = m * (m * Cross(xj, yj, xi, yi, x, y) + n * (yi - yj) - (xi - xj))
      BY ONLY xi \in Int, yi \in Int, xj \in Int, yj \in Int, x \in Int, y \in Int,
              m \in Nat, n \in Nat DEF Cross
    <3> HIDE DEF X, Y
    <3> QED
      BY ONLY <2>2, <3>2, <3>3, Zenon DEF Moved
  <2> HIDE DEF Moved, X, Y
  <2>4. PICK t \in Int : t = m * s + n * (yi - yj) - (xi - xj) /\ Moved(c) = m * t
    BY <2>3
  <2>5. /\ s > 0 => t > 0
        /\ s = 0 /\ yi > yj => t > 0
        /\ s = 0 /\ yi = yj /\ xi < xj => t > 0
    <3>1. xi - xj < n /\ yi - yj > - n /\ yi - yj < n
      BY <1>1, <2>1
    <3>2. PICK dx \in Int, dy \in Int : dx = xi - xj /\ dy = yi - yj
      OBVIOUS
    <3>3. /\ s > 0 => n * n * s + n * dy - dx > 0
          /\ s = 0 /\ dy > 0 => n * n * s + n * dy - dx > 0
          /\ s = 0 /\ dy = 0 /\ dx < 0 => n * n * s + n * dy - dx > 0
      BY ONLY <1>1, <3>1, <3>2, MovedSide, s \in Int, n \in Nat
    <3> QED
      BY ONLY <1>3, <2>4, <3>2, <3>3, xi \in Int, yi \in Int, xj \in Int, yj \in Int
  <2>6. t > 0 => Moved(c) > 0
    BY ONLY <1>3, <2>4, t \in Int, m \in Nat
  <2>7. p[c] = p[Before(c)] => Moved(c) = 0
    <3> SUFFICES ASSUME p[c] = p[Before(c)] PROVE Moved(c) = 0
      OBVIOUS
    <3>1. s = 0 /\ xi = xj /\ yi = yj
      BY <2>1, <2>2, NoSideOfAPoint
    <3>2. t = 0
      BY ONLY <2>4, <3>1, xi \in Int, yi \in Int, m \in Nat, n \in Nat
    <3> QED
      BY ONLY <2>4, <3>2, m \in Nat
  <2>8. p[c] # p[Before(c)] =>
          s > 0 \/ (s = 0 /\ (yi > yj \/ (yi = yj /\ xi < xj)))
    BY <2>1, <2>2 DEF JustWithin, Owns
  <2>9. Moved(c) \in Int
    BY ONLY <2>4, t \in Int, m \in Nat
  <2> QED
    BY ONLY <2>5, <2>6, <2>7, <2>8, <2>9
<1>6. PICK e \in 1 .. Corners : Moved(e) > 0
  BY <1>5 DEF JustWithin
<1>7. \A c \in 1 .. Corners : Moved(c) >= 0
  <2> HIDE DEF Moved
  <2> QED
    BY <1>5
<1>8. CASE \A c \in 1 .. Corners : ~ Below(p, c, pt)
  <2>1. ASSUME NEW c \in 1 .. Corners PROVE Y[c] > 0
    <3>1. PICK h \in Int : h = p[c][2] - y /\ h >= 0
      BY <1>2, <1>8, Coordinates DEF Below
    <3>2. m * h >= 0
      BY ONLY <3>1, m \in Nat, h \in Int
    <3> QED
      BY <3>1, <3>2
  <2> HIDE DEF X, Y
  <2>2. \A c \in 1 .. Corners : Moved(c) = 0
    BY ONLY <1>4, <1>7, <2>1, NoTurnAroundInHalfPlane
  <2> HIDE DEF Moved
  <2> QED
    BY <1>6, <2>2
<1>9. CASE \A c \in 1 .. Corners : Below(p, c, pt)
  <2>1. ASSUME NEW c \in 1 .. Corners PROVE Y_[c] > 0
    <3>1. PICK h \in Int : h = p[c][2] - y /\ h <= -1
      BY <1>2, <1>9, Coordinates DEF Below
    <3>2. m * h <= - m
      <4>1. m * (h + 1) <= 0
        BY ONLY <3>1, m \in Nat, h \in Int
      <4> QED
        BY ONLY <4>1, m \in Nat, h \in Int
    <3> QED
      BY <1>3, <3>1, <3>2
  <2>2. X_ \in [1 .. Corners -> Int] /\ Y_ \in [1 .. Corners -> Int]
    BY <1>4
  <2>3. ASSUME NEW c \in 1 .. Corners
        PROVE  X_[Before(c)] * Y_[c] - Y_[Before(c)] * X_[c] = Moved(c)
    <3>1. Before(c) \in 1 .. Corners
      BY Coordinates
    <3>2. /\ X[c] \in Int /\ Y[c] \in Int /\ X[Before(c)] \in Int /\ Y[Before(c)] \in Int
          /\ X_[c] = - X[c] /\ Y_[c] = - Y[c]
          /\ X_[Before(c)] = - X[Before(c)] /\ Y_[Before(c)] = - Y[Before(c)]
      BY <1>4, <3>1
    <3> HIDE DEF X, Y, X_, Y_
    <3>3. PICK a \in Int, b \in Int, f \in Int, g \in Int :
            a = X[c] /\ b = Y[c] /\ f = X[Before(c)] /\ g = Y[Before(c)]
      BY <3>2
    <3>4. (- f) * (- b) - (- g) * (- a) = f * b - g * a
      OBVIOUS
    <3> QED
      BY <3>2, <3>3, <3>4
  <2> HIDE DEF X_, Y_, Moved
  <2>4. \A c \in 1 .. Corners : X_[Before(c)] * Y_[c] - Y_[Before(c)] * X_[c] >= 0
    BY ONLY <1>7, <2>3
  <2>5. \A c \in 1 .. Corners : X_[Before(c)] * Y_[c] - Y_[Before(c)] * X_[c] = 0
    BY ONLY <2>1, <2>2, <2>4, NoTurnAroundInHalfPlane
  <2> QED
    BY ONLY <1>6, <2>3, <2>5, e \in 1 .. Corners
<1> QED
  BY <1>8, <1>9

-----------------------------------------------------------------------------
\* Four corners that alternate between the two sides of a height, each to the left
\* of the edges between the others, lie on one line.
LEMMA FlatZigzag ==
    ASSUME NEW ax \in Int, NEW ay \in Int, NEW bx \in Int, NEW by \in Int,
           NEW cx \in Int, NEW cy \in Int, NEW dx \in Int, NEW dy \in Int,
           NEW h \in Int, ay >= h, cy >= h, by < h, dy < h,
           Cross(ax, ay, bx, by, cx, cy) >= 0, Cross(bx, by, cx, cy, dx, dy) >= 0,
           Cross(cx, cy, dx, dy, ax, ay) >= 0, Cross(dx, dy, ax, ay, bx, by) >= 0
    PROVE  /\ Cross(ax, ay, bx, by, cx, cy) = 0 /\ Cross(bx, by, cx, cy, dx, dy) = 0
           /\ Cross(cx, cy, dx, dy, ax, ay) = 0 /\ Cross(dx, dy, ax, ay, bx, by) = 0
<1>1. PICK A \in Int, B \in Int, C \in Int, D \in Int :
         /\ A = Cross(bx, by, cx, cy, dx, dy) /\ B = Cross(cx, cy, dx, dy, ax, ay)
         /\ C = Cross(dx, dy, ax, ay, bx, by) /\ D = Cross(ax, ay, bx, by, cx, cy)
  BY DEF Cross
<1>2. A + C = B + D
  BY ONLY <1>1, ax \in Int, ay \in Int, bx \in Int, by \in Int,
          cx \in Int, cy \in Int, dx \in Int, dy \in Int DEF Cross
<1>3. A * ay + C * cy = B * by + D * dy
  BY ONLY <1>1, ax \in Int, ay \in Int, bx \in Int, by \in Int,
          cx \in Int, cy \in Int, dx \in Int, dy \in Int DEF Cross
<1>4. A >= 0 /\ B >= 0 /\ C >= 0 /\ D >= 0
  BY <1>1
<1>5. A * (ay - h) >= 0 /\ C * (cy - h) >= 0 /\ B * (h - by) >= B /\ D * (h - dy) >= D
  <2>1. /\ ay - h >= 0 /\ cy - h >= 0 /\ h - by - 1 >= 0 /\ h - dy - 1 >= 0
        /\ ay - h \in Int /\ cy - h \in Int /\ h - by - 1 \in Int /\ h - dy - 1 \in Int
    OBVIOUS
  <2>2. A * (ay - h) >= 0 /\ C * (cy - h) >= 0
    BY ONLY <1>4, <2>1, A \in Int, C \in Int
  <2>3. B * (h - by - 1) >= 0 /\ D * (h - dy - 1) >= 0
    BY ONLY <1>4, <2>1, B \in Int, D \in Int
  <2> QED
    BY ONLY <2>2, <2>3, B \in Int, D \in Int, h \in Int, by \in Int, dy \in Int
<1>6. B + D <= 0
  <2>1. A * (ay - h) + C * (cy - h) + B * (h - by) + D * (h - dy) = 0
    <3>1. A * (ay - h) + C * (cy - h) + B * (h - by) + D * (h - dy)
            = (A * ay + C * cy) - (B * by + D * dy) - (A + C) * h + (B + D) * h
      OBVIOUS
    <3> QED
      BY <1>2, <1>3, <3>1
  <2> QED
    BY <1>5, <2>1
<1> QED
  BY <1>1, <1>2, <1>4, <1>6

\* Of two edges on one line, one down and one up, both are crossed or neither.
LEMMA SameLine ==
    ASSUME NEW ax \in Int, NEW ay \in Int, NEW bx \in Int, NEW by \in Int,
           NEW cx \in Int, NEW cy \in Int, NEW x \in Int, NEW y \in Int,
           Cross(ax, ay, bx, by, cx, cy) = 0
    PROVE  /\ ay > by /\ cy > by =>
                (Cross(ax, ay, bx, by, x, y) > 0 <=> Cross(bx, by, cx, cy, x, y) < 0)
           /\ ay < by /\ cy < by =>
                (Cross(ax, ay, bx, by, x, y) < 0 <=> Cross(bx, by, cx, cy, x, y) > 0)
<1>1. PICK q \in Int, r \in Int :
        q = Cross(ax, ay, bx, by, x, y) /\ r = Cross(bx, by, cx, cy, x, y)
  BY DEF Cross
<1>2. (cy - by) * q + (ay - by) * r = (by - y) * Cross(ax, ay, bx, by, cx, cy)
  BY <1>1 DEF Cross
<1>3. (cy - by) * q + (ay - by) * r = 0
  BY <1>2
<1>4. ASSUME ay > by, cy > by PROVE q > 0 <=> r < 0
  <2>1. PICK m \in Int, n \in Int : m = cy - by /\ n = ay - by
    OBVIOUS
  <2>2. m > 0 /\ n > 0 /\ m * q + n * r = 0
    BY <1>3, <1>4, <2>1
  <2> QED
    BY ONLY <2>2, m \in Int, n \in Int, q \in Int, r \in Int
<1>5. ASSUME ay < by, cy < by PROVE q < 0 <=> r > 0
  <2>1. PICK m \in Int, n \in Int : m = by - cy /\ n = by - ay
    OBVIOUS
  <2>2. m > 0 /\ n > 0 /\ m * q + n * r = 0
    BY <1>3, <1>5, <2>1
  <2> QED
    BY ONLY <2>2, m \in Int, n \in Int, q \in Int, r \in Int
<1> QED
  BY <1>1, <1>4, <1>5

\* The corners of a convex polygon that alternate between the two sides of a height
\* lie on one line.
LEMMA CornersOnLine ==
    ASSUME NEW p \in Polygons, NEW pt \in Points, Convex(p),
           NEW a \in 1 .. Corners, NEW b \in 1 .. Corners,
           NEW c \in 1 .. Corners, NEW d \in 1 .. Corners,
           a = Before(b), b = Before(c), c = Before(d),
           Below(p, a, pt) <=> ~Below(p, b, pt),
           Below(p, b, pt) <=> ~Below(p, c, pt),
           Below(p, c, pt) <=> ~Below(p, d, pt)
    PROVE  Side(p, b, p[c]) = 0 /\ Side(p, c, p[d]) = 0
<1>1. PICK ax \in Int, ay \in Int, bx \in Int, by \in Int, cx \in Int, cy \in Int,
           dx \in Int, dy \in Int :
         /\ p[a][1] = ax /\ p[a][2] = ay /\ p[b][1] = bx /\ p[b][2] = by
         /\ p[c][1] = cx /\ p[c][2] = cy /\ p[d][1] = dx /\ p[d][2] = dy
  BY Coordinates
<1>2. PICK h \in Int : pt[2] = h
  BY DEF Points
<1>3. /\ p[a] \in Points /\ p[b] \in Points /\ p[c] \in Points /\ p[d] \in Points
  BY DEF Polygons
<1>4. /\ Side(p, b, p[c]) = Cross(ax, ay, bx, by, cx, cy)
      /\ Side(p, b, p[d]) = Cross(ax, ay, bx, by, dx, dy)
      /\ Side(p, c, p[d]) = Cross(bx, by, cx, cy, dx, dy)
      /\ Side(p, d, p[a]) = Cross(cx, cy, dx, dy, ax, ay)
  BY <1>1, <1>3, SideIsCross
<1>5. /\ Side(p, b, p[c]) >= 0 /\ Side(p, b, p[d]) >= 0
      /\ Side(p, c, p[d]) >= 0 /\ Side(p, d, p[a]) >= 0
  BY DEF Convex
<1>6. /\ Cross(ax, ay, bx, by, dx, dy) = Cross(dx, dy, ax, ay, bx, by)
  BY DEF Cross
<1>7. \/ ay >= h /\ cy >= h /\ by < h /\ dy < h
      \/ by >= h /\ dy >= h /\ cy < h /\ ay < h
  BY <1>1, <1>2 DEF Below
<1>8. /\ Cross(ax, ay, bx, by, cx, cy) >= 0 /\ Cross(bx, by, cx, cy, dx, dy) >= 0
      /\ Cross(cx, cy, dx, dy, ax, ay) >= 0 /\ Cross(dx, dy, ax, ay, bx, by) >= 0
  BY <1>4, <1>5, <1>6
<1>9. Cross(ax, ay, bx, by, cx, cy) = 0 /\ Cross(bx, by, cx, cy, dx, dy) = 0
  <2>1. CASE ay >= h /\ cy >= h /\ by < h /\ dy < h
    BY ONLY <1>8, <2>1, FlatZigzag
  <2>2. CASE by >= h /\ dy >= h /\ cy < h /\ ay < h
    BY ONLY <1>8, <2>2, FlatZigzag
  <2> QED
    BY <1>7, <2>1, <2>2
<1> QED
  BY <1>4, <1>9

\* Of two edges on one line, one down and one up, the test counts both or neither.
LEMMA BothOrNeither ==
    ASSUME NEW p \in Polygons, NEW pt \in Points,
           NEW a \in 1 .. Corners, NEW b \in 1 .. Corners, NEW c \in 1 .. Corners,
           a = Before(b), b = Before(c), Side(p, b, p[c]) = 0,
           Below(p, a, pt) <=> ~Below(p, b, pt),
           Below(p, b, pt) <=> ~Below(p, c, pt)
    PROVE  b \in Crossed(p, pt, 0) <=> c \in Crossed(p, pt, 0)
<1>1. PICK ax \in Int, ay \in Int, bx \in Int, by \in Int, cx \in Int, cy \in Int :
         /\ p[a][1] = ax /\ p[a][2] = ay /\ p[b][1] = bx /\ p[b][2] = by
         /\ p[c][1] = cx /\ p[c][2] = cy
  BY Coordinates
<1>2. PICK x \in Int, y \in Int : pt[1] = x /\ pt[2] = y
  BY DEF Points
<1>3. /\ Side(p, b, pt) = Cross(ax, ay, bx, by, x, y)
      /\ Side(p, c, pt) = Cross(bx, by, cx, cy, x, y)
      /\ Cross(ax, ay, bx, by, cx, cy) = 0
  <2>1. p[c] \in Points
    BY DEF Polygons
  <2> QED
    BY <1>1, <1>2, <2>1, SideIsCross
<1>4. CASE Below(p, b, pt)
  <2>1. ay > by /\ cy > by
    BY <1>1, <1>2, <1>4 DEF Below
  <2>2. Side(p, b, pt) > 0 <=> Side(p, c, pt) < 0
    BY <1>3, <2>1, SameLine
  <2>3. Down(p, b, pt) /\ ~Up(p, b, pt) /\ Up(p, c, pt) /\ ~Down(p, c, pt)
    BY <1>4 DEF Up, Down
  <2> QED
    BY <2>2, <2>3, EdgeTest
<1>5. CASE ~Below(p, b, pt)
  <2>1. ay < by /\ cy < by
    BY <1>1, <1>2, <1>5 DEF Below
  <2>2. Side(p, b, pt) < 0 <=> Side(p, c, pt) > 0
    BY <1>3, <2>1, SameLine
  <2>3. Up(p, b, pt) /\ ~Down(p, b, pt) /\ Down(p, c, pt) /\ ~Up(p, c, pt)
    BY <1>5 DEF Up, Down
  <2> QED
    BY <2>2, <2>3, EdgeTest
<1> QED
  BY <1>4, <1>5

\* A zigzag is flat: the four edges are crossed all or none.
LEMMA ZigzagCrossings ==
    ASSUME NEW p \in Polygons, NEW pt \in Points, Convex(p),
           NEW e \in 1 .. Corners, Zigzag(p, e, pt)
    PROVE  Crossed(p, pt, 0) = {} \/ Crossed(p, pt, 0) = (1 .. Corners) \ {e}
<1>1. PICK a \in 1 .. Corners, b \in 1 .. Corners, c \in 1 .. Corners, d \in 1 .. Corners :
         /\ e = Before(a) /\ a = Before(b) /\ b = Before(c) /\ c = Before(d) /\ d = Before(e)
         /\ (1 .. Corners) \ {e} = {a, b, c, d}
  <2>1. 1 .. Corners = {1, 2, 3, 4, 5}
    BY DEF Corners
  <2>2. Before(1) = 5 /\ Before(2) = 1 /\ Before(3) = 2 /\ Before(4) = 3 /\ Before(5) = 4
    BY DEF Before, Corners
  <2>3. CASE e = 1
    BY ONLY <2>1, <2>2, <2>3
  <2>4. CASE e = 2
    BY ONLY <2>1, <2>2, <2>4
  <2>5. CASE e = 3
    BY ONLY <2>1, <2>2, <2>5
  <2>6. CASE e = 4
    BY ONLY <2>1, <2>2, <2>6
  <2>7. CASE e = 5
    BY ONLY <2>1, <2>2, <2>7
  <2> QED
    BY <2>1, <2>3, <2>4, <2>5, <2>6, <2>7
<1>2. /\ Below(p, a, pt) <=> ~Below(p, e, pt)
      /\ Below(p, b, pt) <=> ~Below(p, a, pt)
      /\ Below(p, c, pt) <=> ~Below(p, b, pt)
      /\ Below(p, d, pt) <=> ~Below(p, c, pt)
      /\ Below(p, e, pt) <=> Below(p, d, pt)
  BY <1>1 DEF Zigzag
<1>3. /\ Side(p, a, p[b]) = 0 /\ Side(p, b, p[c]) = 0 /\ Side(p, c, p[d]) = 0
  BY <1>1, <1>2, CornersOnLine
<1>4. /\ a \in Crossed(p, pt, 0) <=> b \in Crossed(p, pt, 0)
      /\ b \in Crossed(p, pt, 0) <=> c \in Crossed(p, pt, 0)
      /\ c \in Crossed(p, pt, 0) <=> d \in Crossed(p, pt, 0)
  BY <1>1, <1>2, <1>3, BothOrNeither
<1>5. e \notin Crossed(p, pt, 0) /\ Crossed(p, pt, 0) \subseteq 1 .. Corners
  <2>1. ~Up(p, e, pt) /\ ~Down(p, e, pt)
    BY <1>1, <1>2 DEF Up, Down
  <2> QED
    BY <2>1, EdgeTest DEF Crossed
<1> QED
  BY <1>1, <1>4, <1>5

\* The crossing of an edge with a height, weighed: the identity behind AlongEdge.
LEMMA AlongLine ==
    ASSUME NEW ax \in Int, NEW ay \in Int, NEW bx \in Int, NEW by \in Int,
           NEW ix \in Int, NEW iy \in Int, NEW jx \in Int, NEW jy \in Int,
           NEW x \in Int, NEW y \in Int
    PROVE  (iy - jy) * Cross(ax, ay, bx, by, x, y)
             = (iy - y) * Cross(ax, ay, bx, by, jx, jy)
               + (y - jy) * Cross(ax, ay, bx, by, ix, iy)
               + (by - ay) * Cross(jx, jy, ix, iy, x, y)
  BY DEF Cross

\* How far a point is to the left of edge c of r, in terms of edge e of p.
LEMMA AlongEdge ==
    ASSUME NEW p \in Polygons, NEW r \in Polygons, NEW pt \in Points,
           NEW e \in 1 .. Corners, NEW c \in 1 .. Corners
    PROVE  Rise(p, e) * Side(r, c, pt)
             = (p[e][2] - pt[2]) * Side(r, c, p[Before(e)])
               + (pt[2] - p[Before(e)][2]) * Side(r, c, p[e])
               + Rise(r, c) * Side(p, e, pt)
<1>1. PICK ix \in Int, iy \in Int, jx \in Int, jy \in Int,
           ax \in Int, ay \in Int, bx \in Int, by \in Int, x \in Int, y \in Int :
        /\ p[e][1] = ix /\ p[e][2] = iy
        /\ p[Before(e)][1] = jx /\ p[Before(e)][2] = jy
        /\ r[c][1] = bx /\ r[c][2] = by
        /\ r[Before(c)][1] = ax /\ r[Before(c)][2] = ay
        /\ pt[1] = x /\ pt[2] = y
  BY Coordinates DEF Points
<1>2. p[e] \in Points /\ p[Before(e)] \in Points
  BY Coordinates DEF Polygons
<1>3. /\ Side(r, c, pt) = Cross(ax, ay, bx, by, x, y)
      /\ Side(r, c, p[Before(e)]) = Cross(ax, ay, bx, by, jx, jy)
      /\ Side(r, c, p[e]) = Cross(ax, ay, bx, by, ix, iy)
      /\ Side(p, e, pt) = Cross(jx, jy, ix, iy, x, y)
  BY <1>1, <1>2, SideIsCross
<1> QED
  BY <1>1, <1>3, AlongLine DEF Rise

\* The signs in that identity.
LEMMA Weigh ==
    ASSUME NEW m \in Int, NEW k \in Int, NEW l \in Int, NEW s \in Int,
           NEW v \in Int, NEW w \in Int, NEW t \in Int, NEW q \in Int,
           v >= 0, w >= 0, m * s = k * v + l * w + t * q
    PROVE  /\ m > 0 /\ k >= 0 /\ l >= 0 =>
                (t * q >= 0 => s >= 0) /\ (t * q > 0 => s > 0)
           /\ m < 0 /\ k <= 0 /\ l <= 0 /\ t * q <= 0 => s >= 0
<1>1. PICK f \in Int, g \in Int, h \in Int, n \in Int :
        f = k * v /\ g = l * w /\ h = t * q /\ n = m * s
  OBVIOUS
<1>2. n = f + g + h
  BY ONLY <1>1, m * s = k * v + l * w + t * q
<1>3. /\ k >= 0 => f >= 0
      /\ k <= 0 => f <= 0
  BY ONLY <1>1, v >= 0, k \in Int, v \in Int
<1>4. /\ l >= 0 => g >= 0
      /\ l <= 0 => g <= 0
  BY ONLY <1>1, w >= 0, l \in Int, w \in Int
<1>5. /\ m > 0 /\ n >= 0 => s >= 0
      /\ m > 0 /\ n > 0 => s > 0
      /\ m < 0 /\ n <= 0 => s >= 0
  BY ONLY <1>1, m \in Int, s \in Int
<1> QED
  BY ONLY <1>1, <1>2, <1>3, <1>4, <1>5, h \in Int, f \in Int, g \in Int, n \in Int,
          m \in Int, k \in Int, l \in Int, s \in Int

\* A point at the height of edges u and d, to the left of both of them, is to the left
\* of every edge or on its line; and right of the one is left of the other.
LEMMA BetweenTwoEdges ==
    ASSUME NEW p \in Polygons, NEW pt \in Points, Convex(p),
           NEW u \in 1 .. Corners, NEW d \in 1 .. Corners, Up(p, u, pt), Down(p, d, pt)
    PROVE  /\ Side(p, u, pt) >= 0 /\ Side(p, d, pt) >= 0
                => \A c \in 1 .. Corners : Side(p, c, pt) >= 0
           /\ Side(p, u, pt) < 0 => Side(p, d, pt) > 0
<1>1. ASSUME NEW e \in 1 .. Corners, NEW c \in 1 .. Corners
      PROVE  /\ Up(p, e, pt) => /\ Rise(p, c) * Side(p, e, pt) >= 0 => Side(p, c, pt) >= 0
                                /\ Rise(p, c) * Side(p, e, pt) > 0 => Side(p, c, pt) > 0
             /\ Down(p, e, pt) => (Rise(p, c) * Side(p, e, pt) <= 0 => Side(p, c, pt) >= 0)
  <2>1. /\ Before(e) \in 1 .. Corners /\ p[e] \in Points /\ p[Before(e)] \in Points
        /\ p[e][2] \in Int /\ p[Before(e)][2] \in Int /\ pt[2] \in Int
        /\ Rise(p, c) \in Int
    <3>1. Before(e) \in 1 .. Corners /\ Rise(p, c) \in Int
      BY Coordinates DEF Rise
    <3>2. p[e] \in Points /\ p[Before(e)] \in Points /\ pt[2] \in Int
      BY <3>1 DEF Polygons, Points
    <3> QED
      BY <3>1, <3>2, Coordinates
  <2>2. PICK m \in Int, k \in Int, l \in Int :
          m = Rise(p, e) /\ k = p[e][2] - pt[2] /\ l = pt[2] - p[Before(e)][2]
    BY <2>1 DEF Rise
  <2>3. PICK s \in Int, v \in Int, w \in Int, t \in Int, q \in Int :
          /\ s = Side(p, c, pt) /\ v = Side(p, c, p[Before(e)]) /\ w = Side(p, c, p[e])
          /\ t = Rise(p, c) /\ q = Side(p, e, pt)
    BY <2>1, SideIsCross
  <2>4. v >= 0 /\ w >= 0
    BY <2>1, <2>3 DEF Convex
  <2>5. m * s = k * v + l * w + t * q
    BY <2>2, <2>3, AlongEdge
  <2>6. /\ m > 0 /\ k >= 0 /\ l >= 0 =>
              (t * q >= 0 => s >= 0) /\ (t * q > 0 => s > 0)
        /\ m < 0 /\ k <= 0 /\ l <= 0 /\ t * q <= 0 => s >= 0
    BY ONLY <2>4, <2>5, Weigh
  <2>7. /\ Up(p, e, pt) => m > 0 /\ k >= 0 /\ l >= 0
        /\ Down(p, e, pt) => m < 0 /\ k <= 0 /\ l <= 0
    BY <2>1, <2>2 DEF Up, Down, Below, Rise
  <2> QED
    BY <2>3, <2>6, <2>7
<1>2. ASSUME Side(p, u, pt) >= 0, Side(p, d, pt) >= 0, NEW c \in 1 .. Corners
      PROVE  Side(p, c, pt) >= 0
  <2>1. Rise(p, c) \in Int
    BY Coordinates DEF Rise
  <2>2. PICK t \in Int, q \in Int, r \in Int :
          t = Rise(p, c) /\ q = Side(p, u, pt) /\ r = Side(p, d, pt)
    BY <2>1, SideIsCross
  <2>3. t * q >= 0 \/ t * r <= 0
    BY ONLY <1>2, <2>2, t \in Int, q \in Int, r \in Int
  <2> QED
    BY <1>1, <2>2, <2>3
<1>3. ASSUME Side(p, u, pt) < 0 PROVE Side(p, d, pt) > 0
  <2>1. Rise(p, d) \in Int /\ Rise(p, d) < 0
    <3>1. pt[2] \in Int
      BY DEF Points
    <3> QED
      BY <3>1, Coordinates DEF Rise, Down, Below
  <2>2. PICK t \in Int, q \in Int : t = Rise(p, d) /\ q = Side(p, u, pt)
    BY <2>1, SideIsCross
  <2>3. t * q > 0
    BY ONLY <1>3, <2>1, <2>2, t \in Int, q \in Int
  <2> QED
    BY <1>1, <2>2, <2>3
<1> QED
  BY <1>2, <1>3

-----------------------------------------------------------------------------
\* How many edges the possible outcomes are.
LEMMA Parity ==
    /\ Cardinality({}) = 0
    /\ \A d \in 1 .. Corners : Cardinality({d}) = 1
    /\ \A u, d \in 1 .. Corners : u # d => Cardinality({u, d}) = 2
    /\ \A d \in 1 .. Corners : Cardinality((1 .. Corners) \ {d}) = 4
<1>1. Cardinality({}) = 0
  BY FS_EmptySet
<1>2. \A d : IsFiniteSet({d}) /\ Cardinality({d}) = 1
  BY FS_Singleton
<1>3. ASSUME NEW u, NEW d, u # d
      PROVE  Cardinality({u, d}) = 2
  <2>1. Cardinality({d} \cup {u}) = Cardinality({d}) + 1
    BY <1>2, <1>3, FS_AddElement
  <2>2. {d} \cup {u} = {u, d}
    OBVIOUS
  <2> QED
    BY <1>2, <2>1, <2>2
<1>4. IsFiniteSet(1 .. Corners) /\ Cardinality(1 .. Corners) = 5
  <2>1. 1 \in Int /\ Corners \in Int /\ (IF 1 > Corners THEN 0 ELSE Corners - 1 + 1) = 5
    BY DEF Corners
  <2>2. /\ IsFiniteSet(1 .. Corners)
        /\ Cardinality(1 .. Corners) = IF 1 > Corners THEN 0 ELSE Corners - 1 + 1
    BY ONLY <2>1, FS_Interval
  <2> QED
    BY <2>1, <2>2
<1>5. ASSUME NEW d \in 1 .. Corners
      PROVE  Cardinality((1 .. Corners) \ {d}) = 4
  <2>1. Cardinality((1 .. Corners) \ {d}) = Cardinality(1 .. Corners) - 1
    BY ONLY <1>4, d \in 1 .. Corners, FS_RemoveElement
  <2> QED
    BY <1>4, <2>1
<1>6. \A d \in 1 .. Corners : Cardinality({d}) = 1
  BY ONLY <1>2, Zenon
<1>7. \A u, d \in 1 .. Corners : u # d => Cardinality({u, d}) = 2
  BY ONLY <1>3, Zenon
<1>8. \A d \in 1 .. Corners : Cardinality((1 .. Corners) \ {d}) = 4
  BY ONLY <1>5
<1> QED
  BY ONLY <1>1, <1>6, <1>7, <1>8, Zenon

\* Inside() is true of the points between the edge up at their height, or on
\* it, and the edge down, off it: it counts one edge there, and elsewhere none, two
\* or four.
LEMMA InsideIsBetween ==
    ASSUME NEW p \in Polygons, NEW pt \in Points, Convex(p), pt # NoFix
    PROVE  Inside(p, pt) <=>
             \E u, d \in 1 .. Corners :
                Up(p, u, pt) /\ Down(p, d, pt) /\ Side(p, u, pt) >= 0 /\ Side(p, d, pt) > 0
<1> DEFINE Between == \E u, d \in 1 .. Corners :
                Up(p, u, pt) /\ Down(p, d, pt) /\ Side(p, u, pt) >= 0 /\ Side(p, d, pt) > 0
<1>1. Inside(p, pt) <=> Cardinality(Crossed(p, pt, 0)) % 2 = 1
  BY DEF Inside, Crossed
<1>2. Crossed(p, pt, 0) \subseteq 1 .. Corners
  BY DEF Crossed
<1>3. 1 \in 1 .. Corners /\ 2 \in 1 .. Corners
  BY DEF Corners
<1>4. CASE \/ \A c \in 1 .. Corners : Below(p, c, pt)
           \/ \A c \in 1 .. Corners : ~ Below(p, c, pt)
  <2>1. \A c \in 1 .. Corners : ~ Up(p, c, pt) /\ ~ Down(p, c, pt)
    BY <1>4, Coordinates DEF Up, Down
  <2>2. Crossed(p, pt, 0) = {}
    BY <1>2, <2>1, EdgeTest
  <2>3. Cardinality(Crossed(p, pt, 0)) = 0
    BY <2>2, Parity
  <2> QED
    BY <1>1, <2>1, <2>3
<1>5. CASE \E e \in 1 .. Corners : Zigzag(p, e, pt)
  <2>1. PICK e \in 1 .. Corners : Zigzag(p, e, pt)
    BY <1>5
  <2>2. Crossed(p, pt, 0) = {} \/ Crossed(p, pt, 0) = (1 .. Corners) \ {e}
    BY <2>1, ZigzagCrossings
  <2>3. Cardinality(Crossed(p, pt, 0)) \in {0, 4}
    BY <2>2, Parity
  <2>4. ASSUME NEW u \in 1 .. Corners, NEW d \in 1 .. Corners,
               Up(p, u, pt), Down(p, d, pt), Side(p, u, pt) >= 0, Side(p, d, pt) > 0
        PROVE  FALSE
    <3>1. d \in Crossed(p, pt, 0)
      BY <2>4, EdgeTest
    <3>2. u # e
      BY <2>1, <2>4 DEF Zigzag, Up
    <3>3. u \in Crossed(p, pt, 0)
      BY <2>2, <3>1, <3>2
    <3>4. ~ Down(p, u, pt) /\ Side(p, u, pt) \in Int
      BY <2>4, SideIsCross DEF Up, Down
    <3> QED
      BY <2>4, <3>3, <3>4, EdgeTest
  <2> QED
    BY <1>1, <2>3, <2>4
<1>6. ASSUME NEW u \in 1 .. Corners, NEW d \in 1 .. Corners,
             Up(p, u, pt), Down(p, d, pt),
             \A c \in 1 .. Corners : (Up(p, c, pt) => c = u) /\ (Down(p, c, pt) => c = d)
      PROVE  Inside(p, pt) <=> Between
  <2>1. u # d /\ ~ Down(p, u, pt) /\ ~ Up(p, d, pt)
    BY <1>6 DEF Up, Down
  <2>2. /\ Side(p, u, pt) \in Int /\ Side(p, d, pt) \in Int
        /\ u \in Crossed(p, pt, 0) <=> Side(p, u, pt) < 0
        /\ d \in Crossed(p, pt, 0) <=> Side(p, d, pt) > 0
    BY <1>6, <2>1, SideIsCross, EdgeTest
  <2>3. \A c \in Crossed(p, pt, 0) : c \in {u, d}
    BY <1>2, <1>6, EdgeTest
  <2>4. Between <=> Side(p, u, pt) >= 0 /\ Side(p, d, pt) > 0
    BY <1>6
  <2>5. CASE Side(p, u, pt) < 0
    <3>1. Side(p, d, pt) > 0
      BY <1>6, <2>5, BetweenTwoEdges
    <3>2. Crossed(p, pt, 0) = {u, d}
      BY <2>2, <2>3, <2>5, <3>1
    <3>3. Cardinality(Crossed(p, pt, 0)) = 2
      BY <2>1, <3>2, Parity
    <3> QED
      BY <1>1, <2>2, <2>4, <2>5, <3>3
  <2>6. CASE Side(p, u, pt) >= 0 /\ Side(p, d, pt) > 0
    <3>1. Crossed(p, pt, 0) = {d}
      BY <2>2, <2>3, <2>6
    <3>2. Cardinality(Crossed(p, pt, 0)) = 1
      BY <3>1, Parity
    <3> QED
      BY <1>1, <2>4, <2>6, <3>2
  <2>7. CASE Side(p, u, pt) >= 0 /\ ~ (Side(p, d, pt) > 0)
    <3>1. Crossed(p, pt, 0) = {}
      BY <2>2, <2>3, <2>7
    <3>2. Cardinality(Crossed(p, pt, 0)) = 0
      BY <3>1, Parity
    <3> QED
      BY <1>1, <2>4, <2>7, <3>2
  <2> QED
    BY <2>2, <2>5, <2>6, <2>7
<1> QED
  BY <1>4, <1>5, <1>6, Round

\* A point that the test says is inside is not right of any edge; at its height an
\* edge leads up, and the point is off the edge that leads down.
LEMMA FoundInside ==
    ASSUME NEW p \in Polygons, NEW pt \in Points, Convex(p), Inside(p, pt)
    PROVE  /\ \A c \in 1 .. Corners : Side(p, c, pt) >= 0
           /\ \E u, d \in 1 .. Corners : Up(p, u, pt) /\ Down(p, d, pt) /\ Side(p, d, pt) > 0
<1>1. PICK u \in 1 .. Corners, d \in 1 .. Corners :
        Up(p, u, pt) /\ Down(p, d, pt) /\ Side(p, u, pt) >= 0 /\ Side(p, d, pt) > 0
  BY InsideIsBetween DEF Inside
<1>2. Side(p, d, pt) >= 0
  BY <1>1, SideIsCross
<1>3. \A c \in 1 .. Corners : Side(p, c, pt) >= 0
  BY <1>1, <1>2, BetweenTwoEdges
<1> QED
  BY <1>1, <1>3

\* A point the test says is inside has the fence just left of it and below it.
LEMMA FoundIsJustWithin ==
    ASSUME NEW p \in Polygons, NEW pt \in Points, Convex(p), Inside(p, pt)
    PROVE  JustWithin(p, pt)
<1>1. PICK u \in 1 .. Corners, d \in 1 .. Corners :
        Up(p, u, pt) /\ Down(p, d, pt) /\ Side(p, d, pt) > 0
  BY FoundInside
<1>2. Before(u) \in 1 .. Corners /\ Before(d) \in 1 .. Corners
  BY Coordinates
<1>3. p[d] # p[Before(d)]
  BY <1>1, NoSideOfAPoint, SideIsCross
<1>4. ASSUME NEW c \in 1 .. Corners, p[c] # p[Before(c)], Side(p, c, pt) = 0
      PROVE  Owns(p, c)
  <2>1. PICK xi \in Int, yi \in Int, xj \in Int, yj \in Int :
          /\ p[c][1] = xi /\ p[c][2] = yi
          /\ p[Before(c)][1] = xj /\ p[Before(c)][2] = yj
    BY Coordinates
  <2>2. PICK x \in Int, y \in Int : pt[1] = x /\ pt[2] = y
    BY DEF Points
  <2>3. ~ (yi < yj)
    <3> SUFFICES ASSUME yi < yj PROVE FALSE
      OBVIOUS
    <3>1. p[d] \in Points /\ p[Before(d)] \in Points
      BY <1>2 DEF Polygons
    <3>2. PICK k \in Int, l \in Int, v \in Int, w \in Int, q \in Int, t \in Int :
            /\ k = p[d][2] - y /\ l = y - p[Before(d)][2]
            /\ v = Side(p, c, p[Before(d)]) /\ w = Side(p, c, p[d])
            /\ t = Rise(p, c) /\ q = Side(p, d, pt)
      <4>1. p[d][2] - y \in Int /\ y - p[Before(d)][2] \in Int /\ Rise(p, c) \in Int
        BY Coordinates DEF Rise
      <4>2. /\ Side(p, c, p[Before(d)]) \in Int /\ Side(p, c, p[d]) \in Int
            /\ Side(p, d, pt) \in Int
        BY <3>1, SideIsCross
      <4> QED
        BY <4>1, <4>2
    <3>3. k < 0 /\ l <= 0 /\ v >= 0 /\ w >= 0 /\ t < 0 /\ q > 0
      <4>1. k < 0 /\ l <= 0
        BY <1>1, <1>2, <2>2, <3>2, Coordinates DEF Down, Below
      <4>2. v >= 0 /\ w >= 0
        BY <1>2, <3>2 DEF Convex
      <4>3. t < 0
        BY <2>1, <3>2 DEF Rise
      <4> QED
        BY <1>1, <3>2, <4>1, <4>2, <4>3
    <3>4. Rise(p, d) * 0 = k * v + l * w + t * q
      BY <1>4, <2>2, <3>2, AlongEdge
    <3>5. Rise(p, d) \in Int
      BY Coordinates DEF Rise
    <3>6. k * v + l * w + t * q = 0
      BY ONLY <3>4, <3>5, k \in Int, l \in Int, v \in Int, w \in Int, t \in Int, q \in Int
    <3>7. k * v <= 0 /\ l * w <= 0
      BY ONLY <3>3, k \in Int, l \in Int, v \in Int, w \in Int
    <3>8. t * q < 0
      BY ONLY <3>3, t \in Int, q \in Int
    <3>9. PICK a \in Int, b \in Int, f \in Int : a = k * v /\ b = l * w /\ f = t * q
      OBVIOUS
    <3> QED
      BY ONLY <3>6, <3>7, <3>8, <3>9
  <2>4. yi = yj /\ ~ (xi < xj) => FALSE
    <3> SUFFICES ASSUME yi = yj, ~ (xi < xj) PROVE FALSE
      OBVIOUS
    <3>1. xi > xj
      <4>1. p[c] \in Int \X Int /\ p[Before(c)] \in Int \X Int
        BY Coordinates DEF Polygons, Points
      <4>2. xi # xj
        BY ONLY <1>4, <2>1, <4>1, yi = yj
      <4> QED
        BY <4>2
    <3>2. \A a \in Points : Side(p, c, a) = (xi - xj) * (a[2] - yj) /\ a[2] \in Int
      BY <2>1 DEF Side, Points
    <3>3. (xi - xj) * (y - yj) = 0
      BY <1>4, <2>2, <3>2
    <3>4. y = yj
      BY ONLY <3>1, <3>3, xi \in Int, xj \in Int, y \in Int, yj \in Int
    <3>5. PICK h \in Int : h = p[Before(u)][2] /\ (xi - xj) * (h - yj) >= 0
      <4>1. p[Before(u)] \in Points /\ Side(p, c, p[Before(u)]) >= 0
        BY <1>2 DEF Polygons, Convex
      <4> QED
        BY <3>2, <4>1
    <3>6. h >= yj
      BY ONLY <3>1, <3>5, xi \in Int, xj \in Int, yj \in Int, h \in Int
    <3>7. h < y
      BY <1>1, <2>2, <3>5 DEF Up, Below
    <3> QED
      BY ONLY <3>4, <3>6, <3>7, h \in Int, y \in Int
  <2> QED
    BY <2>1, <2>3, <2>4 DEF Owns
<1>5. \A c \in 1 .. Corners : Side(p, c, pt) \in Int /\ Side(p, c, pt) >= 0
  BY FoundInside, SideIsCross
<1> QED
  BY <1>3, <1>4, <1>5 DEF JustWithin

\* What the test without rounding tells of a convex fence: whether the place a little
\* left of the point, and much less below it, is in the fence.
LEMMA InsideIsJustWithin ==
    \A p \in Polygons, pt \in Points :
        Convex(p) /\ pt # NoFix => (Inside(p, pt) <=> JustWithin(p, pt))
<1> SUFFICES ASSUME NEW p \in Polygons, NEW pt \in Points, Convex(p), pt # NoFix,
                    JustWithin(p, pt)
             PROVE  Inside(p, pt)
  BY FoundIsJustWithin
<1>1. PICK u \in 1 .. Corners, d \in 1 .. Corners : Up(p, u, pt) /\ Down(p, d, pt)
  <2>1. ASSUME NEW e \in 1 .. Corners, Zigzag(p, e, pt)
        PROVE  \E u, d \in 1 .. Corners : Up(p, u, pt) /\ Down(p, d, pt)
    <3>1. 1 .. Corners = {1, 2, 3, 4, 5}
      BY DEF Corners
    <3>2. Before(1) = 5 /\ Before(2) = 1 /\ Before(3) = 2 /\ Before(4) = 3 /\ Before(5) = 4
      BY DEF Before, Corners
    <3>3. \E u \in 1 .. Corners : Up(p, u, pt)
      BY ONLY <2>1, <3>1, <3>2, SMTT(30) DEF Zigzag, Up
    <3>4. \E d \in 1 .. Corners : Down(p, d, pt)
      BY ONLY <2>1, <3>1, <3>2, SMTT(30) DEF Zigzag, Down
    <3> QED
      BY <3>3, <3>4
  <2> QED
    BY <2>1, JustWithinHeights, Round
<1>2. ASSUME NEW c \in 1 .. Corners, Up(p, c, pt) \/ Down(p, c, pt)
      PROVE  /\ Side(p, c, pt) >= 0
             /\ Down(p, c, pt) => Side(p, c, pt) > 0
  <2>1. PICK yi \in Int, yj \in Int, y \in Int :
          yi = p[c][2] /\ yj = p[Before(c)][2] /\ y = pt[2]
    BY Coordinates DEF Points
  <2>2. p[c] # p[Before(c)]
    BY <1>2 DEF Up, Down, Below
  <2>3. Side(p, c, pt) > 0 \/ (Side(p, c, pt) = 0 /\ Owns(p, c))
    BY <2>2 DEF JustWithin
  <2>4. Down(p, c, pt) => ~ Owns(p, c)
    BY <2>1 DEF Down, Below, Owns
  <2> QED
    BY <2>3, <2>4, SideIsCross
<1> QED
  BY <1>1, <1>2, InsideIsBetween

\* In particular it is true of a point left of every edge.
LEMMA InnerPointsInside ==
    \A p \in Polygons, pt \in Points :
        Convex(p) /\ Within(p, pt) /\ pt # NoFix => Inside(p, pt)
<1> SUFFICES ASSUME NEW p \in Polygons, NEW pt \in Points, Within(p, pt)
             PROVE  JustWithin(p, pt)
  BY InsideIsJustWithin
<1>1. \A c \in 1 .. Corners : p[c] # p[Before(c)]
  BY NoSideOfAPoint DEF Within
<1> QED
  BY <1>1 DEF Within, JustWithin, Corners

\* And it is false of a point right of some edge.
LEMMA OuterPointsOutside ==
    \A p \in Polygons, pt \in Points : Convex(p) /\ Beyond(p, pt) => ~ Inside(p, pt)
<1> SUFFICES ASSUME NEW p \in Polygons, NEW pt \in Points, Convex(p),
                    NEW c \in 1 .. Corners, Side(p, c, pt) < 0, Inside(p, pt)
             PROVE  FALSE
  BY DEF Beyond
<1> QED
  BY FoundInside, SideIsCross

-----------------------------------------------------------------------------
\* Two convex fences on the two sides of an edge have no point in common when nothing
\* is rounded.
LEMMA ApartHaveNoPointInCommon ==
    \A p, q \in Polygons, pt \in Points :
        Convex(p) /\ Convex(q) /\ Apart(p, q)
        => ~ (Inside(p, pt) /\ Inside(q, pt))
<1> SUFFICES ASSUME NEW p \in Polygons, NEW q \in Polygons, NEW c \in 1 .. Corners,
                    NEW pt \in Points, Convex(p), Convex(q), p[c] # p[Before(c)],
                    \A e \in 1 .. Corners : Side(p, c, q[e]) <= 0,
                    Inside(p, pt), Inside(q, pt)
             PROVE  FALSE
  BY DEF Apart
<1>1. PICK f \in Int, t \in Int : f = Side(p, c, pt) /\ t = Rise(p, c)
  BY Coordinates, SideIsCross DEF Rise
<1>2. f >= 0
  BY <1>1, FoundInside
<1>3. PICK d \in 1 .. Corners : Down(p, d, pt) /\ Side(p, d, pt) > 0
  BY FoundInside
<1>4. PICK v \in 1 .. Corners, g \in 1 .. Corners :
        /\ Up(q, v, pt) /\ Down(q, g, pt) /\ Side(q, v, pt) >= 0 /\ Side(q, g, pt) > 0
  BY FoundInside
<1> DEFINE Weighed(m, k, l, w, z, s) == m * f = k * w + l * z + t * s
<1>5. ASSUME NEW r \in {p, q}, NEW e \in 1 .. Corners
      PROVE  \E m, k, l, w, z, s \in Int :
               /\ s = Side(r, e, pt)
               /\ Weighed(m, k, l, w, z, s)
               /\ Up(r, e, pt) => m > 0 /\ k >= 0 /\ l > 0
               /\ Down(r, e, pt) => m < 0 /\ k < 0 /\ l <= 0
               /\ r = p => w >= 0 /\ z >= 0
               /\ r = q => w <= 0 /\ z <= 0
  <2>1. r \in Polygons /\ Before(e) \in 1 .. Corners
    BY Coordinates
  <2>2. r[e] \in Points /\ r[Before(e)] \in Points
    BY <2>1 DEF Polygons
  <2>3. PICK yi \in Int, yj \in Int, y \in Int : yi = r[e][2] /\ yj = r[Before(e)][2] /\ y = pt[2]
    BY <2>1, Coordinates DEF Points
  <2>4. PICK w \in Int, z \in Int, s \in Int :
          w = Side(p, c, r[Before(e)]) /\ z = Side(p, c, r[e]) /\ s = Side(r, e, pt)
    BY <2>1, <2>2, SideIsCross
  <2>5. (yi - yj) * f = (yi - y) * w + (y - yj) * z + t * s
    BY <1>1, <2>1, <2>3, <2>4, AlongEdge DEF Rise
  <2>6. /\ Up(r, e, pt) => yi - yj > 0 /\ yi - y >= 0 /\ y - yj > 0
        /\ Down(r, e, pt) => yi - yj < 0 /\ yi - y < 0 /\ y - yj <= 0
    BY <2>3 DEF Up, Down, Below
  <2>7. /\ r = p => w >= 0 /\ z >= 0
        /\ r = q => w <= 0 /\ z <= 0
    BY <2>1, <2>4 DEF Convex
  <2>8. /\ yi - yj \in Int /\ yi - y \in Int /\ y - yj \in Int
    OBVIOUS
  <2> WITNESS yi - yj \in Int, yi - y \in Int, y - yj \in Int, w \in Int, z \in Int, s \in Int
  <2> QED
    BY ONLY <2>4, <2>5, <2>6, <2>7
<1> HIDE DEF Weighed
<1>6. f = 0 => t >= 0
  <2>1. PICK m \in Int, k \in Int, l \in Int, w \in Int, z \in Int, s \in Int :
          /\ Weighed(m, k, l, w, z, s) /\ s > 0
          /\ m < 0 /\ k < 0 /\ l <= 0 /\ w >= 0 /\ z >= 0
    <3>1. PICK m \in Int, k \in Int, l \in Int, w \in Int, z \in Int, s \in Int :
            /\ s = Side(p, d, pt) /\ Weighed(m, k, l, w, z, s)
            /\ Down(p, d, pt) => m < 0 /\ k < 0 /\ l <= 0
            /\ w >= 0 /\ z >= 0
      BY ONLY <1>5
    <3> QED
      BY ONLY <1>3, <1>4, <3>1
  <2>2. k * w <= 0 /\ l * z <= 0
    BY <2>1
  <2>3. f = 0 => t * s >= 0
    BY <2>1, <2>2 DEF Weighed
  <2> QED
    BY <2>1, <2>3
<1>7. /\ t >= 0 => f <= 0
      /\ f = 0 => t <= 0
  <2>1. PICK m \in Int, k \in Int, l \in Int, w \in Int, z \in Int, s \in Int :
          /\ Weighed(m, k, l, w, z, s) /\ s > 0
          /\ m < 0 /\ k < 0 /\ l <= 0 /\ w <= 0 /\ z <= 0
    <3>1. PICK m \in Int, k \in Int, l \in Int, w \in Int, z \in Int, s \in Int :
            /\ s = Side(q, g, pt) /\ Weighed(m, k, l, w, z, s)
            /\ Down(q, g, pt) => m < 0 /\ k < 0 /\ l <= 0
            /\ w <= 0 /\ z <= 0
      BY ONLY <1>5
    <3> QED
      BY ONLY <1>3, <1>4, <3>1
  <2>2. k * w >= 0 /\ l * z >= 0
    BY <2>1
  <2>3. f = 0 => t * s <= 0
    BY <2>1, <2>2 DEF Weighed
  <2>4. ASSUME t >= 0 PROVE f <= 0
    <3>1. t * s >= 0
      BY <2>1, <2>4
    <3>2. m * f >= 0
      BY <2>1, <2>2, <3>1 DEF Weighed
    <3> QED
      BY <2>1, <3>2
  <2>5. ASSUME f = 0 PROVE t <= 0
    BY ONLY <2>1, <2>3, <2>5, t \in Int, s \in Int
  <2> QED
    BY <2>4, <2>5
<1>8. t <= 0 => f <= 0
  <2>1. PICK m \in Int, k \in Int, l \in Int, w \in Int, z \in Int, s \in Int :
          /\ Weighed(m, k, l, w, z, s) /\ s >= 0
          /\ m > 0 /\ k >= 0 /\ l > 0 /\ w <= 0 /\ z <= 0
    <3>1. PICK m \in Int, k \in Int, l \in Int, w \in Int, z \in Int, s \in Int :
            /\ s = Side(q, v, pt) /\ Weighed(m, k, l, w, z, s)
            /\ Up(q, v, pt) => m > 0 /\ k >= 0 /\ l > 0
            /\ w <= 0 /\ z <= 0
      BY ONLY <1>5
    <3> QED
      BY ONLY <1>3, <1>4, <3>1
  <2>2. k * w <= 0 /\ l * z <= 0
    BY <2>1
  <2> SUFFICES ASSUME t <= 0 PROVE f <= 0
    OBVIOUS
  <2>3. t * s <= 0
    BY <2>1
  <2>4. m * f <= 0
    BY <2>1, <2>2, <2>3 DEF Weighed
  <2> QED
    BY ONLY <2>1, <2>4, m \in Int, f \in Int
<1>9. f = 0 /\ t = 0
  BY <1>2, <1>6, <1>7, <1>8
<1>10. PICK ax \in Int, ay \in Int, bx \in Int, x \in Int, y \in Int :
         /\ p[c][1] = bx /\ p[c][2] = ay /\ p[Before(c)][1] = ax /\ p[Before(c)][2] = ay
         /\ pt[1] = x /\ pt[2] = y
  <2>1. PICK ax \in Int, ay \in Int, bx \in Int, by \in Int :
          p[c][1] = bx /\ p[c][2] = by /\ p[Before(c)][1] = ax /\ p[Before(c)][2] = ay
    BY Coordinates
  <2>2. by = ay
    BY <1>1, <1>9, <2>1 DEF Rise
  <2>3. PICK x \in Int, y \in Int : pt[1] = x /\ pt[2] = y
    BY DEF Points
  <2> QED
    BY ONLY <2>1, <2>2, <2>3
<1>11. bx # ax
  <2>1. p[c] = << bx, ay >> /\ p[Before(c)] = << ax, ay >>
    <3>1. p[c] \in Int \X Int /\ p[Before(c)] \in Int \X Int
      BY Coordinates DEF Polygons, Points
    <3> QED
      BY ONLY <1>10, <3>1
  <2> QED
    BY <2>1
<1>12. ASSUME NEW a \in Points
       PROVE  Side(p, c, a) = (bx - ax) * (a[2] - ay) /\ a[2] \in Int
  BY <1>10 DEF Side, Points
<1>13. y = ay
  <2>1. (bx - ax) * (y - ay) = 0
    BY <1>1, <1>9, <1>10, <1>12
  <2> QED
    BY ONLY <2>1, <1>11, ax \in Int, bx \in Int, y \in Int, ay \in Int
<1>14. ASSUME NEW r \in Polygons, NEW e \in 1 .. Corners
       PROVE  /\ bx > ax /\ Side(p, c, r[e]) >= 0 => ~ Below(r, e, pt)
              /\ bx < ax /\ Side(p, c, r[e]) <= 0 => ~ Below(r, e, pt)
  <2>1. r[e] \in Points
    BY DEF Polygons
  <2>2. PICK h \in Int : h = r[e][2] - y /\ Side(p, c, r[e]) = (bx - ax) * h
    BY <1>12, <1>13, <2>1
  <2>3. /\ bx > ax /\ (bx - ax) * h >= 0 => h >= 0
        /\ bx < ax /\ (bx - ax) * h <= 0 => h >= 0
    OBVIOUS
  <2>4. Below(r, e, pt) => h < 0
    BY <1>10, <1>12, <2>1, <2>2 DEF Below
  <2> QED
    BY <2>2, <2>3, <2>4
<1>15. CASE bx > ax
  <2>1. \A e \in 1 .. Corners : Side(p, c, p[e]) >= 0
    BY DEF Convex
  <2> QED
    BY <1>3, <1>14, <1>15, <2>1 DEF Down
<1>16. CASE bx < ax
  BY <1>4, <1>14, <1>16 DEF Down
<1> QED
  BY <1>11, <1>15, <1>16

-----------------------------------------------------------------------------
(* With the rounding of floats.                                            *)

\* A side beyond what an error within E adds up to along the edge keeps its sign.
LEMMA SignKept ==
    ASSUME NEW s \in Int, NEW t \in Int, NEW e \in Int, NEW E \in Nat, -E <= e, e <= E,
           \/ s > E * t /\ s > -(E * t)
           \/ s < E * t /\ s < -(E * t)
    PROVE  /\ s > -(e * t) <=> s > 0
           /\ s < -(e * t) <=> s < 0
<1> DEFINE a == E * t
           b == e * t
<1>1. a \in Int /\ b \in Int
  OBVIOUS
<1>2. (b <= a /\ -a <= b) \/ (a <= b /\ b <= -a)
  <2>1. CASE t >= 0
    <3>1. (E - e) * t >= 0 /\ (E + e) * t >= 0
      BY <2>1
    <3>2. (E - e) * t = a - b /\ (E + e) * t = a + b
      OBVIOUS
    <3> HIDE DEF a, b
    <3> QED
      BY <1>1, <3>1, <3>2
  <2>2. CASE t < 0
    <3>1. (E - e) * t <= 0 /\ (E + e) * t <= 0
      BY <2>2
    <3>2. (E - e) * t = a - b /\ (E + e) * t = a + b
      OBVIOUS
    <3> HIDE DEF a, b
    <3> QED
      BY <1>1, <3>1, <3>2
  <2> QED
    BY <2>1, <2>2
<1>3. (s > a /\ s > -a) \/ (s < a /\ s < -a)
  OBVIOUS
<1> HIDE DEF a, b
<1>4. (s > -b <=> s > 0) /\ (s < -b <=> s < 0)
  BY <1>1, <1>2, <1>3
<1> QED
  BY <1>4 DEF b

\* No rounding within Err changes which edges are counted for a clear point.
LEMMA ClearIsSettled ==
    ASSUME NEW p \in Polygons, NEW pt \in Points, Clear(p, pt),
           NEW e \in Int, -Err <= e, e <= Err
    PROVE  Crossed(p, pt, e) = Crossed(p, pt, 0)
<1>1. Err \in Nat
  BY FloatAssumption
<1>2. SUFFICES ASSUME NEW c \in 1 .. Corners, Straddles(p, c, pt)
               PROVE  CrossesLeft(p, c, pt, e) <=> CrossesLeft(p, c, pt, 0)
  BY DEF Crossed
<1>3. PICK xi \in Int, yi \in Int, xj \in Int, yj \in Int :
         /\ p[c][1] = xi /\ p[c][2] = yi
         /\ p[Before(c)][1] = xj /\ p[Before(c)][2] = yj
  BY Coordinates
<1>4. PICK x \in Int, y \in Int : pt[1] = x /\ pt[2] = y
  BY DEF Points
<1>5. PICK s \in Int, t \in Int : s = Side(p, c, pt) /\ t = yi - yj
  BY SideIsCross
<1>6. s = (xi - xj) * (y - yj) - (yi - yj) * (x - xj)
  BY <1>3, <1>4, <1>5 DEF Side
<1>7. ASSUME NEW d \in Int, -Err <= d, d <= Err
      PROVE  (y - yi) * (xj - xi) - (x - d - xi) * (yj - yi) = - s - d * t
  BY <1>5, <1>6
<1>8. \/ s > Err * t /\ s > -(Err * t)
      \/ s < Err * t /\ s < -(Err * t)
  BY <1>2, <1>3, <1>5 DEF Clear, Rise
<1>9. ASSUME NEW d \in Int, -Err <= d, d <= Err
      PROVE  CrossesLeft(p, c, pt, d) <=> IF yj > yi THEN s > 0 ELSE s < 0
  <2>1. PICK l \in Int, r \in Int, b \in Int :
          /\ l = (y - yi) * (xj - xi) /\ r = (x - d - xi) * (yj - yi) /\ b = d * t
    OBVIOUS
  <2>2. CrossesLeft(p, c, pt, d) <=> IF yj > yi THEN l < r ELSE l > r
    BY <1>3, <1>4, <2>1 DEF CrossesLeft
  <2>3. l - r = - s - b
    BY <1>7, <1>9, <2>1
  <2>4. (s > -b <=> s > 0) /\ (s < -b <=> s < 0)
    BY ONLY <1>1, <1>8, <1>9, <2>1, SignKept
  <2> QED
    BY ONLY <2>2, <2>3, <2>4, s \in Int, b \in Int, l \in Int, r \in Int
<1>10. -Err <= 0 /\ 0 <= Err
  BY <1>1
<1> QED
  BY <1>9, <1>10

\* So there is only one answer, that of the test without rounding.
LEMMA ClearHasOneAnswer ==
    ASSUME NEW p \in Polygons, NEW pt \in Points, Clear(p, pt)
    PROVE  pointInPolygon(p, pt) = {Inside(p, pt)}
<1>1. Err \in Int /\ -Err \in Int /\ -Err <= Err /\ -Err <= -Err /\ Err <= Err
  BY FloatAssumption
<1>2. Crossed(p, pt, -Err) = Crossed(p, pt, 0) /\ Crossed(p, pt, Err) = Crossed(p, pt, 0)
  BY <1>1, ClearIsSettled
<1>3. { T \in SUBSET Crossed(p, pt, -Err) : Crossed(p, pt, Err) \subseteq T }
        = {Crossed(p, pt, 0)}
  BY ONLY <1>2
<1>4. pt = NoFix => pointInPolygon(p, pt) = {FALSE} /\ Inside(p, pt) = FALSE
  BY DEF pointInPolygon, Inside
<1>5. pt # NoFix => pointInPolygon(p, pt) = {Cardinality(Crossed(p, pt, 0)) % 2 = 1}
  BY <1>3 DEF pointInPolygon
<1>6. pt # NoFix => Inside(p, pt) = (Cardinality(Crossed(p, pt, 0)) % 2 = 1)
  BY DEF Inside
<1> QED
  BY <1>4, <1>5, <1>6

\* pointInPolygon() answers TRUE, however floats round, for every point left of all
\* edges of a convex fence that is not closer to them than the rounding reaches.
THEOREM InnerPointsFound ==
    \A p \in Polygons, pt \in Points :
        Convex(p) /\ Within(p, pt) /\ Clear(p, pt) /\ pt # NoFix
        => pointInPolygon(p, pt) = {TRUE}
<1> SUFFICES ASSUME NEW p \in Polygons, NEW pt \in Points, Convex(p), Within(p, pt),
                    Clear(p, pt), pt # NoFix
             PROVE  pointInPolygon(p, pt) = {TRUE}
  OBVIOUS
<1>1. Inside(p, pt) = TRUE
  BY InnerPointsInside DEF Inside
<1> QED
  BY <1>1, ClearHasOneAnswer

\* And it answers FALSE for every such point right of some edge.
THEOREM OuterPointsRejected ==
    \A p \in Polygons, pt \in Points :
        Convex(p) /\ Beyond(p, pt) /\ Clear(p, pt) => pointInPolygon(p, pt) = {FALSE}
<1> SUFFICES ASSUME NEW p \in Polygons, NEW pt \in Points, Convex(p), Beyond(p, pt),
                    Clear(p, pt)
             PROVE  pointInPolygon(p, pt) = {FALSE}
  OBVIOUS
<1>1. Inside(p, pt) = FALSE
  BY OuterPointsOutside DEF Inside
<1> QED
  BY <1>1, ClearHasOneAnswer

\* A bus that is clear of the edges of two convex fences side by side is never found
\* inside both, however floats round.  Closer to their edges it may be.
THEOREM ApartNotBothInside ==
    \A p, q \in Polygons, pt \in Points :
        /\ Convex(p) /\ Convex(q) /\ Apart(p, q)
        /\ Clear(p, pt) /\ Clear(q, pt)
        => ~ (TRUE \in pointInPolygon(p, pt) /\ TRUE \in pointInPolygon(q, pt))
<1> SUFFICES ASSUME NEW p \in Polygons, NEW q \in Polygons, NEW pt \in Points,
                    Convex(p), Convex(q), Apart(p, q), Clear(p, pt), Clear(q, pt),
                    TRUE \in pointInPolygon(p, pt), TRUE \in pointInPolygon(q, pt)
             PROVE  FALSE
  OBVIOUS
<1>1. Inside(p, pt) /\ Inside(q, pt)
  BY ClearHasOneAnswer
<1> QED
  BY <1>1, ApartHaveNoPointInCommon

-----------------------------------------------------------------------------
(* The fences the project draws.                                           *)

\* A product moves little when both factors do.
LEMMA SmallMove ==
    ASSUME NEW a \in Int, NEW v \in Int, -2000 <= a, a <= 2000, -16 <= v, v <= 16
    PROVE  -32000 <= a * v /\ a * v <= 32000
<1>1. /\ (a + 2000) * (v + 16) >= 0 /\ (2000 - a) * (16 - v) >= 0
      /\ (a + 2000) * (16 - v) >= 0 /\ (2000 - a) * (v + 16) >= 0
  OBVIOUS
<1>2. PICK m \in Int : m = a * v
  OBVIOUS
<1>3. /\ (a + 2000) * (v + 16) = m + 16 * a + 2000 * v + 32000
      /\ (2000 - a) * (16 - v) = m - 16 * a - 2000 * v + 32000
      /\ (a + 2000) * (16 - v) = 16 * a - m + 32000 - 2000 * v
      /\ (2000 - a) * (v + 16) = 2000 * v + 32000 - m - 16 * a
  BY <1>2
<1> QED
  BY <1>1, <1>2, <1>3

\* A wide left turn stays one when its corners move a little.
LEMMA TurnKept ==
    ASSUME NEW a \in Int, NEW b \in Int, NEW f \in Int, NEW g \in Int,
           -2000 <= a, a <= 2000, -2000 <= b, b <= 2000,
           -2000 <= f, f <= 2000, -2000 <= g, g <= 2000,
           NEW u \in Int, NEW v \in Int, NEW w \in Int, NEW z \in Int,
           -16 <= u, u <= 16, -16 <= v, v <= 16, -16 <= w, w <= 16, -16 <= z, z <= 16,
           a * b - f * g >= 200000
    PROVE  (a + u) * (b + v) - (f + w) * (g + z) >= 0
<1>1. /\ -32000 <= a * v /\ a * v <= 32000
      /\ -32000 <= b * u /\ b * u <= 32000
      /\ -32000 <= f * z /\ f * z <= 32000
      /\ -32000 <= g * w /\ g * w <= 32000
      /\ -32000 <= u * v /\ u * v <= 32000
      /\ -32000 <= w * z /\ w * z <= 32000
  BY SmallMove
<1>2. PICK ab \in Int, fg \in Int, av \in Int, bu \in Int, fz \in Int, gw \in Int,
           uv \in Int, wz \in Int :
        /\ ab = a * b /\ fg = f * g /\ av = a * v /\ bu = b * u
        /\ fz = f * z /\ gw = g * w /\ uv = u * v /\ wz = w * z
  OBVIOUS
<1>3. (a + u) * (b + v) - (f + w) * (g + z) = ab + av + bu + uv - fg - fz - gw - wz
  BY <1>2
<1> QED
  BY <1>1, <1>2, <1>3

\* The corners of the pentagon around a stop at (0, 0).
PentX == << 898, 278, -727, -727, 278 >>
PentY == << 0, 854, 528, -528, -854 >>

\* Every corner of the pentagon is far to the left of the edges it is not on.
LEMMA WideTurns ==
    ASSUME NEW c \in 1 .. Corners, NEW d \in (1 .. Corners) \ {c, Before(c)}
    PROVE  LET b == Before(c)
           IN  (PentX[c] - PentX[b]) * (PentY[d] - PentY[b])
                 - (PentY[c] - PentY[b]) * (PentX[d] - PentX[b]) >= 200000
<1>1. 1 .. Corners = {1, 2, 3, 4, 5}
  BY DEF Corners
<1>2. Before(1) = 5 /\ Before(2) = 1 /\ Before(3) = 2 /\ Before(4) = 3 /\ Before(5) = 4
  BY DEF Before, Corners
<1>3. CASE c = 1
  BY <1>1, <1>2, <1>3 DEF PentX, PentY
<1>4. CASE c = 2
  BY <1>1, <1>2, <1>4 DEF PentX, PentY
<1>5. CASE c = 3
  BY <1>1, <1>2, <1>5 DEF PentX, PentY
<1>6. CASE c = 4
  BY <1>1, <1>2, <1>6 DEF PentX, PentY
<1>7. CASE c = 5
  BY <1>1, <1>2, <1>7 DEF PentX, PentY
<1> QED
  BY <1>1, <1>3, <1>4, <1>5, <1>6, <1>7

\* The corners of p are a little off the pentagon around a stop at (x, y).
NearPentagon(p, x, y) ==
    \A c \in 1 .. Corners :
        /\ -8 <= p[c][1] - x - PentX[c] /\ p[c][1] - x - PentX[c] <= 8
        /\ -8 <= p[c][2] - y - PentY[c] /\ p[c][2] - y - PentY[c] <= 8

\* Such a pentagon is still convex.
LEMMA NearlyPentagon ==
    ASSUME NEW p \in Polygons, NEW x \in Int, NEW y \in Int, NearPentagon(p, x, y)
    PROVE  Convex(p)
<1> SUFFICES ASSUME NEW c \in 1 .. Corners, NEW d \in 1 .. Corners
             PROVE  Side(p, c, p[d]) >= 0
  BY DEF Convex
<1> DEFINE o == Before(c)
           xc == PentX[c]  xo == PentX[o]  xd == PentX[d]
           yc == PentY[c]  yo == PentY[o]  yd == PentY[d]
           ec == p[c][1] - x - xc  eo == p[o][1] - x - xo  ed == p[d][1] - x - xd
           fc == p[c][2] - y - yc  fo == p[o][2] - y - yo  fd == p[d][2] - y - yd
           a == xc - xo    b == yd - yo    k == yc - yo    g == xd - xo
           u == ec - eo    v == fd - fo    w == fc - fo    z == ed - eo
<1>1. o \in 1 .. Corners
  BY Coordinates
<1>2. \A i \in 1 .. Corners : /\ PentX[i] \in Int /\ PentX[i] >= -727 /\ PentX[i] <= 898
                              /\ PentY[i] \in Int /\ PentY[i] >= -854 /\ PentY[i] <= 854
  BY DEF Corners, PentX, PentY
<1>3. /\ xc \in Int /\ xc >= -727 /\ xc <= 898 /\ yc \in Int /\ yc >= -854 /\ yc <= 854
      /\ xo \in Int /\ xo >= -727 /\ xo <= 898 /\ yo \in Int /\ yo >= -854 /\ yo <= 854
      /\ xd \in Int /\ xd >= -727 /\ xd <= 898 /\ yd \in Int /\ yd >= -854 /\ yd <= 854
  BY <1>1, <1>2
<1>0. /\ p[c][1] \in Int /\ p[c][2] \in Int /\ p[o][1] \in Int /\ p[o][2] \in Int
      /\ p[d][1] \in Int /\ p[d][2] \in Int
  BY <1>1, Coordinates
<1>4. /\ ec \in Int /\ -8 <= ec /\ ec <= 8 /\ fc \in Int /\ -8 <= fc /\ fc <= 8
      /\ eo \in Int /\ -8 <= eo /\ eo <= 8 /\ fo \in Int /\ -8 <= fo /\ fo <= 8
      /\ ed \in Int /\ -8 <= ed /\ ed <= 8 /\ fd \in Int /\ -8 <= fd /\ fd <= 8
  BY <1>0, <1>1, <1>3 DEF NearPentagon
<1>5. /\ p[c][1] = x + xc + ec /\ p[c][2] = y + yc + fc
      /\ p[o][1] = x + xo + eo /\ p[o][2] = y + yo + fo
      /\ p[d][1] = x + xd + ed /\ p[d][2] = y + yd + fd
  BY <1>0, <1>3
<1>6. Side(p, c, p[d]) = (p[c][1] - p[o][1]) * (p[d][2] - p[o][2])
                           - (p[c][2] - p[o][2]) * (p[d][1] - p[o][1])
  BY DEF Side
<1>7. CASE d = c
  <2>1. PICK i \in Int, j \in Int : i = p[c][1] - p[o][1] /\ j = p[c][2] - p[o][2]
    BY <1>1, Coordinates
  <2>2. Side(p, c, p[d]) = i * j - j * i
    BY ONLY <1>6, <1>7, <2>1
  <2> QED
    BY <2>2
<1>8. CASE d = o
  <2>1. PICK i \in Int, j \in Int : i = p[c][1] - p[o][1] /\ j = p[c][2] - p[o][2]
    BY <1>1, Coordinates
  <2>2. p[d][1] - p[o][1] = 0 /\ p[d][2] - p[o][2] = 0
    BY <1>1, <1>8, Coordinates
  <2>3. Side(p, c, p[d]) = i * 0 - j * 0
    BY ONLY <1>6, <2>1, <2>2
  <2> QED
    BY <2>3
<1>9. CASE d \notin {c, o}
  <2>1. a * b - k * g >= 200000
    BY <1>9, WideTurns
  <2> HIDE DEF o, xc, xo, xd, yc, yo, yd, ec, eo, ed, fc, fo, fd
  <2>2. /\ a \in Int /\ -2000 <= a /\ a <= 2000 /\ b \in Int /\ -2000 <= b /\ b <= 2000
        /\ k \in Int /\ -2000 <= k /\ k <= 2000 /\ g \in Int /\ -2000 <= g /\ g <= 2000
    BY ONLY <1>3
  <2>3. /\ u \in Int /\ -16 <= u /\ u <= 16 /\ v \in Int /\ -16 <= v /\ v <= 16
        /\ w \in Int /\ -16 <= w /\ w <= 16 /\ z \in Int /\ -16 <= z /\ z <= 16
    BY ONLY <1>4
  <2>4. /\ p[c][1] - p[o][1] = a + u /\ p[d][2] - p[o][2] = b + v
        /\ p[c][2] - p[o][2] = k + w /\ p[d][1] - p[o][1] = g + z
    BY ONLY <1>3, <1>4, <1>5, x \in Int, y \in Int
  <2> HIDE DEF a, b, k, g, u, v, w, z
  <2>5. (a + u) * (b + v) - (k + w) * (g + z) >= 0
    BY ONLY <2>1, <2>2, <2>3, TurnKept
  <2> QED
    BY ONLY <1>6, <2>4, <2>5
<1> QED
  BY <1>7, <1>8, <1>9

\* A number is stored with an error of at most half the spacing.
LEMMA StoredNear ==
    ASSUME NEW u \in Nat \ {0}, NEW v \in Int
    PROVE  /\ Stored(v, u) \in Int
           /\ u <= 14 => Stored(v, u) - v >= -7 /\ Stored(v, u) - v <= 7
<1>1. PICK h \in Int, q \in Int : h = u \div 2 /\ q = (v + h) \div u
  OBVIOUS
<1>2. 2 * h <= u /\ u <= 2 * h + 1
  BY <1>1
<1>3. u * q <= v + h /\ v + h < u * q + u
  BY <1>1
<1>4. PICK m \in Int : m = u * q
  OBVIOUS
<1>5. Stored(v, u) = m
  BY <1>1, <1>4 DEF Stored
<1> QED
  BY <1>2, <1>3, <1>4, <1>5

\* The pentagons generatePolygonVertices() draws are convex as floats, also when
\* printing has put numbers one unit off: the results above apply to them.
THEOREM GeneratedFencesAreConvex ==
    ASSUME UlpX <= 14, UlpY <= 14
    PROVE  \A x, y \in Int, numbers \in [1 .. 2 * Corners -> Int] :
               (\A k \in 1 .. 2 * Corners :
                   numbers[k] - generatePolygonVertices(x, y)[k] \in -1 .. 1)
               => Convex(Drawn(numbers))
<1> SUFFICES ASSUME NEW x \in Int, NEW y \in Int, NEW numbers \in [1 .. 2 * Corners -> Int],
                    \A k \in 1 .. 2 * Corners :
                       numbers[k] - generatePolygonVertices(x, y)[k] \in -1 .. 1
             PROVE  Convex(Drawn(numbers))
  OBVIOUS
<1> DEFINE p == Drawn(numbers)
<1>1. 1 .. Corners = {1, 2, 3, 4, 5}
  BY DEF Corners
<1>2. \A c \in 1 .. Corners : /\ 2 * c - 1 \in 1 .. 2 * Corners /\ 2 * c \in 1 .. 2 * Corners
                              /\ PentX[c] \in Int /\ PentY[c] \in Int
  BY <1>1 DEF Corners, PentX, PentY
<1>3. \A c \in 1 .. Corners : /\ generatePolygonVertices(x, y)[2 * c - 1] = x + PentX[c]
                              /\ generatePolygonVertices(x, y)[2 * c] = y + PentY[c]
  <2> SUFFICES ASSUME NEW c \in {1, 2, 3, 4, 5}
               PROVE  /\ generatePolygonVertices(x, y)[2 * c - 1] = x + PentX[c]
                      /\ generatePolygonVertices(x, y)[2 * c] = y + PentY[c]
    BY <1>1
  <2>1. CASE c = 1
    BY <2>1 DEF generatePolygonVertices, PentX, PentY
  <2>2. CASE c = 2
    BY <2>2 DEF generatePolygonVertices, PentX, PentY
  <2>3. CASE c = 3
    BY <2>3 DEF generatePolygonVertices, PentX, PentY
  <2>4. CASE c = 4
    BY <2>4 DEF generatePolygonVertices, PentX, PentY
  <2>5. CASE c = 5
    BY <2>5 DEF generatePolygonVertices, PentX, PentY
  <2> QED
    BY <2>1, <2>2, <2>3, <2>4, <2>5
<1>4. ASSUME NEW c \in 1 .. Corners
      PROVE  /\ p[c] \in Points
             /\ \E s \in Int, t \in Int :
               /\ p[c] = << s, t >>
               /\ -8 <= s - x - PentX[c] /\ s - x - PentX[c] <= 8
               /\ -8 <= t - y - PentY[c] /\ t - y - PentY[c] <= 8
  <2> DEFINE m == numbers[2 * c - 1]  n == numbers[2 * c]
             s == Stored(m, UlpX)     t == Stored(n, UlpY)
             X == PentX[c]            Y == PentY[c]
  <2>1. m \in Int /\ n \in Int /\ X \in Int /\ Y \in Int
    BY <1>2
  <2>2. /\ s \in Int /\ s - m >= -7 /\ s - m <= 7
        /\ t \in Int /\ t - n >= -7 /\ t - n <= 7
    BY <2>1, FloatAssumption, StoredNear
  <2>3. p[c] = << s, t >>
    BY DEF Drawn
  <2>4. m - (x + X) \in -1 .. 1 /\ n - (y + Y) \in -1 .. 1
    BY <1>2, <1>3
  <2> HIDE DEF p, m, n, s, t, X, Y
  <2>5. -1 <= m - (x + X) /\ m - (x + X) <= 1 /\ -1 <= n - (y + Y) /\ n - (y + Y) <= 1
    BY ONLY <2>1, <2>4, x \in Int, y \in Int
  <2>6. -8 <= s - x - X /\ s - x - X <= 8 /\ -8 <= t - y - Y /\ t - y - Y <= 8
    BY ONLY <2>1, <2>2, <2>5, x \in Int, y \in Int
  <2>7. p[c] \in Points
    BY ONLY <2>2, <2>3 DEF Points
  <2> QED
    BY ONLY <2>2, <2>3, <2>6, <2>7 DEF X, Y
<1> HIDE DEF p
<1>5. p \in Polygons
  <2>1. p = [c \in 1 .. Corners |-> p[c]]
    BY DEF p, Drawn
  <2> QED
    BY <1>4, <2>1 DEF Polygons
<1>6. ASSUME NEW c \in 1 .. Corners
      PROVE  /\ -8 <= p[c][1] - x - PentX[c] /\ p[c][1] - x - PentX[c] <= 8
             /\ -8 <= p[c][2] - y - PentY[c] /\ p[c][2] - y - PentY[c] <= 8
  <2>1. PICK s \in Int, t \in Int : /\ p[c] = << s, t >>
                                    /\ -8 <= s - x - PentX[c] /\ s - x - PentX[c] <= 8
                                    /\ -8 <= t - y - PentY[c] /\ t - y - PentY[c] <= 8
    BY <1>4
  <2>2. p[c][1] = s /\ p[c][2] = t
    BY <2>1
  <2> QED
    BY ONLY <2>1, <2>2
<1>7. Convex(p)
  BY <1>5, <1>6, NearlyPentagon DEF NearPentagon
<1> QED
  BY <1>7 DEF p

=============================================================================
