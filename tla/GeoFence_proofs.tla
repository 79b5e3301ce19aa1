--------------------------- MODULE GeoFence_proofs ---------------------------
(***************************************************************************)
(* Proofs about GeoFence, for every polygon file and every path of the     *)
(* bus: what a scan says of the single fences, which rests on the theorems *)
(* of GeoFence_geometry, and the stop the task remembers.                  *)
(***************************************************************************)
EXTENDS GeoFence_geometry

TypeOK ==
    /\ file \in Seq(Seq(Int)) /\ poly \in Polygons /\ pos \in Points \cup {NoFix}
    /\ line \in 1 .. LastLine + 1 /\ past \in Int /\ hits \subseteq 1 .. line - 1
    /\ hits \subseteq 1 .. Len(file)

\* The remembered line is the last of those found so far.
Remembered == hits # {} => past \in hits /\ \A h \in hits : h <= past

\* What was found of each complete line tested so far is an answer for its own corners,
\* whatever was in poly before.
Judged ==
    \A i \in 1 .. line - 1 : i <= Len(file) /\ Complete(i) =>
        /\ i \in hits => TRUE \in pointInPolygon(Fence(i), pos)
        /\ i \notin hits => FALSE \in pointInPolygon(Fence(i), pos)

\* The inductive invariant: also in the middle of a scan.
IInv == TypeOK /\ Remembered /\ Judged

\* What Max picks of a set that has a greatest number.
LEMMA MaxIsGreatest ==
    ASSUME NEW S \in SUBSET Int, NEW m \in S, \A s \in S : s <= m
    PROVE  Max(S) = m
<1>1. \E x \in S : \A y \in S : x >= y
  OBVIOUS
<1>2. Max(S) \in S /\ \A y \in S : Max(S) >= y
  BY <1>1 DEF Max
<1>3. PICK n \in Int : n = Max(S)
  BY <1>2
<1>4. n >= m /\ n <= m /\ m \in Int
  BY <1>2, <1>3
<1> QED
  BY ONLY <1>3, <1>4

\* The corners a complete line leaves in poly are its own; a short line leaves corners.
LEMMA ScannedIsDrawn ==
    ASSUME NEW old \in Polygons, NEW s \in Seq(Int)
    PROVE  /\ Scanned(old, s) \in Polygons
           /\ Len(s) = 2 * Corners => Scanned(old, s) = Drawn(s) /\ Drawn(s) \in Polygons
<1>1. Len(s) \in Nat /\ \A k \in 1 .. Len(s) : s[k] \in Int
  OBVIOUS
<1>2. ASSUME NEW k \in Int, NEW was \in Int, k > 0
      PROVE  /\ (IF k <= Len(s) THEN Stored(s[k], UlpX) ELSE was) \in Int
             /\ (IF k <= Len(s) THEN Stored(s[k], UlpY) ELSE was) \in Int
  <2>1. k <= Len(s) => s[k] \in Int
    BY <1>1, <1>2
  <2>2. k <= Len(s) => Stored(s[k], UlpX) \in Int /\ Stored(s[k], UlpY) \in Int
    BY <2>1, FloatAssumption, StoredNear
  <2> QED
    BY <2>2
<1>3. \A c \in 1 .. Corners :
        /\ 2 * c - 1 \in Int /\ 2 * c \in Int /\ 2 * c - 1 > 0 /\ 2 * c > 0
        /\ 2 * c - 1 <= 2 * Corners /\ 2 * c <= 2 * Corners
        /\ old[c][1] \in Int /\ old[c][2] \in Int
  BY Coordinates DEF Corners
<1>4. Scanned(old, s) \in Polygons
  BY <1>2, <1>3 DEF Scanned, Polygons, Points
<1>5. ASSUME Len(s) = 2 * Corners PROVE Scanned(old, s) = Drawn(s)
  BY <1>3, <1>5 DEF Scanned, Drawn
<1> QED
  BY <1>4, <1>5

\* The initial states satisfy the inductive invariant.
LEMMA InitInv == Init => IInv
<1> SUFFICES ASSUME Init PROVE IInv
  OBVIOUS
<1>1. TypeOK
  <2>1. file \in Seq(Seq(Int)) /\ poly \in Polygons
    BY FileAssumption DEF Init, Polygons, Points
  <2> QED
    BY <2>1 DEF Init, TypeOK, LastLine
<1>2. Remembered
  BY DEF Init, Remembered
<1>3. Judged
  BY DEF Init, Judged, pointInPolygon
<1> QED
  BY <1>1, <1>2, <1>3 DEF IInv

\* Every step preserves the inductive invariant.
LEMMA StepInv == IInv /\ [Next]_vars => IInv'
<1> SUFFICES ASSUME TypeOK, Remembered, Judged, [Next]_vars PROVE IInv'
    BY DEF IInv
<1>1. CASE Poll
  <2>1. pos' \in Points \cup {NoFix}
    <3>1. \A pt \in Fixes : << Stored(pt[1], UlpX), Stored(pt[2], UlpY) >> \in Points
      BY FixAssumption, FloatAssumption, StoredNear DEF Points
    <3> QED
      BY <1>1, <3>1 DEF Poll
  <2> QED
    BY <1>1, <2>1 DEF Poll, IInv, TypeOK, Remembered, Judged, LastLine
<1>2. CASE UNCHANGED << file, poly, pos, line, past, hits >>
  BY <1>2 DEF IInv, TypeOK, Remembered, Judged, Complete, Fence
<1>3. CASE TestLine
  <2>1. /\ line \in 1 .. LastLine /\ line <= Len(file) /\ line' = line + 1
        /\ poly' = Scanned(poly, file[line]) /\ file' = file /\ pos' = pos
    BY <1>3 DEF TestLine, TypeOK
  <2>2. file[line] \in Seq(Int) /\ file \in Seq(Seq(Int))
    BY <2>1 DEF TypeOK
  <2>3. poly' \in Polygons /\ (Complete(line) => poly' = Fence(line))
    BY <2>1, <2>2, ScannedIsDrawn DEF TypeOK, Complete, Fence
  <2>4. line' \in 1 .. LastLine + 1 /\ line \in Int /\ line' - 1 = line
    BY <2>1 DEF LastLine
  <2>5. \/ /\ TRUE \in pointInPolygon(poly', pos)
           /\ hits' = hits \cup {line} /\ past' = line
        \/ /\ FALSE \in pointInPolygon(poly', pos)
           /\ hits' = hits /\ past' = past
    <3>1. PICK inside \in pointInPolygon(poly', pos) :
            IF inside THEN hits' = hits \cup {line} /\ past' = line
                      ELSE hits' = hits /\ past' = past
      BY <1>3 DEF TestLine
    <3>2. inside \in BOOLEAN
      BY DEF pointInPolygon
    <3> QED
      BY <3>1, <3>2
  <2>6. \A h \in hits : h \in 1 .. line - 1
    BY DEF TypeOK
  <2>7. \/ hits' = hits \cup {line} /\ past' = line
        \/ hits' = hits /\ past' = past
    BY <2>5, Zenon
  <2>8. TypeOK'
    <3>1. past' \in Int
      BY <2>4, <2>7 DEF TypeOK
    <3>2. \A h \in hits' : h \in hits \/ h = line
      BY ONLY <2>7
    <3>3. \A h \in hits' : h \in 1 .. line' - 1 /\ h \in 1 .. Len(file)
      <4>1. \A h \in hits : h \in 1 .. line - 1 /\ h \in 1 .. Len(file)
        BY DEF TypeOK
      <4>2. Len(file) \in Nat /\ line \in 1 .. line /\ line \in 1 .. Len(file)
        BY <2>1, <2>2 DEF LastLine
      <4>3. ASSUME NEW h \in hits' PROVE h \in 1 .. line /\ h \in 1 .. Len(file)
        <5>1. CASE h \in hits
          BY <2>4, <4>1, <5>1
        <5>2. CASE h = line
          BY <4>2, <5>2
        <5> QED
          BY <3>2, <5>1, <5>2
      <4> QED
        BY <2>4, <4>3
    <3> QED
      BY <2>1, <2>2, <2>3, <2>4, <3>1, <3>3 DEF TypeOK
  <2>9. Remembered'
    BY ONLY <2>4, <2>6, <2>7, Remembered DEF Remembered
  <2>10. ASSUME NEW i \in 1 .. line' - 1, i <= Len(file), Complete(i)
        PROVE  /\ i \in hits' => TRUE \in pointInPolygon(Fence(i), pos)
               /\ i \notin hits' => FALSE \in pointInPolygon(Fence(i), pos)
    <3>1. CASE i = line
      <4>1. i \notin hits
        BY <2>4, <2>6, <3>1
      <4>2. poly' = Fence(i)
        BY <2>3, <2>10, <3>1
      <4> QED
        BY <2>5, <3>1, <4>1, <4>2
    <3>2. CASE i \in 1 .. line - 1
      <4>1. i # line
        BY <2>4, <3>2
      <4>2. /\ i \in hits => TRUE \in pointInPolygon(Fence(i), pos)
            /\ i \notin hits => FALSE \in pointInPolygon(Fence(i), pos)
        BY <2>10, <3>2 DEF Judged
      <4> QED
        BY <2>5, <4>1, <4>2
    <3>3. i = line \/ i \in 1 .. line - 1
      BY <2>1, <2>4 DEF LastLine
    <3> QED
      BY ONLY <3>1, <3>2, <3>3, Zenon
  <2>11. Judged'
    BY <2>1, <2>10 DEF Judged, Complete, Fence
  <2> QED
    BY <2>8, <2>9, <2>11 DEF IInv
<1> QED
  BY <1>1, <1>2, <1>3 DEF Next, PollFails, NoLine, vars

\* The inductive invariant holds in every reachable state.
THEOREM Invariance == Spec => []IInv
  BY InitInv, StepInv, PTL DEF Spec

\* What a line that has been tested says of the bus.
LEMMA TestedLine ==
    ASSUME IInv, NEW i \in 1 .. line - 1, i <= Len(file), Complete(i)
    PROVE  /\ i \in hits => TRUE \in pointInPolygon(Fence(i), pos)
           /\ i \notin hits => FALSE \in pointInPolygon(Fence(i), pos)
           /\ Fence(i) \in Polygons
           /\ pos # NoFix => pos \in Points
<1>1. /\ i \in hits => TRUE \in pointInPolygon(Fence(i), pos)
      /\ i \notin hits => FALSE \in pointInPolygon(Fence(i), pos)
  BY DEF IInv, Judged
<1>2. Fence(i) \in Polygons
  <2>1. file[i] \in Seq(Int) /\ poly \in Polygons
    BY DEF IInv, TypeOK
  <2> QED
    BY <2>1, ScannedIsDrawn DEF Complete, Fence
<1>3. pos # NoFix => pos \in Points
  BY DEF IInv, TypeOK
<1> QED
  BY <1>1, <1>2, <1>3

\* For every complete line that draws a convex fence, however floats round, the test
\* of pointInPolygon() finds the bus left of all edges and not right of one, for every
\* position that is further from the edges than the rounding reaches, and never finds
\* a bus without a fix, whatever short lines and earlier scans have left in the corners.
THEOREM FenceTestRight == Spec => []FenceTestIsRight
<1>1. IInv => FenceTestIsRight
  <2> SUFFICES ASSUME IInv, NEW i \in 1 .. line - 1, i <= Len(file), Complete(i),
                      Convex(Fence(i))
               PROVE  IF pos = NoFix THEN i \notin hits
                      ELSE Clear(Fence(i), pos) =>
                             /\ Within(Fence(i), pos) => i \in hits
                             /\ Beyond(Fence(i), pos) => i \notin hits
    BY DEF FenceTestIsRight
  <2>1. CASE pos = NoFix
    <3>1. pointInPolygon(Fence(i), pos) = {FALSE}
      BY <2>1 DEF pointInPolygon
    <3> QED
      BY <2>1, <3>1, TestedLine
  <2>2. CASE pos # NoFix
    <3>1. Fence(i) \in Polygons /\ pos \in Points
      BY <2>2, TestedLine
    <3>2. ASSUME Clear(Fence(i), pos), Within(Fence(i), pos) PROVE i \in hits
      BY <2>2, <3>1, <3>2, TestedLine, InnerPointsFound
    <3>3. ASSUME Clear(Fence(i), pos), Beyond(Fence(i), pos) PROVE i \notin hits
      BY <3>1, <3>3, TestedLine, OuterPointsRejected
    <3> QED
      BY <2>2, <3>2, <3>3
  <2> QED
    BY <2>1, <2>2
<1> QED
  BY <1>1, Invariance, PTL

\* After every scan the remembered stop is the last fence on the route that
\* contains the bus, for lines of any length and fences of any shape.
THEOREM LastHitRemembered == Spec => []CurrentStopIsLastHit
<1>1. IInv => CurrentStopIsLastHit
  <2> SUFFICES ASSUME IInv, hits # {}
               PROVE  past = Max(hits)
    BY DEF CurrentStopIsLastHit
  <2>1. hits \in SUBSET Int /\ past \in hits /\ \A h \in hits : h <= past
    BY DEF IInv, TypeOK, Remembered
  <2> QED
    BY <2>1, MaxIsGreatest
<1> QED
  BY <1>1, Invariance, PTL

=============================================================================
