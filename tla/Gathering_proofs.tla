-------------------------- MODULE Gathering_proofs --------------------------
(***************************************************************************)
(* Proofs about a dog's movement and what it gathers on its way, for every *)
(* map, speed and time delta.                                              *)
(***************************************************************************)
EXTENDS Gathering, FiniteSetTheorems, FunctionTheorems, WellFoundedInduction, TLAPS

----------------------------------------------------------------------------
(* Rounding and roads *)

LEMMA UnitType ==
  /\ Tenth \in Nat \ {0} /\ Epsilon \in Nat /\ Epsilon < Tenth
  /\ Unit \in Nat \ {0} /\ Half \in Nat /\ HalfWidth \in Nat
  /\ Unit = Half + Half /\ Half = HalfWidth + Tenth /\ Half = 5 * Tenth
  /\ HalfWidth = 4 * Tenth
BY UnitAssumption DEF Unit, Half, HalfWidth

LEMMA TimesPositive ==
  ASSUME NEW u \in Nat \ {0}, NEW k \in Int, k >= 1
  PROVE  u * k \in Int /\ u <= u * k
OBVIOUS

\* Units apart.
LEMMA UnitTimes ==
  ASSUME NEW i \in Int, NEW j \in Int
  PROVE  /\ Unit * i \in Int /\ Unit * j \in Int
         /\ i <= j => Unit * i <= Unit * j
         /\ i < j => Unit * i + Unit <= Unit * j
         /\ Unit * i < Unit * j + Unit => i <= j
<1>1. PICK u \in Nat \ {0} : u = Unit
  BY UnitType
<1>2. u * i \in Int /\ u * j \in Int
  OBVIOUS
<1>3. ASSUME NEW k \in Int, NEW l \in Int, k < l PROVE u * k + u <= u * l
  <2>1. u <= u * (l - k)
    BY <1>3, TimesPositive
  <2>2. u * (l - k) = u * l - u * k
    OBVIOUS
  <2>3. u * k \in Int /\ u * l \in Int
    OBVIOUS
  <2> QED
    BY <2>1, <2>2, <2>3
<1>4. i <= j => u * i <= u * j
  BY <1>2, <1>3
<1>5. u * i < u * j + u => i <= j
  <2> SUFFICES ASSUME j < i PROVE u * j + u <= u * i
    BY <1>2
  <2> QED
    BY <1>3
<1> QED
  BY <1>1, <1>2, <1>3, <1>4, <1>5

LEMMA WholeUnits ==
  ASSUME NEW n \in Nat, NEW d \in Nat \ {0}
  PROVE  /\ n \div d \in Int /\ d * (n \div d) \in Int
         /\ d * (n \div d) <= n /\ n < d * (n \div d) + d
OBVIOUS

\* std::round is off by one half at most.
LEMMA RoundNear ==
  ASSUME NEW n \in Int
  PROVE  /\ Round(n) \in Int /\ Unit * Round(n) \in Int
         /\ Unit * Round(n) - Half <= n /\ n <= Unit * Round(n) + Half
<1>1. CASE n >= 0
  <2> DEFINE k == (n + Half) \div Unit
  <2>1. n + Half \in Nat
    BY <1>1, UnitType
  <2>2. /\ k \in Int /\ Unit * k \in Int
        /\ Unit * k <= n + Half /\ n + Half < Unit * k + Unit
    BY <2>1, WholeUnits, UnitType
  <2>3. Round(n) = k
    BY <1>1 DEF Round
  <2> HIDE DEF k
  <2> QED
    BY <2>2, <2>3, UnitType
<1>2. CASE ~(n >= 0)
  <2> DEFINE k == (-n + Half) \div Unit
  <2>1. -n + Half \in Nat
    BY <1>2, UnitType
  <2>2. /\ k \in Int /\ Unit * k \in Int
        /\ Unit * k <= -n + Half /\ -n + Half < Unit * k + Unit
    BY <2>1, WholeUnits, UnitType
  <2>3. Round(n) = -k
    BY <1>2 DEF Round
  <2> HIDE DEF k
  <2>4. Unit * (-k) = -(Unit * k)
    BY <2>2, UnitType
  <2> QED
    BY <2>2, <2>3, <2>4, UnitType
<1> QED
  BY <1>1, <1>2

\* The cell of a point is where the point is, up to one half.
LEMMA RoundWithin ==
  ASSUME NEW n \in Int, NEW i \in Int, NEW j \in Int,
         Unit * i - Half < n, n < Unit * j + Half
  PROVE  i <= Round(n) /\ Round(n) <= j
<1>1. PICK k \in Int : k = Round(n) /\ Unit * k \in Int
                      /\ Unit * k - Half <= n /\ n <= Unit * k + Half
  BY RoundNear
<1>2. Unit * i \in Int /\ Unit * j \in Int
  BY UnitTimes
<1>3. Unit * i < Unit * k + Unit /\ Unit * k < Unit * j + Unit
  BY <1>1, <1>2, UnitType
<1> QED
  BY <1>1, <1>3, UnitTimes

LEMMA RoundPoint ==
  ASSUME NEW i \in Int
  PROVE  Round(Unit * i) = i /\ Unit * i \in Int
<1>1. /\ Unit * i \in Int
      /\ Unit * i - Half < Unit * i /\ Unit * i < Unit * i + Half
  BY UnitType, UnitTimes
<1>2. Round(Unit * i) \in Int
  BY <1>1, RoundNear
<1>3. i <= Round(Unit * i) /\ Round(Unit * i) <= i
  BY <1>1, RoundWithin
<1> QED
  BY <1>1, <1>2, <1>3

LEMMA SegmentInt ==
  ASSUME NEW r \in Roads
  PROVE  /\ Segment(r).left \in Int /\ Segment(r).right \in Int
         /\ Segment(r).low \in Int /\ Segment(r).high \in Int
         /\ Segment(r).left <= Segment(r).right
         /\ Segment(r).low <= Segment(r).high
         /\ Segment(r).left = Unit * Lesser(r.x0, r.x1) - HalfWidth
         /\ Segment(r).right = Unit * Greater(r.x0, r.x1) + HalfWidth
         /\ Segment(r).low = Unit * Lesser(r.y0, r.y1) - HalfWidth
         /\ Segment(r).high = Unit * Greater(r.y0, r.y1) + HalfWidth
         /\ Lesser(r.x0, r.x1) \in Int /\ Greater(r.x0, r.x1) \in Int
         /\ Lesser(r.y0, r.y1) \in Int /\ Greater(r.y0, r.y1) \in Int
<1>1. /\ Lesser(r.x0, r.x1) \in Int /\ Greater(r.x0, r.x1) \in Int
      /\ Lesser(r.y0, r.y1) \in Int /\ Greater(r.y0, r.y1) \in Int
      /\ Lesser(r.x0, r.x1) <= Greater(r.x0, r.x1)
      /\ Lesser(r.y0, r.y1) <= Greater(r.y0, r.y1)
  BY RoadsAssumption DEF Lesser, Greater
<1>2. /\ Segment(r).left = Unit * Lesser(r.x0, r.x1) - HalfWidth
      /\ Segment(r).right = Unit * Greater(r.x0, r.x1) + HalfWidth
      /\ Segment(r).low = Unit * Lesser(r.y0, r.y1) - HalfWidth
      /\ Segment(r).high = Unit * Greater(r.y0, r.y1) + HalfWidth
  BY DEF Segment
<1>3. /\ Unit * Lesser(r.x0, r.x1) \in Int /\ Unit * Greater(r.x0, r.x1) \in Int
      /\ Unit * Lesser(r.y0, r.y1) \in Int /\ Unit * Greater(r.y0, r.y1) \in Int
      /\ Unit * Lesser(r.x0, r.x1) <= Unit * Greater(r.x0, r.x1)
      /\ Unit * Lesser(r.y0, r.y1) <= Unit * Greater(r.y0, r.y1)
  BY <1>1, UnitTimes
<1>4. HalfWidth \in Nat
  BY UnitType
<1> QED
  BY <1>1, <1>2, <1>3, <1>4

\* A point of a road, up to EPSILON, rounds to one of the cells under which AddRoad
\* entered it.
LEMMA InsideCell ==
  ASSUME NEW r \in Roads, NEW m \in Int, NEW n \in Int, Inside(m, n, r)
  PROVE  <<Round(m), Round(n)>> \in Cells(r)
<1>1. PICK i \in Int, j \in Int, k \in Int, l \in Int :
        /\ i = Lesser(r.x0, r.x1) /\ j = Greater(r.x0, r.x1)
        /\ k = Lesser(r.y0, r.y1) /\ l = Greater(r.y0, r.y1)
  BY SegmentInt
<1>2. /\ Unit * i \in Int /\ Unit * j \in Int /\ Unit * k \in Int /\ Unit * l \in Int
  BY UnitTimes
<1>3. /\ Unit * i - HalfWidth - Epsilon <= m /\ m <= Unit * j + HalfWidth + Epsilon
      /\ Unit * k - HalfWidth - Epsilon <= n /\ n <= Unit * l + HalfWidth + Epsilon
  BY <1>1, SegmentInt DEF Inside
<1>4. /\ Unit * i - Half < m /\ m < Unit * j + Half
      /\ Unit * k - Half < n /\ n < Unit * l + Half
  BY <1>2, <1>3, UnitType
<1>5. /\ i <= Round(m) /\ Round(m) <= j /\ k <= Round(n) /\ Round(n) <= l
  BY <1>4, RoundWithin
<1>6. Round(m) \in Int /\ Round(n) \in Int
  BY RoundNear
<1> QED
  BY <1>1, <1>5, <1>6, RoadsAssumption DEF Cells, IsHorizontal, Lesser, Greater

\* A cell of a road lies between the road's ends on both axes.
LEMMA CellBetween ==
  ASSUME NEW r \in Roads, NEW i, NEW j, <<i, j>> \in Cells(r)
  PROVE  /\ i \in Int /\ j \in Int
         /\ Lesser(r.x0, r.x1) <= i /\ i <= Greater(r.x0, r.x1)
         /\ Lesser(r.y0, r.y1) <= j /\ j <= Greater(r.y0, r.y1)
BY RoadsAssumption DEF Cells, IsHorizontal, Lesser, Greater

LEMMA CellOf ==
  ASSUME NEW r \in Roads, NEW i \in Int, NEW j \in Int,
         Lesser(r.x0, r.x1) <= i, i <= Greater(r.x0, r.x1),
         Lesser(r.y0, r.y1) <= j, j <= Greater(r.y0, r.y1)
  PROVE  <<i, j>> \in Cells(r)
BY RoadsAssumption DEF Cells, IsHorizontal, Lesser, Greater

LEMMA ClampWithin ==
  ASSUME NEW n \in Int, NEW low \in Int, NEW high \in Int, low <= high
  PROVE  /\ Clamp(n, low, high) \in Int
         /\ low <= Clamp(n, low, high) /\ Clamp(n, low, high) <= high
BY DEF Clamp

----------------------------------------------------------------------------
(* The cell of a dog is known *)

MInv == MTypeOK /\ CellKnown

LEMMA MInitInv == MInit => MInv
<1> SUFFICES ASSUME MInit PROVE MInv
  OBVIOUS
<1>1. PICK p \in Spawns : x = Unit * p[1] /\ y = Unit * p[2]
  BY DEF MInit, Spawn
<1>2. p \in Int \X Int /\ RoadsAt(p) # {}
  BY SpawnsAssumption
<1>3. x \in Int /\ y \in Int /\ <<Round(x), Round(y)>> = p
  BY <1>1, <1>2, RoundPoint
<1> QED
  BY <1>2, <1>3, DeltasAssumption
  DEF MInit, MInv, MTypeOK, CellKnown, Directions

\* The border of a road is nearer to its end than one half.
LEMMA StopRound ==
  ASSUME NEW r \in Roads, NEW n \in Int
  PROVE  /\ Segment(r).left <= n /\ n <= Segment(r).right =>
              Lesser(r.x0, r.x1) <= Round(n) /\ Round(n) <= Greater(r.x0, r.x1)
         /\ Segment(r).low <= n /\ n <= Segment(r).high =>
              Lesser(r.y0, r.y1) <= Round(n) /\ Round(n) <= Greater(r.y0, r.y1)
<1>1. ASSUME NEW i \in Int, NEW j \in Int,
             Unit * i - HalfWidth <= n, n <= Unit * j + HalfWidth
      PROVE  i <= Round(n) /\ Round(n) <= j
  <2>1. Unit * i \in Int /\ Unit * j \in Int
    BY UnitTimes
  <2>2. Unit * i - Half < n /\ n < Unit * j + Half
    BY <1>1, <2>1, UnitType
  <2> QED
    BY <2>2, RoundWithin
<1> QED
  BY <1>1, SegmentInt

\* A wall stop keeps the dog in a cell of the road that stopped it.
LEMMA WallStopCell ==
  ASSUME MInv, NEW m \in Int, NEW n \in Int,
         WallStop(m, n, RoadsAt(<<Round(x), Round(y)>>))
  PROVE  x' \in Int /\ y' \in Int /\ CellKnown'
<1> DEFINE roads == RoadsAt(<<Round(x), Round(y)>>)
<1>1. /\ x \in Int /\ y \in Int /\ Round(x) \in Int /\ Round(y) \in Int
  BY RoundNear DEF MInv, MTypeOK
<1>2. CASE vx # 0
  <2>1. PICK r \in roads : x' = Clamp(m, Segment(r).left, Segment(r).right)
    BY <1>2 DEF WallStop, Farthest
  <2>2. y' = y
    BY <1>2 DEF WallStop
  <2>3. r \in Roads /\ <<Round(x), Round(y)>> \in Cells(r)
    BY DEF RoadsAt
  <2>4. x' \in Int /\ Segment(r).left <= x' /\ x' <= Segment(r).right
    BY <2>1, <2>3, SegmentInt, ClampWithin
  <2>5. Lesser(r.x0, r.x1) <= Round(x') /\ Round(x') <= Greater(r.x0, r.x1)
    BY <2>3, <2>4, StopRound
  <2>6. <<Round(x'), Round(y')>> \in Cells(r)
    BY <1>1, <2>2, <2>3, <2>4, <2>5, CellBetween, CellOf, RoundNear
  <2> QED
    BY <1>1, <2>2, <2>3, <2>4, <2>6 DEF CellKnown, RoadsAt
<1>3. CASE ~(vx # 0)
  <2>1. PICK r \in roads : y' = Clamp(n, Segment(r).low, Segment(r).high)
    BY <1>3 DEF WallStop, Farthest
  <2>2. x' = x
    BY <1>3 DEF WallStop
  <2>3. r \in Roads /\ <<Round(x), Round(y)>> \in Cells(r)
    BY DEF RoadsAt
  <2>4. y' \in Int /\ Segment(r).low <= y' /\ y' <= Segment(r).high
    BY <2>1, <2>3, SegmentInt, ClampWithin
  <2>5. Lesser(r.y0, r.y1) <= Round(y') /\ Round(y') <= Greater(r.y0, r.y1)
    BY <2>3, <2>4, StopRound
  <2>6. <<Round(x'), Round(y')>> \in Cells(r)
    BY <1>1, <2>2, <2>3, <2>4, <2>5, CellBetween, CellOf, RoundNear
  <2> QED
    BY <1>1, <2>2, <2>3, <2>4, <2>6 DEF CellKnown, RoadsAt
<1> QED
  BY <1>2, <1>3

\* Where a dog would be without walls.
LEMMA Target ==
  ASSUME MTypeOK, NEW dt \in Deltas
  PROVE  /\ vx \in {-1, 0, 1} /\ vy \in {-1, 0, 1}
         /\ Speed * dt \in Int
         /\ dt >= 0 => Speed * dt >= 0
         /\ dt < 0 => Speed * dt <= 0
         /\ x + vx * Speed * dt = x + vx * (Speed * dt)
         /\ y + vy * Speed * dt = y + vy * (Speed * dt)
         /\ x + vx * Speed * dt \in Int /\ y + vy * Speed * dt \in Int
<1>1. vx \in {-1, 0, 1} /\ vy \in {-1, 0, 1} /\ x \in Int /\ y \in Int
  BY DEF MTypeOK, Directions
<1>2. Speed * dt \in Int /\ Speed \in Nat /\ dt \in Int
  BY DeltasAssumption
<1>3. vx * Speed * dt = vx * (Speed * dt) /\ vy * Speed * dt = vy * (Speed * dt)
  BY <1>1, <1>2
<1>4. vx * (Speed * dt) \in Int /\ vy * (Speed * dt) \in Int
  BY <1>1, <1>2
<1>5. dt >= 0 => Speed * dt >= 0
  BY <1>2
<1>6. dt < 0 => Speed * dt <= 0
  BY <1>2
<1> QED
  BY <1>1, <1>2, <1>3, <1>4, <1>5, <1>6

LEMMA StillType ==
  ASSUME NEW time \in 0 .. RetirementTime, NEW dt \in Deltas
  PROVE  Grow(time, Greater(dt, 0)) \in 0 .. RetirementTime
BY DeltasAssumption DEF Grow, Lesser, Greater

LEMMA IdleType ==
  ASSUME NEW time \in -MaxDebt .. RetirementTime, NEW dt \in Deltas,
         time + dt >= -MaxDebt
  PROVE  Grow(time, dt) \in -MaxDebt .. RetirementTime
BY DeltasAssumption DEF Grow, Lesser

LEMMA TickInv ==
  ASSUME MInv, NEW dt \in Deltas, Tick(dt)
  PROVE  MInv'
<1>1. still' \in 0 .. RetirementTime /\ on' \in BOOLEAN
  BY StillType, DeltasAssumption DEF Tick, MInv, MTypeOK, IsInactive
<1>2. CASE Stand(dt)
  BY <1>1, <1>2, IdleType DEF Stand, MInv, MTypeOK, CellKnown
<1>3. CASE Run(dt)
  <2> DEFINE m == x + vx * Speed * dt
             n == y + vy * Speed * dt
             roads == RoadsAt(<<Round(x), Round(y)>>)
  <2>1. m \in Int /\ n \in Int
    BY Target DEF MInv
  <2>2. CASE IsPositionValid(m, n, roads)
    <3>1. x' = m /\ y' = n /\ UNCHANGED <<vx, vy, idle>>
      BY <1>3, <2>2 DEF Run
    <3>2. PICK r \in roads : Inside(m, n, r)
      BY <2>2 DEF IsPositionValid
    <3>3. r \in Roads /\ <<Round(m), Round(n)>> \in Cells(r)
      BY <2>1, <3>2, InsideCell DEF RoadsAt
    <3> QED
      BY <1>1, <2>1, <3>1, <3>3 DEF MInv, MTypeOK, CellKnown, RoadsAt
  <2>3. CASE ~IsPositionValid(m, n, roads)
    <3>1. /\ WallStop(m, n, roads)
          /\ vx' = 0 /\ vy' = 0 /\ idle' = 0
      BY <1>3, <2>3 DEF Run
    <3>2. x' \in Int /\ y' \in Int /\ CellKnown'
      BY <2>1, <3>1, WallStopCell
    <3> QED
      BY <1>1, <3>1, <3>2, DeltasAssumption DEF MInv, MTypeOK, Directions
  <2> QED
    BY <2>2, <2>3
<1> QED
  BY <1>2, <1>3 DEF Tick

LEMMA GNextInv == MInv /\ [GNext]_gVars => MInv'
<1> SUFFICES ASSUME MInv, [GNext]_gVars PROVE MInv'
  OBVIOUS
<1>1. ASSUME NEW dt \in Deltas, GatheringTick(dt)
      PROVE  MInv'
  BY <1>1, TickInv DEF GatheringTick
<1>2. ASSUME NEW dir \in Directions, MoveDog(dir)
      PROVE  MInv'
  BY <1>2 DEF MoveDog, MInv, MTypeOK, CellKnown, Directions
<1>3. CASE UNCHANGED gVars
  BY <1>3 DEF gVars, mVars, MInv, MTypeOK, CellKnown
<1> QED
  BY <1>1, <1>2, <1>3 DEF GNext

THEOREM MInvHolds == GSpec => []MInv
<1>1. GInit => MInv
  BY MInitInv DEF GInit
<1> QED
  BY <1>1, GNextInv, PTL DEF GSpec

\* The type invariant: a running dog moves by whole units, its clocks stay in
\* their bounds.
THEOREM MTypeHolds == GSpec => []MTypeOK
BY MInvHolds, PTL DEF MInv

\* On every map whose roads are straight, whatever the speed and the deltas, the
\* table of cells has an entry for the dog: at() never throws in a Tick.
THEOREM CellKnownHolds == GSpec => []CellKnown
BY MInvHolds, PTL DEF MInv

\* A dog never gets farther from a road than one half of a cell.
LEMMA InvNearRoad == MInv => NearRoad
<1> SUFFICES ASSUME MInv PROVE NearRoad
  OBVIOUS
<1>1. PICK r \in Roads : <<Round(x), Round(y)>> \in Cells(r)
  BY DEF MInv, CellKnown, RoadsAt
<1>2. PICK i \in Int, j \in Int :
        /\ i = Round(x) /\ Unit * i - Half <= x /\ x <= Unit * i + Half
        /\ j = Round(y) /\ Unit * j - Half <= y /\ y <= Unit * j + Half
  BY RoundNear DEF MInv, MTypeOK
<1>3. /\ Lesser(r.x0, r.x1) <= i /\ i <= Greater(r.x0, r.x1)
      /\ Lesser(r.y0, r.y1) <= j /\ j <= Greater(r.y0, r.y1)
  BY <1>1, <1>2, CellBetween
<1>4. ASSUME NEW l \in Int, NEW h \in Int, NEW c \in Int, l <= c, c <= h
      PROVE  /\ Unit * l \in Int /\ Unit * c \in Int /\ Unit * h \in Int
             /\ Unit * l <= Unit * c /\ Unit * c <= Unit * h
  BY <1>4, UnitTimes
<1>5. /\ Segment(r).left + HalfWidth <= Unit * i /\ Unit * i <= Segment(r).right - HalfWidth
      /\ Segment(r).low + HalfWidth <= Unit * j /\ Unit * j <= Segment(r).high - HalfWidth
      /\ Unit * i \in Int /\ Unit * j \in Int
  BY <1>3, <1>4, SegmentInt, UnitType
<1> QED
  BY <1>2, <1>5, SegmentInt, UnitType DEF NearRoad, MInv, MTypeOK

THEOREM NearRoadHolds == GSpec => []NearRoad
BY MInvHolds, InvNearRoad, PTL

----------------------------------------------------------------------------
(* Walls stop a dog, they never push it *)

\* The borders of a road that has the cell c, on one axis: it ends in the cell or
\* goes on through the next one.
Spans(low, high, c) ==
  /\ low \in Int /\ high \in Int
  /\ low <= Unit * c - HalfWidth /\ Unit * c + HalfWidth <= high
  /\ low = Unit * c - HalfWidth \/ low <= Unit * c - Unit - HalfWidth
  /\ high = Unit * c + HalfWidth \/ Unit * c + Unit + HalfWidth <= high

LEMMA RoadSpans ==
  ASSUME NEW r \in Roads, NEW i, NEW j, <<i, j>> \in Cells(r)
  PROVE  /\ Spans(Segment(r).left, Segment(r).right, i)
         /\ Spans(Segment(r).low, Segment(r).high, j)
<1>1. /\ i \in Int /\ j \in Int
      /\ Lesser(r.x0, r.x1) <= i /\ i <= Greater(r.x0, r.x1)
      /\ Lesser(r.y0, r.y1) <= j /\ j <= Greater(r.y0, r.y1)
  BY CellBetween
<1>2. ASSUME NEW l \in Int, NEW h \in Int, NEW c \in Int, l <= c, c <= h
      PROVE  Spans(Unit * l - HalfWidth, Unit * h + HalfWidth, c)
  <2>1. /\ Unit * l \in Int /\ Unit * c \in Int /\ Unit * h \in Int
        /\ l = c \/ Unit * l + Unit <= Unit * c
        /\ c = h \/ Unit * c + Unit <= Unit * h
    BY <1>2, UnitTimes
  <2> QED
    BY <2>1, UnitType DEF Spans
<1> QED
  BY <1>1, <1>2, SegmentInt

\* A dog at n in cell c aims at m and would leave its road (low, high), up to EPSILON.
\* Another road of the cell (low2, high2) offers the stop, no nearer than its own.
Blocked(n, c, m, low, high, low2, high2, stop) ==
  /\ n \in Int /\ c \in Int /\ m \in Int
  /\ Unit * c - Half <= n /\ n <= Unit * c + Half
  /\ Spans(low, high, c) /\ Spans(low2, high2, c)
  /\ low - Epsilon <= n /\ n <= high + Epsilon
  /\ ~(low - Epsilon <= m /\ m <= high + Epsilon)
  /\ stop = Clamp(m, low2, high2)
  /\ Distance(stop, n) >= Distance(Clamp(m, low, high), n)

\* The stop lies on the way to m, or EPSILON behind the dog.
OnTheWay(n, m, stop) ==
  /\ stop \in Int
  /\ \/ n < m /\ n - Epsilon <= stop /\ stop <= m
     \/ m < n /\ m <= stop /\ stop <= n + Epsilon

LEMMA StopOnTheWay ==
  ASSUME NEW n, NEW c, NEW m, NEW low, NEW high, NEW low2, NEW high2, NEW stop,
         Blocked(n, c, m, low, high, low2, high2, stop)
  PROVE  OnTheWay(n, m, stop)
<1> USE DEF Blocked, OnTheWay
<1>1. PICK a \in Int : a = Unit * c
  BY UnitTimes
<1>2. /\ low \in Int /\ high \in Int /\ low2 \in Int /\ high2 \in Int
      /\ low <= a - HalfWidth /\ a + HalfWidth <= high
      /\ low2 <= a - HalfWidth /\ a + HalfWidth <= high2
      /\ low = a - HalfWidth \/ low <= a - Unit - HalfWidth
      /\ high = a + HalfWidth \/ a + Unit + HalfWidth <= high
      /\ a - Half <= n /\ n <= a + Half
  BY <1>1 DEF Spans
<1>3. /\ low - Epsilon <= n /\ n <= high + Epsilon /\ n \in Int /\ m \in Int
      /\ m < low - Epsilon \/ high + Epsilon < m
      /\ stop = Clamp(m, low2, high2)
      /\ Distance(stop, n) >= Distance(Clamp(m, low, high), n)
  BY <1>2, UnitType
<1>4. stop \in Int
  BY <1>2, <1>3 DEF Clamp
<1>5. CASE high + Epsilon < m
  <2>1. Clamp(m, low, high) = high /\ n < m
    BY <1>2, <1>3, <1>5, UnitType DEF Clamp
  <2>2. a + HalfWidth <= stop /\ stop <= m
    BY <1>2, <1>3, <1>5, UnitType DEF Clamp
  <2>3. n - Epsilon <= stop
    BY <1>2, <1>3, <1>4, <2>1, <2>2, UnitType DEF Distance
  <2> QED
    BY <1>4, <2>1, <2>2, <2>3
<1>6. CASE m < low - Epsilon
  <2>1. Clamp(m, low, high) = low /\ m < n
    BY <1>2, <1>3, <1>6, UnitType DEF Clamp
  <2>2. m <= stop /\ stop <= a - HalfWidth
    BY <1>2, <1>3, <1>6, UnitType DEF Clamp
  <2>3. stop <= n + Epsilon
    BY <1>2, <1>3, <1>4, <2>1, <2>2, UnitType DEF Distance
  <2> QED
    BY <1>4, <2>1, <2>2, <2>3
<1> QED
  BY <1>3, <1>5, <1>6

\* The same as a step of a dog that runs in direction v by d, which is negative when
\* the delta is.
Aims(n, v, d, m) == n \in Int /\ v \in {-1, 1} /\ d \in Int /\ m = n + v * d
Steps(n, v, d, stop) ==
  /\ d > 0 => \E step \in -Epsilon .. d : stop = n + v * step
  /\ d < 0 => \E step \in d .. Epsilon : stop = n + v * step
  /\ d # 0

LEMMA StopAsStep ==
  ASSUME NEW n, NEW v, NEW d, NEW m, NEW stop, Aims(n, v, d, m), OnTheWay(n, m, stop)
  PROVE  Steps(n, v, d, stop)
<1> USE DEF Aims, OnTheWay
<1> DEFINE step == v * (stop - n)
<1>1. /\ step \in Int /\ stop = n + v * step
  OBVIOUS
<1>2. Epsilon \in Nat
  BY UnitType
<1>3. d # 0
  OBVIOUS
<1>4. d > 0 => step \in -Epsilon .. d
  BY <1>2
<1>5. d < 0 => step \in d .. Epsilon
  BY <1>2
<1> QED
  BY <1>1, <1>3, <1>4, <1>5 DEF Steps

\* The road a dog is on is one of those of its cell.
LEMMA RoadOfCell ==
  ASSUME MTypeOK, OnRoad
  PROVE  \E r \in RoadsAt(<<Round(x), Round(y)>>) : Inside(x, y, r)
BY InsideCell DEF MTypeOK, OnRoad, IsPositionValid, RoadsAt

LEMMA StopForward ==
  ASSUME MInv, OnRoad, ~Standing, NEW dt \in Deltas,
         NEW m, NEW n, m = x + vx * Speed * dt, n = y + vy * Speed * dt,
         ~IsPositionValid(m, n, RoadsAt(<<Round(x), Round(y)>>)),
         WallStop(m, n, RoadsAt(<<Round(x), Round(y)>>))
  PROVE  \E step \in Way(dt) : x' = x + vx * step /\ y' = y + vy * step
<1> DEFINE roads == RoadsAt(<<Round(x), Round(y)>>)
<1>1. /\ x \in Int /\ y \in Int /\ Round(x) \in Int /\ Round(y) \in Int
      /\ Unit * Round(x) - Half <= x /\ x <= Unit * Round(x) + Half
      /\ Unit * Round(y) - Half <= y /\ y <= Unit * Round(y) + Half
  BY RoundNear DEF MInv, MTypeOK
<1>2. PICK d \in Int : /\ d = Speed * dt /\ m \in Int /\ n \in Int
                       /\ m = x + vx * d /\ n = y + vy * d
                       /\ dt \in Int /\ (dt >= 0 => d >= 0) /\ (dt < 0 => d <= 0)
  BY Target, DeltasAssumption DEF MInv
<1>3. PICK r \in roads : Inside(x, y, r)
  BY RoadOfCell DEF MInv
<1>4. ~Inside(m, n, r)
  BY <1>3 DEF IsPositionValid
<1>5. ASSUME NEW q \in roads
      PROVE  /\ Spans(Segment(q).left, Segment(q).right, Round(x))
             /\ Spans(Segment(q).low, Segment(q).high, Round(y))
  BY RoadSpans DEF RoadsAt
<1>6. \/ vx \in {-1, 1} /\ vy = 0
      \/ vx = 0 /\ vy \in {-1, 1}
  BY DEF MInv, MTypeOK, Directions, Standing
<1>7. CASE vx \in {-1, 1} /\ vy = 0
  <2>1. n = y
    BY <1>1, <1>2, <1>7
  <2>2. PICK q \in roads :
          /\ x' = Clamp(m, Segment(q).left, Segment(q).right)
          /\ Distance(x', x) >= Distance(Clamp(m, Segment(r).left, Segment(r).right), x)
    BY <1>3, <1>7 DEF WallStop, Farthest
  <2>3. y' = y
    BY <1>7 DEF WallStop
  <2>4. PICK low, high, low2, high2, stop, c :
          /\ low = Segment(r).left /\ high = Segment(r).right
          /\ low2 = Segment(q).left /\ high2 = Segment(q).right
          /\ stop = x' /\ c = Round(x)
    OBVIOUS
  <2>5. /\ low - Epsilon <= x /\ x <= high + Epsilon
        /\ ~(low - Epsilon <= m /\ m <= high + Epsilon)
    BY <1>3, <1>4, <2>1, <2>4 DEF Inside
  <2>6. Spans(low, high, c) /\ Spans(low2, high2, c)
    BY <1>5, <2>4
  <2>7. Blocked(x, c, m, low, high, low2, high2, stop)
    BY <1>1, <1>2, <2>2, <2>4, <2>5, <2>6 DEF Blocked
  <2>8. OnTheWay(x, m, stop)
    BY <2>7, StopOnTheWay
  <2>9. Aims(x, vx, d, m)
    BY <1>1, <1>2, <1>7 DEF Aims
  <2>10. Steps(x, vx, d, stop)
    BY <2>8, <2>9, StopAsStep
  <2>11. PICK step \in Way(dt) : stop = x + vx * step
    BY <1>2, <2>10 DEF Way, Steps
  <2>12. step \in Int
    BY <1>2, UnitType DEF Way
  <2> QED
    BY <1>1, <1>7, <2>3, <2>4, <2>11, <2>12
<1>8. CASE vx = 0 /\ vy \in {-1, 1}
  <2>1. m = x
    BY <1>1, <1>2, <1>8
  <2>2. PICK q \in roads :
          /\ y' = Clamp(n, Segment(q).low, Segment(q).high)
          /\ Distance(y', y) >= Distance(Clamp(n, Segment(r).low, Segment(r).high), y)
    BY <1>3, <1>8 DEF WallStop, Farthest
  <2>3. x' = x
    BY <1>8 DEF WallStop
  <2>4. PICK low, high, low2, high2, stop, c :
          /\ low = Segment(r).low /\ high = Segment(r).high
          /\ low2 = Segment(q).low /\ high2 = Segment(q).high
          /\ stop = y' /\ c = Round(y)
    OBVIOUS
  <2>5. /\ low - Epsilon <= y /\ y <= high + Epsilon
        /\ ~(low - Epsilon <= n /\ n <= high + Epsilon)
    BY <1>3, <1>4, <2>1, <2>4 DEF Inside
  <2>6. Spans(low, high, c) /\ Spans(low2, high2, c)
    BY <1>5, <2>4
  <2>7. Blocked(y, c, n, low, high, low2, high2, stop)
    BY <1>1, <1>2, <2>2, <2>4, <2>5, <2>6 DEF Blocked
  <2>8. OnTheWay(y, n, stop)
    BY <2>7, StopOnTheWay
  <2>9. Aims(y, vy, d, n)
    BY <1>1, <1>2, <1>8 DEF Aims
  <2>10. Steps(y, vy, d, stop)
    BY <2>8, <2>9, StopAsStep
  <2>11. PICK step \in Way(dt) : stop = y + vy * step
    BY <1>2, <2>10 DEF Way, Steps
  <2>12. step \in Int
    BY <1>2, UnitType DEF Way
  <2> QED
    BY <1>1, <1>8, <2>3, <2>4, <2>11, <2>12
<1> QED
  BY <1>6, <1>7, <1>8

LEMMA ForwardStep ==
  ASSUME MInv, OnRoad, ~Standing, NEW dt \in Deltas, Tick(dt)
  PROVE  \E step \in Way(dt) : x' = x + vx * step /\ y' = y + vy * step
<1>1. Run(dt)
  BY DEF Tick, Stand
<1> DEFINE m == x + vx * Speed * dt
           n == y + vy * Speed * dt
           roads == RoadsAt(<<Round(x), Round(y)>>)
<1>2. CASE IsPositionValid(m, n, roads)
  <2>1. x' = m /\ y' = n
    BY <1>1, <1>2 DEF Run
  <2>2. m = x + vx * (Speed * dt) /\ n = y + vy * (Speed * dt)
    BY Target DEF MInv
  <2>3. PICK d \in Int : d = Speed * dt /\ dt \in Int
                         /\ (dt >= 0 => d >= 0) /\ (dt < 0 => d <= 0)
    BY Target, DeltasAssumption DEF MInv
  <2>4. d \in Way(dt)
    BY <2>3, UnitType DEF Way
  <2> QED
    BY <2>1, <2>2, <2>3, <2>4
<1>3. CASE ~IsPositionValid(m, n, roads)
  <2>1. WallStop(m, n, roads)
    BY <1>1, <1>3 DEF Run
  <2> QED
    BY <1>3, <2>1, StopForward
<1> QED
  BY <1>2, <1>3

\* GetWallStopAndSetPosition takes the farthest stop in either direction; from a
\* road it is ahead of the dog and no farther than it can run, or EPSILON behind.
THEOREM ForwardFromRoadHolds == GSpec => ForwardFromRoad
<1>1. MInv /\ [GNext]_gVars =>
        [\A dt \in Deltas :
           Tick(dt) /\ OnRoad /\ ~Standing =>
             \E step \in Way(dt) : x' = x + vx * step /\ y' = y + vy * step]_mVars
  BY ForwardStep
<1> QED
  BY <1>1, MInvHolds, PTL DEF GSpec, ForwardFromRoad

----------------------------------------------------------------------------
(* Recursion and induction over the events *)

\* Induction, for a set of numbers.
LEMMA NatSetInduction ==
  ASSUME NEW S, 0 \in S, \A n \in Nat : n \in S => n + 1 \in S
  PROVE  Nat \subseteq S
<1> SUFFICES ASSUME Nat \ S # {} PROVE FALSE
  OBVIOUS
<1> DEFINE Before == OpToRel(<, Nat)
<1>1. IsWellFoundedOn(Before, Nat)
  BY NatLessThanWellFounded
<1>2. \A i, j \in Nat : j < i => <<j, i>> \in Before
  BY DEF OpToRel
<1> HIDE DEF Before
<1>3. PICK n \in Nat \ S : \A m \in Nat \ S : ~ (<<m, n>> \in Before)
  BY <1>1, WFMin
<1>4. n # 0 /\ n - 1 \in Nat /\ n - 1 < n /\ (n - 1) + 1 = n
  BY <1>3
<1>5. n - 1 \in S
  BY <1>2, <1>3, <1>4
<1> QED
  BY <1>3, <1>4, <1>5

\* The recursive function of Gathered exists: it steps from one event to the next.
LEMMA GatheredSteps ==
  ASSUME NEW events, Len(events) \in Nat
  PROVE  \E has :
           /\ has[0] = [bag |-> bag, score |-> score]
           /\ \A n \in 1 .. Len(events) : has[n] = Meet(has[n - 1], events[n][2])
           /\ Gathered(events) = has[Len(events)]
<1> DEFINE start == [bag |-> bag, score |-> score]
           IsFold(f, k) == f = [n \in 0 .. k |-> IF n = 0 THEN start
                                                 ELSE Meet(f[n - 1], events[n][2])]
           S == {k \in Nat : \E f : IsFold(f, k)}
<1>1. 0 \in S
  <2>1. IsFold([n \in 0 .. 0 |-> start], 0)
    OBVIOUS
  <2> QED
    BY <2>1
<1>2. ASSUME NEW k \in Nat, k \in S PROVE k + 1 \in S
  <2>1. PICK f : IsFold(f, k)
    BY <1>2
  <2> DEFINE next == Meet(f[k], events[k + 1][2])
             g == [n \in 0 .. k + 1 |-> IF n = k + 1 THEN next ELSE f[n]]
  <2>2. \A n \in 0 .. k : f[n] = IF n = 0 THEN start ELSE Meet(f[n - 1], events[n][2])
    BY <2>1
  <2> HIDE DEF start
  <2>3. ASSUME NEW n \in 0 .. k + 1
        PROVE  g[n] = IF n = 0 THEN start ELSE Meet(g[n - 1], events[n][2])
    <3>1. CASE n = k + 1
      <4>1. n # 0 /\ n - 1 = k /\ k \in 0 .. k + 1 /\ k # k + 1
        BY <3>1
      <4> QED
        BY <3>1, <4>1
    <3>2. CASE n = 0
      <4>1. 0 \in 0 .. k /\ n # k + 1
        BY <3>2
      <4> QED
        BY <2>2, <3>2, <4>1
    <3>3. CASE n # 0 /\ n # k + 1
      <4>1. n \in 0 .. k /\ n - 1 \in 0 .. k + 1 /\ n - 1 # k + 1
        BY <3>3
      <4>2. g[n] = f[n] /\ g[n - 1] = f[n - 1]
        BY <3>3, <4>1
      <4> QED
        BY <2>2, <3>3, <4>1, <4>2
    <3> QED
      BY <3>1, <3>2, <3>3
  <2> HIDE DEF next
  <2>4. IsFold(g, k + 1)
    BY <2>3
  <2> HIDE DEF IsFold, g
  <2>5. \E h : IsFold(h, k + 1)
    BY <2>4
  <2> QED
    BY <2>5
<1> HIDE DEF S
<1>3. Nat \subseteq S
  BY <1>1, <1>2, NatSetInduction
<1> USE DEF S
<1> DEFINE F == CHOOSE f : IsFold(f, Len(events))
<1>4. IsFold(F, Len(events))
  <2>1. \E f : IsFold(f, Len(events))
    BY <1>3
  <2> HIDE DEF IsFold
  <2> QED
    BY <2>1
<1>5. Gathered(events) = F[Len(events)]
  BY DEF Gathered
<1> HIDE DEF F
<1>6. \A n \in 0 .. Len(events) :
        F[n] = IF n = 0 THEN start ELSE Meet(F[n - 1], events[n][2])
  BY <1>4
<1>7. F[0] = start
  BY <1>6
<1> HIDE DEF start
<1>8. \A n \in 1 .. Len(events) : F[n] = Meet(F[n - 1], events[n][2])
  BY <1>6
<1> QED
  BY <1>5, <1>7, <1>8 DEF start

----------------------------------------------------------------------------
(* What the events do to the bag *)

\* Between two ticks an object is on the map, in the bag or handed in.
Apart ==
  /\ lost \subseteq Objects /\ bag \subseteq Objects /\ score \subseteq Objects
  /\ lost \cap (bag \cup score) = {}
  /\ Cardinality(bag) <= Capacity

Met(events, n, o) == \E k \in 1 .. n : events[k][2] = o

WasFull(had) ==
  \E full \in SUBSET (bag \cup lost) :
    full \subseteq had.bag \cup had.score /\ Cardinality(full) >= Capacity

\* The bag and the score are what they were, and objects that were met.
Holds(had, events, n) ==
  /\ had = [bag |-> had.bag, score |-> had.score]
  /\ had.score \subseteq Objects
  /\ had.bag \subseteq bag \cup lost
  /\ Cardinality(had.bag) <= Capacity
  /\ bag \cup score \subseteq had.bag \cup had.score
  /\ \A o \in (had.bag \cup had.score) \ (bag \cup score) : Met(events, n, o)

\* An object that was met is there, unless the bag was full.
Took(had, events, n) ==
  \A k \in 1 .. n : events[k][2] \in lost =>
    events[k][2] \in had.bag \cup had.score \/ WasFull(had)

\* An office has what was there before it.
Paid(had, events, n) ==
  \A o \in had.score \ score : \E k \in 1 .. n :
    /\ events[k][2] \in Offices
    /\ o \in bag \/ Met(events, k, o)

\* The bag has what came after the office.
Left(had, events, n) ==
  \A o \in had.bag, k \in 1 .. n : events[k][2] \in Offices =>
    \E j \in k .. n : events[j][2] = o

Kept(had, events, n) ==
  /\ Holds(had, events, n) /\ Took(had, events, n)
  /\ Paid(had, events, n) /\ Left(had, events, n)

LEMMA KeptFirst ==
  ASSUME Apart, NEW events
  PROVE  Kept([bag |-> bag, score |-> score], events, 0)
BY DEF Apart, Kept, Holds, Took, Paid, Left, Met

LEMMA MetStep ==
  ASSUME NEW events, NEW n \in Nat
  PROVE  /\ \A o : Met(events, n, o) => Met(events, n + 1, o)
         /\ Met(events, n + 1, events[n + 1][2])
BY DEF Met

\* An event that does not empty the bag.
LEMMA KeptMore ==
  ASSUME Apart, NEW events, NEW n \in Nat, NEW had, Kept(had, events, n),
         events[n + 1][2] \in lost,
         NEW new, new = [bag |-> new.bag, score |-> had.score],
         \/ new.bag = had.bag /\ WasFull(had)
         \/ new.bag = had.bag \cup {events[n + 1][2]},
         Cardinality(new.bag) <= Capacity
  PROVE  Kept(new, events, n + 1)
<1> DEFINE item == events[n + 1][2]
<1>1. item \in Objects /\ item \notin Offices
  BY GatheringAssumption DEF Apart
<1>2. /\ new.score = had.score /\ had.bag \subseteq new.bag
      /\ \A o \in new.bag : o \in had.bag \/ o = item
  OBVIOUS
<1>3. WasFull(had) => WasFull(new)
  BY <1>2 DEF WasFull
<1>4. Holds(new, events, n + 1)
  BY <1>1, <1>2, MetStep DEF Kept, Holds
<1>5. Took(new, events, n + 1)
  <2>1. \A k \in 1 .. n + 1 : k \in 1 .. n \/ k = n + 1
    OBVIOUS
  <2>2. item \in new.bag \/ WasFull(new)
    BY <1>3
  <2> QED
    BY <1>2, <1>3, <2>1, <2>2 DEF Kept, Took
<1>6. Paid(new, events, n + 1)
  <2>1. \A k \in 1 .. n : k \in 1 .. n + 1
    OBVIOUS
  <2> QED
    BY <1>2, <2>1, Zenon DEF Kept, Paid
<1>7. Left(new, events, n + 1)
  <2> SUFFICES ASSUME NEW o \in new.bag, NEW k \in 1 .. n + 1, events[k][2] \in Offices
               PROVE  \E j \in k .. n + 1 : events[j][2] = o
    BY DEF Left
  <2>1. k \in 1 .. n /\ n + 1 \in k .. n + 1 /\ \A j \in k .. n : j \in k .. n + 1
    BY <1>1
  <2> QED
    BY <1>2, <2>1, Zenon DEF Kept, Left
<1> QED
  BY <1>4, <1>5, <1>6, <1>7 DEF Kept

LEMMA KeptObject ==
  ASSUME Apart, NEW events, NEW n \in Nat, NEW had, Kept(had, events, n),
         events[n + 1][2] \in lost
  PROVE  Kept(Meet(had, events[n + 1][2]), events, n + 1)
<1> DEFINE item == events[n + 1][2]
<1>1. item \in Objects /\ item \notin Offices
  BY GatheringAssumption DEF Apart
<1>2. /\ had = [bag |-> had.bag, score |-> had.score]
      /\ had.bag \subseteq Objects /\ Cardinality(had.bag) <= Capacity
      /\ had.bag \subseteq bag \cup lost
  BY DEF Apart, Kept, Holds
<1>3. IsFiniteSet(had.bag) /\ Cardinality(had.bag) \in Nat /\ Capacity \in Nat
  BY <1>2, FS_Subset, FS_CardinalityType, GatheringAssumption
<1>4. CASE Cardinality(had.bag) < Capacity
  <2> DEFINE new == [had EXCEPT !.bag = @ \cup {item}]
  <2>1. Meet(had, item) = new
    BY <1>1, <1>4 DEF Meet
  <2>2. new.bag = had.bag \cup {item} /\ new = [bag |-> new.bag, score |-> had.score]
    <3>1. PICK b, s : had = [bag |-> b, score |-> s]
      BY <1>2, Zenon
    <3>2. had.bag = b /\ had.score = s
      BY <3>1
    <3>3. new = [bag |-> b \cup {item}, score |-> s]
      BY <3>1
    <3> QED
      BY <3>2, <3>3
  <2>3. Cardinality(had.bag \cup {item}) = IF item \in had.bag THEN Cardinality(had.bag)
                                           ELSE Cardinality(had.bag) + 1
    BY <1>3, FS_AddElement, Zenon
  <2> HIDE DEF new, item
  <2>4. Cardinality(had.bag \cup {item}) <= Capacity
    BY <1>3, <1>4, <2>3
  <2> USE DEF item
  <2> QED
    BY <2>1, <2>2, <2>4, KeptMore
<1>5. CASE ~ (Cardinality(had.bag) < Capacity)
  <2>1. Meet(had, item) = had
    BY <1>1, <1>5 DEF Meet
  <2>2. Cardinality(had.bag) >= Capacity
    BY <1>3, <1>5
  <2>3. WasFull(had)
    BY <1>2, <2>2 DEF WasFull
  <2> QED
    BY <1>2, <2>1, <2>3, KeptMore
<1> QED
  BY <1>4, <1>5

LEMMA KeptOffice ==
  ASSUME Apart, NEW events, NEW n \in Nat, NEW had, Kept(had, events, n),
         events[n + 1][2] \in Offices
  PROVE  Kept(Meet(had, events[n + 1][2]), events, n + 1)
<1> DEFINE new == [bag |-> {}, score |-> had.score \cup had.bag]
<1>1. Meet(had, events[n + 1][2]) = new
  BY DEF Meet
<1>2. new.bag = {} /\ new.score = had.score \cup had.bag
  OBVIOUS
<1>3. new = [bag |-> new.bag, score |-> new.score]
  OBVIOUS
<1> HIDE DEF new
<1>4. events[n + 1][2] \notin lost
  BY GatheringAssumption DEF Apart
<1>5. Cardinality(new.bag) <= Capacity
  BY <1>2, FS_EmptySet, GatheringAssumption
<1>6. Holds(new, events, n + 1)
  BY <1>2, <1>3, <1>5, MetStep DEF Kept, Holds, Apart
<1>7. WasFull(had) => WasFull(new)
  BY <1>2 DEF WasFull
<1>8. Took(new, events, n + 1)
  <2>1. \A k \in 1 .. n + 1 : k \in 1 .. n \/ k = n + 1
    OBVIOUS
  <2> QED
    BY <1>2, <1>4, <1>7, <2>1 DEF Kept, Took
<1>9. Paid(new, events, n + 1)
  <2> SUFFICES ASSUME NEW o \in new.score \ score
               PROVE  \E k \in 1 .. n + 1 : /\ events[k][2] \in Offices
                                            /\ o \in bag \/ Met(events, k, o)
    BY DEF Paid
  <2>1. \A k \in 1 .. n : k \in 1 .. n + 1
    OBVIOUS
  <2>2. n + 1 \in 1 .. n + 1
    OBVIOUS
  <2>3. CASE o \in had.score
    BY <2>1, <2>3, Zenon DEF Kept, Paid
  <2>4. CASE o \in had.bag
    <3>1. o \in bag \/ Met(events, n + 1, o)
      BY <2>4, MetStep DEF Kept, Holds
    <3> QED
      BY <2>2, <3>1
  <2> QED
    BY <1>2, <2>3, <2>4
<1>10. Left(new, events, n + 1)
  BY <1>2 DEF Left
<1> QED
  BY <1>1, <1>6, <1>8, <1>9, <1>10 DEF Kept

\* All of that after all the events.
LEMMA GatheredKept ==
  ASSUME Apart, NEW events, Len(events) \in Nat,
         \A k \in 1 .. Len(events) : events[k][2] \in lost \cup Offices
  PROVE  Kept(Gathered(events), events, Len(events))
<1>1. PICK has : /\ has[0] = [bag |-> bag, score |-> score]
                 /\ \A n \in 1 .. Len(events) : has[n] = Meet(has[n - 1], events[n][2])
                 /\ Gathered(events) = has[Len(events)]
  BY GatheredSteps
<1> DEFINE S == {n \in Nat : n <= Len(events) => Kept(has[n], events, n)}
<1>2. 0 \in S
  BY <1>1, KeptFirst
<1>3. ASSUME NEW n \in Nat, n \in S PROVE n + 1 \in S
  <2> SUFFICES ASSUME n + 1 <= Len(events) PROVE Kept(has[n + 1], events, n + 1)
    OBVIOUS
  <2>1. n <= Len(events) /\ n + 1 \in 1 .. Len(events) /\ (n + 1) - 1 = n
    OBVIOUS
  <2>2. Kept(has[n], events, n)
    BY <1>3, <2>1
  <2>3. has[n + 1] = Meet(has[n], events[n + 1][2])
    BY <1>1, <2>1
  <2>4. events[n + 1][2] \in lost \/ events[n + 1][2] \in Offices
    BY <2>1
  <2> QED
    BY <2>2, <2>3, <2>4, KeptObject, KeptOffice
<1> HIDE DEF S
<1>4. Nat \subseteq S
  BY <1>2, <1>3, NatSetInduction
<1> USE DEF S
<1> QED
  BY <1>1, <1>4

----------------------------------------------------------------------------
(* What the dog passes, and in which order *)

LEMMA SquareOrder ==
  ASSUME NEW w \in Int, NEW r \in Nat
  PROVE  w * w <= r * r <=> -r <= w /\ w <= r
<1>1. CASE w >= 0
  <2>1. w <= r => w * w <= r * r
    <3> SUFFICES ASSUME w <= r PROVE w * w <= r * r
      OBVIOUS
    <3>1. w * w <= w * r /\ w * r <= r * r
      BY <1>1
    <3> QED
      BY <3>1
  <2>2. w > r => w * w > r * r
    <3> SUFFICES ASSUME w > r PROVE w * w > r * r
      OBVIOUS
    <3>1. w * w > w * r /\ w * r >= r * r
      BY <1>1
    <3> QED
      BY <3>1
  <2> QED
    BY <1>1, <2>1, <2>2
<1>2. CASE w < 0
  <2> DEFINE m == -w
  <2>1. m \in Nat /\ m > 0 /\ m * m = w * w
    BY <1>2
  <2> HIDE DEF m
  <2>2. m <= r => m * m <= r * r
    <3> SUFFICES ASSUME m <= r PROVE m * m <= r * r
      OBVIOUS
    <3>1. m * m <= m * r /\ m * r <= r * r
      BY <2>1
    <3> QED
      BY <3>1, <2>1
  <2>3. m > r => m * m > r * r
    <3> SUFFICES ASSUME m > r PROVE m * m > r * r
      OBVIOUS
    <3>1. m * m > m * r /\ m * r >= r * r
      BY <2>1
    <3> QED
      BY <3>1, <2>1
  <2>4. m * m <= r * r <=> m <= r
    BY <2>1, <2>2, <2>3
  <2>5. w * w <= r * r <=> m <= r
    BY <2>1, <2>4
  <2>6. w * w <= r * r <=> -w <= r
    BY <2>5 DEF m
  <2> QED
    BY <1>2, <2>6
<1> QED
  BY <1>1, <1>2

\* A positive factor keeps the order.
LEMMA TimesKeepsOrder ==
  ASSUME NEW m \in Int, NEW n \in Int, NEW q \in Int, q > 0
  PROVE  m * q <= n * q <=> m <= n
<1>1. m <= n => m * q <= n * q
  OBVIOUS
<1>2. m > n => m * q > n * q
  OBVIOUS
<1> QED
  BY <1>1, <1>2

\* IsCollected on one axis: u and w lead from the dog to the item along and across
\* its way, d is the way.
LEMMA OneAxis ==
  ASSUME NEW u \in Int, NEW w \in Int, NEW d \in Int, d # 0, NEW r \in Nat
  PROVE  /\ d * d > 0
         /\ (/\ 0 <= u * d /\ u * d <= d * d
             /\ (u * u + w * w) * (d * d) - (u * d) * (u * d) <= (r * r) * (d * d))
            <=> (/\ (0 <= u /\ u <= d) \/ (d <= u /\ u <= 0)
                 /\ -r <= w /\ w <= r)
<1>1. d * d > 0
  <2>1. CASE d > 0
    BY <2>1
  <2>2. CASE d < 0
    BY <2>2
  <2> QED
    BY <2>1, <2>2
<1>2. (u * u + w * w) * (d * d) - (u * d) * (u * d) = (w * w) * (d * d)
  OBVIOUS
<1>3. (w * w) * (d * d) <= (r * r) * (d * d) <=> w * w <= r * r
  <2> DEFINE q == d * d
             m == w * w
             n == r * r
  <2>1. q \in Int /\ q > 0 /\ m \in Int /\ n \in Int
    BY <1>1
  <2> HIDE DEF q, m, n
  <2>2. m * q <= n * q <=> m <= n
    BY <2>1, TimesKeepsOrder
  <2> QED
    BY <2>2 DEF q, m, n
<1>4. w * w <= r * r <=> -r <= w /\ w <= r
  BY SquareOrder
<1>5. (0 <= u * d /\ u * d <= d * d) <=> ((0 <= u /\ u <= d) \/ (d <= u /\ u <= 0))
  <2>1. CASE d > 0
    <3>1. 0 * d <= u * d <=> 0 <= u
      BY <2>1, TimesKeepsOrder
    <3>2. u * d <= d * d <=> u <= d
      BY <2>1, TimesKeepsOrder
    <3>3. 0 * d = 0
      OBVIOUS
    <3>4. 0 <= u * d <=> 0 <= u
      BY <3>1, <3>3
    <3> QED
      BY <2>1, <3>2, <3>4
  <2>2. CASE d < 0
    <3> DEFINE q == -d
               m == -u
    <3>1. q \in Int /\ q > 0 /\ m \in Int /\ d = -q /\ u = -m
      BY <2>2
    <3>2. m * q = u * d /\ q * q = d * d
      BY <3>1
    <3>3. 0 * q = 0
      OBVIOUS
    <3> HIDE DEF q, m
    <3>4. 0 * q <= m * q <=> 0 <= m
      BY <3>1, TimesKeepsOrder
    <3>5. m * q <= q * q <=> m <= q
      BY <3>1, TimesKeepsOrder
    <3>6. 0 <= u * d <=> 0 <= m
      BY <3>2, <3>3, <3>4
    <3>7. u * d <= d * d <=> m <= q
      BY <3>2, <3>5
    <3> QED
      BY <2>2, <3>1, <3>6, <3>7
  <2> QED
    BY <2>1, <2>2
<1>6. (u * u + w * w) * (d * d) - (u * d) * (u * d) <= (r * r) * (d * d)
        <=> -r <= w /\ w <= r
  BY <1>2, <1>3, <1>4
<1> QED
  BY <1>1, <1>5, <1>6

\* Of two items on the way, the earlier is the nearer one.
LEMMA NearerFirst ==
  ASSUME NEW u \in Int, NEW t \in Int, NEW d \in Int, d # 0,
         (0 <= u /\ u <= d) \/ (d <= u /\ u <= 0),
         (0 <= t /\ t <= d) \/ (d <= t /\ t <= 0),
         (u * d) * (d * d) <= (t * d) * (d * d)
  PROVE  (IF u >= 0 THEN u ELSE -u) <= (IF t >= 0 THEN t ELSE -t)
<1>1. d * d > 0
  BY OneAxis, 0 \in Nat
<1>2. u * d <= t * d
  <2> DEFINE q == d * d
             m == u * d
             n == t * d
  <2>1. q \in Int /\ q > 0 /\ m \in Int /\ n \in Int /\ m * q <= n * q
    BY <1>1
  <2> HIDE DEF q, m, n
  <2>2. m <= n
    BY <2>1, TimesKeepsOrder
  <2> QED
    BY <2>2 DEF m, n
<1>3. CASE d > 0
  <2>1. u <= t
    BY <1>2, <1>3, TimesKeepsOrder
  <2> QED
    BY <1>3, <2>1
<1>4. CASE d < 0
  <2> DEFINE q == -d
             m == -u
             n == -t
  <2>1. q \in Int /\ q > 0 /\ m \in Int /\ n \in Int /\ d = -q /\ u = -m /\ t = -n
    BY <1>4
  <2>2. m * q = u * d /\ n * q = t * d
    BY <2>1
  <2> HIDE DEF q, m, n
  <2>3. m <= n
    BY <1>2, <2>1, <2>2, TimesKeepsOrder
  <2> QED
    BY <1>4, <2>1, <2>3
<1> QED
  BY <1>3, <1>4

\* The sequences of a finite set: each element is there once.
LEMMA AllInSequence ==
  ASSUME NEW S, IsFiniteSet(S), NEW s \in SetToSeqs(S)
  PROVE  /\ Len(s) \in Nat
         /\ \A k \in 1 .. Len(s) : s[k] \in S
         /\ \A e \in S : \E k \in 1 .. Len(s) : s[k] = e
<1> DEFINE n == Cardinality(S)
<1>1. n \in Nat
  BY FS_CardinalityType
<1>2. s \in [1 .. n -> S] /\ \A i, j \in 1 .. n : i # j => s[i] # s[j]
  BY DEF SetToSeqs
<1>3. IsFiniteSet(1 .. n) /\ Cardinality(1 .. n) = n
  BY <1>1, FS_Interval
<1> HIDE DEF n
<1>4. s \in Injection(1 .. n, S)
  BY <1>2 DEF Injection, IsInjective
<1>5. s \in Surjection(1 .. n, S)
  BY <1>3, <1>4, FS_Injection DEF n
<1>6. Len(s) = n
  <2>1. s \in Seq(S)
    BY <1>1, <1>2
  <2> QED
    BY <1>1, <1>2, <2>1
<1> QED
  BY <1>1, <1>2, <1>5, <1>6 DEF Surjection

\* The way of one tick, on one axis.
Straight ==
  /\ x \in Int /\ y \in Int /\ x' \in Int /\ y' \in Int
  /\ x' = x \/ y' = y

\* Where an item is, and how near a dog has to come.
At(i) == IF i \in Offices THEN <<Unit * i[1], Unit * i[2]>> ELSE ObjectPlace[i]
Reach(i) == IF i \in Offices THEN DogWidth + OfficeWidth ELSE DogWidth

LEMMA Place ==
  ASSUME Apart, NEW i \in lost \cup Offices
  PROVE  /\ Items[i].position = At(i)
         /\ DogWidth + Items[i].width = Reach(i)
         /\ Reach(i) \in Nat
         /\ At(i)[1] \in Int /\ At(i)[2] \in Int
<1>1. CASE i \in Offices
  <2>1. i[1] \in Int /\ i[2] \in Int
    BY <1>1, GatheringAssumption
  <2>2. Unit * i[1] \in Int /\ Unit * i[2] \in Int
    BY <2>1, UnitTimes
  <2>3. Reach(i) = DogWidth + OfficeWidth /\ Reach(i) \in Nat
    BY <1>1, UnitType DEF Reach, DogWidth, OfficeWidth
  <2> QED
    BY <1>1, <2>2, <2>3 DEF Items, At
<1>2. CASE i \notin Offices
  <2>1. ObjectPlace[i] \in Int \X Int
    BY <1>2, GatheringAssumption DEF Apart
  <2>2. Reach(i) = DogWidth /\ Reach(i) \in Nat /\ DogWidth + 0 = DogWidth
    BY <1>2, UnitType DEF Reach, DogWidth
  <2> QED
    BY <1>2, <2>1, <2>2 DEF Items, At
<1> QED
  BY <1>1, <1>2


\* The same for both axes, one of which is 0.
LEMMA BothAxes ==
  ASSUME NEW u \in Int, NEW w \in Int, NEW d \in Int, NEW h \in Int, NEW r \in Nat,
         d = 0 \/ h = 0, d # 0 \/ h # 0
  PROVE  IsCollected([dot |-> u * d + w * h, u2 |-> u * u + w * w,
                      v2 |-> d * d + h * h], r)
         <=> \/ /\ d # 0 /\ ((0 <= u /\ u <= d) \/ (d <= u /\ u <= 0))
                /\ -r <= w /\ w <= r
             \/ /\ h # 0 /\ ((0 <= w /\ w <= h) \/ (h <= w /\ w <= 0))
                /\ -r <= u /\ u <= r
<1> DEFINE Collected(a, b, c) == /\ 0 <= a /\ a <= c
                                 /\ b * c - a * a <= (r * r) * c
<1>1. \A a, b, c : IsCollected([dot |-> a, u2 |-> b, v2 |-> c], r) <=> Collected(a, b, c)
  BY DEF IsCollected, Square
<1>2. CASE d # 0
  <2>1. h = 0 /\ u * d + w * 0 = u * d /\ d * d + 0 * 0 = d * d
    BY <1>2
  <2>2. Collected(u * d, u * u + w * w, d * d)
        <=> ((0 <= u /\ u <= d) \/ (d <= u /\ u <= 0)) /\ -r <= w /\ w <= r
    BY <1>2, OneAxis
  <2> HIDE DEF Collected
  <2>3. u * d + w * h = u * d /\ d * d + h * h = d * d
    BY <2>1
  <2> QED
    BY <1>1, <1>2, <2>1, <2>2, <2>3, Zenon
<1>3. CASE h # 0
  <2>1. d = 0 /\ u * 0 + w * h = w * h /\ 0 * 0 + h * h = h * h
        /\ u * u + w * w = w * w + u * u
    BY <1>3
  <2>2. Collected(w * h, w * w + u * u, h * h)
        <=> ((0 <= w /\ w <= h) \/ (h <= w /\ w <= 0)) /\ -r <= u /\ u <= r
    BY <1>3, OneAxis
  <2> HIDE DEF Collected
  <2>3. u * d + w * h = w * h /\ d * d + h * h = h * h
    BY <2>1
  <2>4. u * u + w * w = w * w + u * u
    BY <2>1
  <2> QED
    BY <1>1, <1>3, <2>1, <2>2, <2>3, <2>4, Zenon
<1> QED
  BY <1>2, <1>3

\* The dog collects what Passes says.
LEMMA Collects ==
  ASSUME Straight, x' # x \/ y' # y, NEW c, c[1] \in Int, c[2] \in Int, NEW r \in Nat
  PROVE  IsCollected(TryCollectPoint(<<x, y>>, <<x', y'>>, c), r) <=> Passes(c, r)
<1>1. PICK a, b, k, l, i, j :
        a = x /\ b = y /\ k = x' /\ l = y' /\ i = c[1] /\ j = c[2]
  BY Zenon
<1>2. /\ a \in Int /\ b \in Int /\ k \in Int /\ l \in Int /\ i \in Int /\ j \in Int
      /\ (k = a \/ l = b) /\ (k # a \/ l # b)
  BY <1>1, Zenon DEF Straight
<1>3. PICK u, w, d, h : u = i - a /\ w = j - b /\ d = k - a /\ h = l - b
  BY Zenon
<1>4. TryCollectPoint(<<x, y>>, <<x', y'>>, c) =
      [dot |-> u * d + w * h, u2 |-> u * u + w * w, v2 |-> d * d + h * h]
  <2> DEFINE p == <<c[1] - x, c[2] - y>>
             q == <<x' - x, y' - y>>
  <2>1. TryCollectPoint(<<x, y>>, <<x', y'>>, c) =
        [dot |-> p[1] * q[1] + p[2] * q[2], u2 |-> p[1] * p[1] + p[2] * p[2],
         v2 |-> q[1] * q[1] + q[2] * q[2]]
    BY DEF TryCollectPoint, Square
  <2>2. p[1] = u /\ p[2] = w /\ q[1] = d /\ q[2] = h
    BY <1>1, <1>3
  <2> HIDE DEF p, q
  <2> QED
    BY <2>1, <2>2, Zenon
<1>5. Passes(c, r) <=> \/ k # a /\ Between(a, k, i) /\ Distance(j, b) <= r
                       \/ l # b /\ Between(b, l, j) /\ Distance(i, a) <= r
  BY <1>1, Zenon DEF Passes
<1> HIDE <1>1
<1>6. /\ u \in Int /\ w \in Int /\ d \in Int /\ h \in Int
      /\ d = 0 \/ h = 0
      /\ d # 0 \/ h # 0
      /\ (\/ k # a /\ Between(a, k, i) /\ Distance(j, b) <= r
          \/ l # b /\ Between(b, l, j) /\ Distance(i, a) <= r)
         <=> \/ /\ d # 0 /\ ((0 <= u /\ u <= d) \/ (d <= u /\ u <= 0))
                /\ -r <= w /\ w <= r
             \/ /\ h # 0 /\ ((0 <= w /\ w <= h) \/ (h <= w /\ w <= 0))
                /\ -r <= u /\ u <= r
  BY <1>2, <1>3 DEF Between, Lesser, Greater, Distance
<1>7. IsCollected([dot |-> u * d + w * h, u2 |-> u * u + w * w,
                   v2 |-> d * d + h * h], r)
      <=> \/ /\ d # 0 /\ ((0 <= u /\ u <= d) \/ (d <= u /\ u <= 0))
             /\ -r <= w /\ w <= r
          \/ /\ h # 0 /\ ((0 <= w /\ w <= h) \/ (h <= w /\ w <= 0))
             /\ -r <= u /\ u <= r
  BY <1>6, BothAxes
<1> QED
  BY <1>4, <1>5, <1>6, <1>7, Zenon

\* An item the dog passes first is not farther along its way.
LEMMA NearerFirstBoth ==
  ASSUME NEW u \in Int, NEW w \in Int, NEW t \in Int, NEW s \in Int,
         NEW d \in Int, NEW h \in Int, d = 0 \/ h = 0, d # 0 \/ h # 0,
         d # 0 => (0 <= u /\ u <= d) \/ (d <= u /\ u <= 0),
         d # 0 => (0 <= t /\ t <= d) \/ (d <= t /\ t <= 0),
         h # 0 => (0 <= w /\ w <= h) \/ (h <= w /\ w <= 0),
         h # 0 => (0 <= s /\ s <= h) \/ (h <= s /\ s <= 0),
         (u * d + w * h) * (d * d + h * h) <= (t * d + s * h) * (d * d + h * h)
  PROVE  /\ d # 0 => (IF u >= 0 THEN u ELSE -u) <= (IF t >= 0 THEN t ELSE -t)
         /\ h # 0 => (IF w >= 0 THEN w ELSE -w) <= (IF s >= 0 THEN s ELSE -s)
<1>1. CASE d # 0
  <2>1. h = 0 /\ u * d + w * 0 = u * d /\ t * d + s * 0 = t * d /\ d * d + 0 * 0 = d * d
    BY <1>1
  <2>2. u * d + w * h = u * d /\ t * d + s * h = t * d /\ d * d + h * h = d * d
    BY <2>1
  <2>3. (u * d) * (d * d) <= (t * d) * (d * d)
    BY <2>2, Zenon
  <2> QED
    BY <1>1, <2>1, <2>3, NearerFirst
<1>2. CASE h # 0
  <2>1. d = 0 /\ u * 0 + w * h = w * h /\ t * 0 + s * h = s * h /\ 0 * 0 + h * h = h * h
    BY <1>2
  <2>2. u * d + w * h = w * h /\ t * d + s * h = s * h /\ d * d + h * h = h * h
    BY <2>1
  <2>3. (w * h) * (h * h) <= (s * h) * (h * h)
    BY <2>2, Zenon
  <2> QED
    BY <1>2, <2>1, <2>3, NearerFirst
<1> QED
  BY <1>1, <1>2

LEMMA AlongOrder ==
  ASSUME Straight, x' # x \/ y' # y,
         NEW c, c[1] \in Int, c[2] \in Int, NEW r \in Nat, Passes(c, r),
         NEW e, e[1] \in Int, e[2] \in Int, NEW q \in Nat, Passes(e, q),
         LET first == TryCollectPoint(<<x, y>>, <<x', y'>>, c)
             second == TryCollectPoint(<<x, y>>, <<x', y'>>, e)
         IN first.dot * second.v2 <= second.dot * first.v2
  PROVE  Along(c) <= Along(e)
<1>1. PICK a, b, k, l : a = x /\ b = y /\ k = x' /\ l = y'
  BY Zenon
<1>2. PICK i, j, m, n : i = c[1] /\ j = c[2] /\ m = e[1] /\ n = e[2]
  BY Zenon
<1>3. /\ a \in Int /\ b \in Int /\ k \in Int /\ l \in Int
      /\ i \in Int /\ j \in Int /\ m \in Int /\ n \in Int
      /\ (k = a \/ l = b) /\ (k # a \/ l # b)
  BY <1>1, <1>2, Zenon DEF Straight
<1>4. PICK u, w, t, s, d, h :
        u = i - a /\ w = j - b /\ t = m - a /\ s = n - b /\ d = k - a /\ h = l - b
  BY Zenon
<1>5. /\ TryCollectPoint(<<x, y>>, <<x', y'>>, c).dot = u * d + w * h
      /\ TryCollectPoint(<<x, y>>, <<x', y'>>, c).v2 = d * d + h * h
      /\ TryCollectPoint(<<x, y>>, <<x', y'>>, e).dot = t * d + s * h
      /\ TryCollectPoint(<<x, y>>, <<x', y'>>, e).v2 = d * d + h * h
  <2>1. ASSUME NEW p
        PROVE  LET z == TryCollectPoint(<<x, y>>, <<x', y'>>, p)
               IN /\ z.dot = (p[1] - x) * (x' - x) + (p[2] - y) * (y' - y)
                  /\ z.v2 = (x' - x) * (x' - x) + (y' - y) * (y' - y)
    <3> DEFINE f == <<p[1] - x, p[2] - y>>
               g == <<x' - x, y' - y>>
    <3>1. TryCollectPoint(<<x, y>>, <<x', y'>>, p) =
          [dot |-> f[1] * g[1] + f[2] * g[2], u2 |-> f[1] * f[1] + f[2] * f[2],
           v2 |-> g[1] * g[1] + g[2] * g[2]]
      BY DEF TryCollectPoint, Square
    <3>2. /\ TryCollectPoint(<<x, y>>, <<x', y'>>, p).dot = f[1] * g[1] + f[2] * g[2]
          /\ TryCollectPoint(<<x, y>>, <<x', y'>>, p).v2 = g[1] * g[1] + g[2] * g[2]
      BY <3>1
    <3>3. f[1] = p[1] - x /\ f[2] = p[2] - y /\ g[1] = x' - x /\ g[2] = y' - y
      OBVIOUS
    <3> HIDE DEF f, g
    <3> QED
      BY <3>2, <3>3, Zenon
  <2> QED
    BY <1>1, <1>2, <1>4, <2>1, Zenon
<1>6. \/ k # a /\ Between(a, k, i) /\ Distance(j, b) <= r
      \/ l # b /\ Between(b, l, j) /\ Distance(i, a) <= r
  BY <1>1, <1>2, Zenon DEF Passes
<1>7. \/ k # a /\ Between(a, k, m) /\ Distance(n, b) <= q
      \/ l # b /\ Between(b, l, n) /\ Distance(m, a) <= q
  BY <1>1, <1>2, Zenon DEF Passes
<1>8. /\ Along(c) = IF l = b THEN Distance(i, a) ELSE Distance(j, b)
      /\ Along(e) = IF l = b THEN Distance(m, a) ELSE Distance(n, b)
  BY <1>1, <1>2, Zenon DEF Along
<1>9. (u * d + w * h) * (d * d + h * h) <= (t * d + s * h) * (d * d + h * h)
  BY <1>5, Zenon
<1> HIDE <1>1, <1>2
<1>10. /\ u \in Int /\ w \in Int /\ t \in Int /\ s \in Int /\ d \in Int /\ h \in Int
       /\ d = 0 \/ h = 0
       /\ d # 0 \/ h # 0
       /\ d # 0 => (0 <= u /\ u <= d) \/ (d <= u /\ u <= 0)
       /\ d # 0 => (0 <= t /\ t <= d) \/ (d <= t /\ t <= 0)
       /\ h # 0 => (0 <= w /\ w <= h) \/ (h <= w /\ w <= 0)
       /\ h # 0 => (0 <= s /\ s <= h) \/ (h <= s /\ s <= 0)
  BY <1>3, <1>4, <1>6, <1>7 DEF Between, Lesser, Greater, Distance
<1>11. /\ d # 0 => (IF u >= 0 THEN u ELSE -u) <= (IF t >= 0 THEN t ELSE -t)
       /\ h # 0 => (IF w >= 0 THEN w ELSE -w) <= (IF s >= 0 THEN s ELSE -s)
  BY <1>9, <1>10, NearerFirstBoth
<1> QED
  BY <1>3, <1>4, <1>8, <1>11 DEF Distance

LEMMA AlongInt ==
  ASSUME Straight, NEW c, c[1] \in Int, c[2] \in Int
  PROVE  Along(c) \in Int
BY DEF Along, Distance, Straight

LEMMA EventIs ==
  ASSUME Apart, Straight, NEW i \in lost \cup Offices
  PROVE  <<"dog", i>> \in Events(Gatherers, Items) <=> Passes(At(i), Reach(i))
<1>1. "dog" \in DOMAIN Gatherers /\ i \in DOMAIN Items
  BY DEF Gatherers, Items
<1>2. /\ Gatherers["dog"].start = <<x, y>> /\ Gatherers["dog"].end = <<x', y'>>
      /\ Gatherers["dog"].width = DogWidth
  BY DEF Gatherers
<1>3. /\ Items[i].position = At(i) /\ DogWidth + Items[i].width = Reach(i)
      /\ Reach(i) \in Nat /\ At(i)[1] \in Int /\ At(i)[2] \in Int
  BY Place
<1>4. <<"dog", i>> \in Events(Gatherers, Items)
      <=> /\ <<x, y>> # <<x', y'>>
          /\ IsCollected(TryCollectPoint(<<x, y>>, <<x', y'>>, At(i)), Reach(i))
  BY <1>1, <1>2, <1>3 DEF Events
<1>5. <<x, y>> # <<x', y'>> <=> x' # x \/ y' # y
  OBVIOUS
<1>6. Passes(At(i), Reach(i)) => x' # x \/ y' # y
  BY DEF Passes
<1> QED
  BY <1>3, <1>4, <1>5, <1>6, Collects

\* What FindGatherEvents returns: what the dog passes, once, in the order of its way.
LEMMA EventsOf ==
  ASSUME Apart, Straight, NEW events \in FindGatherEvents(Gatherers, Items)
  PROVE  /\ Len(events) \in Nat
         /\ \A k \in 1 .. Len(events) :
              /\ events[k][2] \in lost \cup Offices
              /\ Passes(At(events[k][2]), Reach(events[k][2]))
         /\ \A i \in lost \cup Offices : Passes(At(i), Reach(i)) =>
              \E k \in 1 .. Len(events) : events[k][2] = i
         /\ \A k, j \in 1 .. Len(events) : k <= j =>
              Along(At(events[k][2])) <= Along(At(events[j][2]))
<1> DEFINE E == Events(Gatherers, Items)
<1>1. \A e \in E : e = <<"dog", e[2]>> /\ e[2] \in lost \cup Offices
  BY DEF Events, Gatherers, Items
<1>2. IsFiniteSet(E)
  <2>1. IsFiniteSet(lost \cup Offices)
    BY FS_Subset, FS_Union, GatheringAssumption DEF Apart
  <2>2. IsFiniteSet({"dog"} \X (lost \cup Offices))
    BY <2>1, FS_Singleton, FS_Product
  <2>3. E \in SUBSET ({"dog"} \X (lost \cup Offices))
    BY DEF Events, Gatherers, Items
  <2> HIDE DEF E
  <2> QED
    BY <2>2, <2>3, FS_Subset
<1>3. events \in SetToSeqs(E)
  BY DEF FindGatherEvents
<1>4. /\ Len(events) \in Nat
      /\ \A k \in 1 .. Len(events) : events[k] \in E
      /\ \A e \in E : \E k \in 1 .. Len(events) : events[k] = e
  BY <1>2, <1>3, AllInSequence
<1>5. ASSUME NEW k \in 1 .. Len(events)
      PROVE  /\ events[k] = <<"dog", events[k][2]>>
             /\ events[k][2] \in lost \cup Offices
             /\ Passes(At(events[k][2]), Reach(events[k][2]))
  BY <1>1, <1>4, EventIs
<1>6. ASSUME NEW i \in lost \cup Offices, Passes(At(i), Reach(i))
      PROVE  \E k \in 1 .. Len(events) : events[k][2] = i
  <2>1. <<"dog", i>> \in E
    BY <1>6, EventIs
  <2>2. PICK k \in 1 .. Len(events) : events[k] = <<"dog", i>>
    BY <1>4, <2>1
  <2> QED
    BY <2>2
<1>7. ASSUME NEW k \in 1 .. Len(events), NEW j \in 1 .. Len(events), k <= j
      PROVE  Along(At(events[k][2])) <= Along(At(events[j][2]))
  <2> DEFINE m == events[k][2]
             n == events[j][2]
  <2>1. /\ m \in lost \cup Offices /\ Passes(At(m), Reach(m))
        /\ n \in lost \cup Offices /\ Passes(At(n), Reach(n))
        /\ events[k] = <<"dog", m>> /\ events[j] = <<"dog", n>>
    BY <1>5
  <2>2. /\ Items[m].position = At(m) /\ Items[n].position = At(n)
        /\ Reach(m) \in Nat /\ Reach(n) \in Nat
        /\ At(m)[1] \in Int /\ At(m)[2] \in Int
        /\ At(n)[1] \in Int /\ At(n)[2] \in Int
    BY <2>1, Place
  <2>3. CASE k = j
    <3>1. Along(At(n)) \in Int
      BY <2>2, AlongInt
    <3> QED
      BY <2>3, <3>1
  <2>4. CASE k < j
    <3> DEFINE first == TryCollectPoint(<<x, y>>, <<x', y'>>, At(m))
               second == TryCollectPoint(<<x, y>>, <<x', y'>>, At(n))
               Timed(e) == TryCollectPoint(Gatherers[e[1]].start, Gatherers[e[1]].end,
                                           Items[e[2]].position)
    <3>1. Timed(events[k]).dot * Timed(events[j]).v2
          <= Timed(events[j]).dot * Timed(events[k]).v2
      BY <2>4 DEF FindGatherEvents, IsSorted
    <3>2. Timed(events[k]) = first /\ Timed(events[j]) = second
      BY <2>1, <2>2 DEF Gatherers
    <3> HIDE DEF Timed, first, second
    <3>3. first.dot * second.v2 <= second.dot * first.v2
      BY <3>1, <3>2, Zenon
    <3>4. x' # x \/ y' # y
      BY <2>1 DEF Passes
    <3> HIDE DEF m, n
    <3> QED
      BY <2>1, <2>2, <3>3, <3>4, AlongOrder DEF first, second
  <2> QED
    BY <1>4, <1>7, <2>3, <2>4
<1> QED
  BY <1>4, <1>5, <1>6, <1>7

----------------------------------------------------------------------------
(* A tick *)

\* A dog runs on one axis at a time.
LEMMA TickStraight ==
  ASSUME MInv, NEW dt \in Deltas, Tick(dt)
  PROVE  Straight
<1>1. /\ x \in Int /\ y \in Int /\ x' \in Int /\ y' \in Int
      /\ vx = 0 \/ vy = 0
  BY TickInv DEF MInv, MTypeOK, Directions
<1>2. CASE Stand(dt)
  BY <1>1, <1>2 DEF Stand, Straight
<1>3. CASE Run(dt)
  <2>1. CASE vx = 0
    <3>1. x + vx * Speed * dt = x
      BY <1>1, <2>1, DeltasAssumption
    <3> QED
      BY <1>1, <1>3, <2>1, <3>1 DEF Run, WallStop, Straight
  <2>2. CASE vx # 0
    <3>1. vy = 0 /\ y + vy * Speed * dt = y
      BY <1>1, <2>2, DeltasAssumption
    <3> QED
      BY <1>1, <1>3, <2>2, <3>1 DEF Run, WallStop, Straight
  <2> QED
    BY <2>1, <2>2
<1> QED
  BY <1>2, <1>3 DEF Tick

\* TakenUnlessFull and HandedInOnTheWay of one step.
Taken ==
  /\ Cardinality(bag') <= Capacity
  /\ \A o \in lost :
       /\ o \notin lost' => PassesObject(o)
       /\ PassesObject(o) /\ o \in lost' =>
            Cardinality(bag \cup (lost \ lost')) >= Capacity
InOrderOfTheWay ==
  /\ \A o \in score' \ score :
       \E f \in OfficesPassed : o \in bag \/ Along(ObjectPlace[o]) <= Along(f)
  /\ \A o \in bag', f \in OfficesPassed :
       o \notin bag /\ Along(f) <= Along(ObjectPlace[o])

LEMMA Collisions ==
  ASSUME Apart, Straight, HandleCollisions
  PROVE  Apart' /\ Taken /\ InOrderOfTheWay
<1>1. PICK events \in FindGatherEvents(Gatherers, Items) :
        /\ bag' = Gathered(events).bag /\ score' = Gathered(events).score
        /\ lost' = lost \ (bag' \cup score')
  BY DEF HandleCollisions
<1> DEFINE n == Len(events)
           Item(k) == events[k][2]
<1>2. /\ n \in Nat
      /\ \A k \in 1 .. n : /\ Item(k) \in lost \cup Offices
                           /\ Passes(At(Item(k)), Reach(Item(k)))
      /\ \A i \in lost \cup Offices : Passes(At(i), Reach(i)) =>
           \E k \in 1 .. n : Item(k) = i
      /\ \A k, j \in 1 .. n : k <= j => Along(At(Item(k))) <= Along(At(Item(j)))
  BY <1>1, EventsOf
<1>3. Kept(Gathered(events), events, n)
  BY <1>2, GatheredKept
<1>4. PICK had : had = Gathered(events)
  OBVIOUS
<1>5. /\ bag' = had.bag /\ score' = had.score
      /\ Holds(had, events, n) /\ Took(had, events, n)
      /\ Paid(had, events, n) /\ Left(had, events, n)
  BY <1>1, <1>3, <1>4 DEF Kept
<1>6. /\ bag' \subseteq Objects /\ score' \subseteq Objects
      /\ bag' \subseteq bag \cup lost
      /\ Cardinality(bag') <= Capacity
      /\ bag \cup score \subseteq bag' \cup score'
      /\ \A o \in (bag' \cup score') \ (bag \cup score) : Met(events, n, o)
  BY <1>5 DEF Holds, Apart
<1>7. ASSUME NEW o \in Objects PROVE o \notin Offices
  BY GatheringAssumption
<1>8. ASSUME NEW o \in Objects
      PROVE  At(o) = ObjectPlace[o] /\ (PassesObject(o) <=> Passes(At(o), Reach(o)))
  BY <1>7 DEF At, Reach, PassesObject
<1>9. ASSUME NEW f \in Offices, Passes(At(f), Reach(f)) PROVE At(f) \in OfficesPassed
  BY <1>9 DEF At, Reach, OfficesPassed
<1>10. ASSUME NEW c \in OfficesPassed
       PROVE  \E f \in Offices : c = At(f) /\ Passes(At(f), Reach(f))
  BY DEF At, Reach, OfficesPassed
<1>11. Apart'
  BY <1>1, <1>6 DEF Apart
<1>12. ASSUME NEW o \in lost, o \notin lost' PROVE PassesObject(o)
  <2>1. o \in bag' \cup score' /\ o \notin bag \cup score /\ o \in Objects
    BY <1>1, <1>12 DEF Apart
  <2>2. PICK k \in 1 .. n : Item(k) = o
    BY <1>6, <2>1 DEF Met
  <2> QED
    BY <1>2, <1>8, <2>1, <2>2, Zenon
<1>13. ASSUME NEW o \in lost, PassesObject(o), o \in lost'
       PROVE  Cardinality(bag \cup (lost \ lost')) >= Capacity
  <2>1. o \in Objects /\ o \notin bag' \cup score'
    BY <1>1, <1>13 DEF Apart
  <2>2. PICK k \in 1 .. n : Item(k) = o
    BY <1>2, <1>8, <1>13, <2>1
  <2>3. WasFull(had)
    BY <1>5, <2>1, <2>2 DEF Took
  <2>4. PICK full \in SUBSET (bag \cup lost) :
          full \subseteq bag' \cup score' /\ Cardinality(full) >= Capacity
    BY <1>5, <2>3 DEF WasFull
  <2> DEFINE whole == bag \cup (lost \ lost')
  <2>5. full \in SUBSET whole
    BY <1>1, <2>4
  <2>6. IsFiniteSet(whole)
    <3>1. whole \in SUBSET Objects
      BY DEF Apart
    <3> QED
      BY <3>1, FS_Subset, GatheringAssumption
  <2> HIDE DEF whole
  <2>7. Cardinality(full) <= Cardinality(whole) /\ IsFiniteSet(full)
    BY <2>5, <2>6, FS_Subset
  <2>8. Cardinality(full) \in Nat /\ Cardinality(whole) \in Nat /\ Capacity \in Nat
    BY <2>6, <2>7, FS_CardinalityType, GatheringAssumption
  <2>9. Cardinality(whole) >= Capacity
    BY <2>4, <2>7, <2>8
  <2> QED
    BY <2>9 DEF whole
<1>14. ASSUME NEW o \in score' \ score
       PROVE  \E f \in OfficesPassed : o \in bag \/ Along(ObjectPlace[o]) <= Along(f)
  <2>1. PICK k \in 1 .. n : /\ Item(k) \in Offices
                            /\ o \in bag \/ Met(events, k, o)
    BY <1>5 DEF Paid
  <2>2. At(Item(k)) \in OfficesPassed
    BY <1>2, <1>9, <2>1
  <2>3. CASE o \in bag
    BY <2>2, <2>3
  <2>4. CASE Met(events, k, o)
    <3>1. PICK j \in 1 .. k : Item(j) = o
      BY <2>4 DEF Met
    <3>2. j \in 1 .. n /\ j <= k
      BY <1>2
    <3>3. Along(At(o)) <= Along(At(Item(k)))
      BY <1>2, <3>1, <3>2, Zenon
    <3>4. At(o) = ObjectPlace[o]
      BY <1>6, <1>8
    <3> QED
      BY <2>2, <3>3, <3>4
  <2> QED
    BY <2>1, <2>3, <2>4
<1>15. ASSUME NEW o \in bag', NEW c \in OfficesPassed
       PROVE  o \notin bag /\ Along(c) <= Along(ObjectPlace[o])
  <2>1. PICK f \in Offices : c = At(f) /\ Passes(At(f), Reach(f))
    BY <1>10
  <2>2. PICK k \in 1 .. n : Item(k) = f
    BY <1>2, <2>1
  <2>3. PICK j \in k .. n : Item(j) = o
    BY <1>5, <2>2 DEF Left
  <2>4. j \in 1 .. n /\ k <= j
    BY <1>2
  <2>5. o \in Objects /\ At(o) = ObjectPlace[o]
    BY <1>6, <1>8
  <2>6. o \in lost
    BY <1>2, <1>7, <2>3, <2>4, <2>5
  <2>7. Along(At(f)) <= Along(At(o))
    BY <1>2, <2>2, <2>3, <2>4, Zenon
  <2> QED
    BY <2>1, <2>5, <2>6, <2>7 DEF Apart
<1> QED
  BY <1>6, <1>11, <1>12, <1>13, <1>14, <1>15 DEF Taken, InOrderOfTheWay

GInv == MInv /\ Apart

LEMMA GInitInv == GInit => GInv
<1> SUFFICES ASSUME GInit PROVE GInv
  OBVIOUS
<1>1. MInv
  BY MInitInv DEF GInit
<1>2. Cardinality(bag) <= Capacity
  BY FS_EmptySet, GatheringAssumption DEF GInit
<1> QED
  BY <1>1, <1>2 DEF GInit, GInv, Apart

\* A step in which the dog does not move and nothing is taken.
LEMMA Nothing ==
  ASSUME Apart, UNCHANGED <<lost, bag, score>>, UNCHANGED <<x, y>>
  PROVE  Apart' /\ Taken /\ InOrderOfTheWay
BY DEF Apart, Taken, InOrderOfTheWay, PassesObject, OfficesPassed, Passes

LEMMA GStep ==
  ASSUME GInv, [GNext]_gVars
  PROVE  /\ GInv'
         /\ on' => Taken /\ InOrderOfTheWay
         /\ ~on' => Cardinality(bag') <= Capacity /\ lost' = lost
<1>1. MInv'
  BY GNextInv DEF GInv
<1>2. ASSUME NEW dt \in Deltas, GatheringTick(dt)
      PROVE  /\ Apart'
             /\ on' => Taken /\ InOrderOfTheWay
             /\ ~on' => Cardinality(bag') <= Capacity /\ lost' = lost
  <2>1. Straight
    BY <1>2, TickStraight DEF GatheringTick, GInv
  <2>2. CASE on'
    BY <1>2, <2>1, <2>2, Collisions DEF GatheringTick, GInv
  <2>3. CASE ~on'
    BY <1>2, <2>3 DEF GatheringTick, GInv, Apart
  <2> QED
    BY <2>2, <2>3
<1>3. ASSUME UNCHANGED <<lost, bag, score>>, UNCHANGED <<x, y>>
      PROVE  /\ Apart'
             /\ on' => Taken /\ InOrderOfTheWay
             /\ ~on' => Cardinality(bag') <= Capacity /\ lost' = lost
  <2>1. Apart' /\ Taken /\ InOrderOfTheWay
    BY <1>3, Nothing DEF GInv
  <2> QED
    BY <1>3, <2>1 DEF Taken
<1>4. ASSUME NEW dir \in Directions, MoveDog(dir), UNCHANGED <<lost, bag, score>>
      PROVE  /\ Apart'
             /\ on' => Taken /\ InOrderOfTheWay
             /\ ~on' => Cardinality(bag') <= Capacity /\ lost' = lost
  <2>1. UNCHANGED <<x, y>>
    BY <1>4 DEF MoveDog
  <2> QED
    BY <1>3, <1>4, <2>1, Zenon
<1>5. ASSUME UNCHANGED gVars
      PROVE  /\ Apart'
             /\ on' => Taken /\ InOrderOfTheWay
             /\ ~on' => Cardinality(bag') <= Capacity /\ lost' = lost
  <2>1. UNCHANGED <<lost, bag, score>> /\ UNCHANGED <<x, y>>
    BY <1>5 DEF gVars, mVars
  <2> QED
    BY <1>3, <2>1, Zenon
<1>6. \/ \E dt \in Deltas : GatheringTick(dt)
      \/ \E dir \in Directions : MoveDog(dir) /\ UNCHANGED <<lost, bag, score>>
      \/ UNCHANGED gVars
  BY DEF GNext
<1>7. /\ Apart'
      /\ on' => Taken /\ InOrderOfTheWay
      /\ ~on' => Cardinality(bag') <= Capacity /\ lost' = lost
  BY <1>2, <1>4, <1>5, <1>6, Zenon
<1> QED
  BY <1>1, <1>7, Zenon DEF GInv

\* The inductive invariant: the dog is in a known cell, and no object is both on the
\* map and taken.
THEOREM GInvHolds == GSpec => []GInv
<1>1. GInv /\ [GNext]_gVars => GInv'
  BY GStep
<1> QED
  BY <1>1, GInitInv, PTL DEF GSpec

\* HandleCollisions takes what the dog's way of a tick passes and nothing else, for
\* every map, speed, delta, number of objects and capacity: what is left was passed
\* with a full bag, and the bag never holds more than its capacity.
THEOREM TakenUnlessFullHolds == GSpec => TakenUnlessFull
<1>1. GInv /\ [GNext]_gVars =>
        [/\ Cardinality(bag') <= Capacity
         /\ \A o \in lost :
              /\ o \notin lost' => PassesObject(o)
              /\ on' /\ PassesObject(o) /\ o \in lost' =>
                   Cardinality(bag \cup (lost \ lost')) >= Capacity]_gVars
  BY GStep DEF Taken
<1> QED
  BY <1>1, GInvHolds, PTL DEF GSpec, TakenUnlessFull

\* The events of a tick count in the order of the way: an office hands in what the
\* dog had when it came there, and what it passed later stays in the bag.
THEOREM HandedInOnTheWayHolds == GSpec => HandedInOnTheWay
<1>1. GInv /\ [GNext]_gVars =>
        [on' =>
           /\ \A o \in score' \ score :
                \E f \in OfficesPassed : o \in bag \/ Along(ObjectPlace[o]) <= Along(f)
           /\ \A o \in bag', f \in OfficesPassed :
                o \notin bag /\ Along(f) <= Along(ObjectPlace[o])]_gVars
  BY GStep DEF InOrderOfTheWay
<1> QED
  BY <1>1, GInvHolds, PTL DEF GSpec, HandedInOnTheWay
==============================================================================
