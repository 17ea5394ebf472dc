---------------------------- MODULE DogMovement ----------------------------
(***************************************************************************)
(* One dog on the roads of its map: Dog::MoveDog (a player action),        *)
(* Dog::MoveDogByTick with the wall stop, and Dog::IsInactive.             *)
(*                                                                         *)
(* Coordinates are integers, Tenth to 0.1 of the code, and Epsilon of them *)
(* are its EPSILON: 100 and 1 in the code, less than Tenth here.  A delta  *)
(* may be negative: POST /game/tick takes any number.  The idle time is    *)
(* kept up to RetirementTime, the only value it is compared with, and down *)
(* to the bound MaxDebt.                                                   *)
(***************************************************************************)
EXTENDS Integers, FiniteSets

CONSTANTS
  Tenth, Epsilon,  \* 0.1 and EPSILON (0.001), in units
  Roads,           \* the roads of the map: [x0, y0, x1, y1], integers
  Spawns,          \* where a dog may start: integer points of roads
  Speed,           \* units a dog runs in one unit of time
  Deltas,          \* time deltas of a tick, of the ticker or of /game/tick
  RetirementTime,
  MaxDebt          \* bound: how far below 0 negative deltas take the idle time

Unit == 10 * Tenth       \* 1.0
Half == 5 * Tenth        \* 0.5
HalfWidth == 4 * Tenth   \* HALF_ROAD_WIDTH

ASSUME UnitAssumption ==
  Tenth \in Nat \ {0} /\ Epsilon \in Nat /\ Epsilon < Tenth

ASSUME RoadsAssumption ==
  \A r \in Roads :
    /\ r.x0 \in Int /\ r.x1 \in Int /\ r.y0 \in Int /\ r.y1 \in Int
    /\ r.x0 = r.x1 \/ r.y0 = r.y1

ASSUME DeltasAssumption ==
  /\ Deltas \subseteq Int /\ Speed \in Nat
  /\ RetirementTime \in Nat /\ MaxDebt \in Nat

VARIABLES
  x, y,      \* Dog::position_
  vx, vy,    \* Dog::speed_, as a direction: -1, 0 or 1 on one axis
  idle,      \* Dog::time_since_last_move_
  on,        \* the dog is in its session's dogs_
  still      \* how long the dog has really stood where it is (history)

mVars == <<x, y, vx, vy, idle, on, still>>

----------------------------------------------------------------------------
(* Roads *)

Lesser(a, b) == IF a <= b THEN a ELSE b
Greater(a, b) == IF a >= b THEN a ELSE b

IsHorizontal(r) == r.y0 = r.y1

\* Road::GetRoadSegment, as its four borders.
Segment(r) ==
  [left  |-> Unit * Lesser(r.x0, r.x1) - HalfWidth,
   right |-> Unit * Greater(r.x0, r.x1) + HalfWidth,
   low   |-> Unit * Lesser(r.y0, r.y1) - HalfWidth,
   high  |-> Unit * Greater(r.y0, r.y1) + HalfWidth]

\* The points Map::AddRoad enters into point_to_road_segments_.
Cells(r) ==
  IF IsHorizontal(r) THEN (Lesser(r.x0, r.x1) .. Greater(r.x0, r.x1)) \X {r.y0}
  ELSE {r.x0} \X (Lesser(r.y0, r.y1) .. Greater(r.y0, r.y1))

\* std::round, away from zero at one half; a cast alone would truncate.
RoundTruncated(a) == IF a >= 0 THEN a \div Unit ELSE -((-a) \div Unit)
Round(a) == IF a >= 0 THEN (a + Half) \div Unit ELSE -((-a + Half) \div Unit)

RoadsAt(cell) == {r \in Roads : cell \in Cells(r)}

ASSUME SpawnsAssumption ==
  \A p \in Spawns : p \in Int \X Int /\ RoadsAt(p) # {}

Inside(a, b, r) ==
  LET s == Segment(r)
  IN /\ s.left - Epsilon <= a /\ a <= s.right + Epsilon
     /\ s.low - Epsilon <= b /\ b <= s.high + Epsilon

IsPositionValid(a, b, roads) == \E r \in roads : Inside(a, b, r)

----------------------------------------------------------------------------
(* Moving *)

ClampLowOnly(a, low, high) == IF a < low THEN low ELSE a
Clamp(a, low, high) == IF a < low THEN low ELSE IF a > high THEN high ELSE a

Distance(a, b) == IF a >= b THEN a - b ELSE b - a

\* The stops the roads offer on one axis; the farthest wins.
Farthest(from, stops) ==
  {c \in stops : \A other \in stops : Distance(c, from) >= Distance(other, from)}

\* GetWallStopAndSetPosition: only the axis of the speed is clamped, and to the
\* border itself, without EPSILON.
WallStopBothAxes(a, b, roads) ==
  /\ x' \in Farthest(x, {Clamp(a, Segment(r).left, Segment(r).right) : r \in roads})
  /\ y' \in Farthest(y, {Clamp(b, Segment(r).low, Segment(r).high) : r \in roads})
WallStop(a, b, roads) ==
  IF vx # 0
  THEN /\ x' \in Farthest(x, {Clamp(a, Segment(r).left, Segment(r).right) : r \in roads})
       /\ y' = y
  ELSE /\ y' \in Farthest(y, {Clamp(b, Segment(r).low, Segment(r).high) : r \in roads})
       /\ x' = x

Grow(time, dt) == Lesser(time + dt, RetirementTime)

Standing == vx = 0 /\ vy = 0

\* MoveDogByTick: a standing dog only grows idle; a free move leaves the idle
\* time as it is; a wall stop takes the speed and resets the idle time.
Stand(dt) ==
  /\ Standing /\ idle + dt >= -MaxDebt
  /\ idle' = Grow(idle, dt)
  /\ UNCHANGED <<x, y, vx, vy>>

Run(dt) ==
  LET a == x + vx * Speed * dt
      b == y + vy * Speed * dt
      roads == RoadsAt(<<Round(x), Round(y)>>)
  IN /\ ~Standing /\ roads # {}
     /\ IF IsPositionValid(a, b, roads)
        THEN x' = a /\ y' = b /\ UNCHANGED <<vx, vy, idle>>
        ELSE /\ WallStop(a, b, roads)
             /\ vx' = 0 /\ vy' = 0 /\ idle' = 0

\* IsInactive, evaluated by RemoveInactiveDogs right after the move.
IsInactive(dx, dy, time) == dx = 0 /\ dy = 0 /\ time >= RetirementTime

Tick(dt) ==
  /\ on
  /\ Stand(dt) \/ Run(dt)
  /\ on' = ~IsInactive(vx', vy', idle')
  /\ still' = IF x' = x /\ y' = y THEN Grow(still, Greater(dt, 0)) ELSE 0

\* MoveDog: one of the four directions, or a stop.
Directions == {<<0, -1>>, <<0, 1>>, <<1, 0>>, <<-1, 0>>, <<0, 0>>}

MoveDogKeepingOtherAxis(dir) ==
  /\ on
  /\ vx' = (IF dir[1] # 0 THEN dir[1] ELSE vx)
  /\ vy' = (IF dir[2] # 0 THEN dir[2] ELSE vy)
  /\ UNCHANGED <<x, y, idle, on, still>>
MoveDog(dir) ==
  /\ on
  /\ vx' = dir[1] /\ vy' = dir[2]
  /\ UNCHANGED <<x, y, idle, on, still>>

Spawn(p) == x = Unit * p[1] /\ y = Unit * p[2]

MInit ==
  /\ \E p \in Spawns : Spawn(p)
  /\ vx = 0 /\ vy = 0 /\ idle = 0 /\ on = TRUE /\ still = 0

MNext ==
  \/ \E dt \in Deltas : Tick(dt)
  \/ \E dir \in Directions : MoveDog(dir)

MSpec == MInit /\ [][MNext]_mVars

----------------------------------------------------------------------------
(* Properties *)

MTypeOK ==
  /\ x \in Int /\ y \in Int
  /\ <<vx, vy>> \in Directions
  /\ idle \in -MaxDebt .. RetirementTime /\ still \in 0 .. RetirementTime
  /\ on \in BOOLEAN

OnRoad == IsPositionValid(x, y, Roads)

\* point_to_road_segments_.at(current_point) finds the dog's cell: it never
\* throws, which would end this Tick for every session, and every later one.
CellKnown == RoadsAt(<<Round(x), Round(y)>>) # {}

\* The steps along its direction a tick may take a dog: forward with the time as
\* far as its speed goes, and EPSILON back.
Way(dt) == IF dt >= 0 THEN -Epsilon .. Speed * dt ELSE Speed * dt .. Epsilon

\* A tick moves a dog that is on a road along its direction only and no farther
\* than its speed takes it, the wall stop included.  It never pushes the dog back,
\* but for the EPSILON that IsPositionValid lets a dog run over the border and the
\* wall stop, which knows no EPSILON, takes back.  A negative delta turns the way.
ForwardFromRoad ==
  [][\A dt \in Deltas :
       Tick(dt) /\ OnRoad /\ ~Standing =>
         \E step \in Way(dt) : x' = x + vx * step /\ y' = y + vy * step]_mVars

\* A dog stays within reach of the road it left: at most the distance at which
\* std::round still finds the road's cell.
NearRoad ==
  \E r \in Roads :
    LET s == Segment(r)
        slack == Half - HalfWidth
    IN /\ s.left - slack <= x /\ x <= s.right + slack
       /\ s.low - slack <= y /\ y <= s.high + slack

\* "Find the largest move among all roads that pass through the current point"
\* (GetWallStopAndSetPosition): the dog ends on one of these roads.
StaysOnRoad == OnRoad

\* A dog is removed as inactive only when it has not moved for the retirement
\* time, as the name time_since_last_move_ says.
RetiredAfterStanding == ~on => still >= RetirementTime
=============================================================================
