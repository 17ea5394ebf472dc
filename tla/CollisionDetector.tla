-------------------------- MODULE CollisionDetector --------------------------
(***************************************************************************)
(* collision_detector.cpp: which items a gatherer passes on the straight   *)
(* line of one tick, and in which order.  Coordinates are integers; the    *)
(* quotients of the code are multiplied out, so that nothing is rounded.   *)
(***************************************************************************)
EXTENDS Integers, FiniteSets, SequencesExt

Square(n) == n * n

\* TryCollectPoint on the way from a to b past c: u from a to c, v from a to b.
TryCollectPoint(a, b, c) ==
  LET u == <<c[1] - a[1], c[2] - a[2]>>
      v == <<b[1] - a[1], b[2] - a[2]>>
  IN [dot |-> u[1] * v[1] + u[2] * v[2],
      u2  |-> Square(u[1]) + Square(u[2]),
      v2  |-> Square(v[1]) + Square(v[2])]

\* The foot of the perpendicular is on the way (proj_ratio in [0, 1]) and within
\* the radius.
IsCollectedBefore(result, radius) ==
  /\ 0 <= result.dot /\ result.dot < result.v2
  /\ result.u2 * result.v2 - Square(result.dot) <= Square(radius) * result.v2
IsCollected(result, radius) ==
  /\ 0 <= result.dot /\ result.dot <= result.v2
  /\ result.u2 * result.v2 - Square(result.dot) <= Square(radius) * result.v2

\* Gatherers [start, end, width] and items [position, width], by their ids; an
\* event is a gatherer and an item.
Events(gatherers, items) ==
  {e \in (DOMAIN gatherers) \X (DOMAIN items) :
     LET g == gatherers[e[1]]
         i == items[e[2]]
     IN /\ g.start # g.end
        /\ IsCollected(TryCollectPoint(g.start, g.end, i.position), g.width + i.width)}

\* FindGatherEvents sorts by time (dot / v2); std::sort leaves the order of equal
\* times open.
FindGatherEventsUnsorted(gatherers, items) == SetToSeqs(Events(gatherers, items))
FindGatherEvents(gatherers, items) ==
  LET Result(e) == TryCollectPoint(gatherers[e[1]].start, gatherers[e[1]].end,
                                   items[e[2]].position)
      NotLater(e, f) ==
        Result(e).dot * Result(f).v2 <= Result(f).dot * Result(e).v2
  IN {events \in SetToSeqs(Events(gatherers, items)) : IsSorted(events, NotLater)}
==============================================================================
