------------------------------ MODULE Gathering ------------------------------
(***************************************************************************)
(* A dog that gathers: DogMovement with the lost objects and offices of    *)
(* the map and GameSession::HandleCollisions, which takes what a dog has   *)
(* passed since its previous position from FindGatherEvents.               *)
(*                                                                         *)
(* Several dogs at one object are in Application, where a moving dog may   *)
(* pass anything; here the geometry of one dog decides.  New objects and   *)
(* the values behind a score are left out.                                 *)
(***************************************************************************)
EXTENDS DogMovement, CollisionDetector

CONSTANTS
  Objects,      \* lost objects
  ObjectPlace,  \* the position of each, in units
  Offices,      \* offices: integer points
  Capacity      \* of the bag

ASSUME GatheringAssumption ==
  /\ ObjectPlace \in [Objects -> Int \X Int] /\ Offices \subseteq Int \X Int
  /\ Objects \cap Offices = {}
  /\ IsFiniteSet(Objects) /\ IsFiniteSet(Offices)
  /\ Capacity \in Nat

VARIABLES lost, bag, score   \* objects on the map, in the bag, handed in

gVars == <<mVars, lost, bag, score>>

DogWidth == 3 * Tenth      \* 0.3
OfficeWidth == 5 * Tenth   \* 0.5

----------------------------------------------------------------------------
(* ItemGathererProviderImpl *)

Items ==
  [i \in lost \cup Offices |->
     IF i \in Offices
     THEN [position |-> <<Unit * i[1], Unit * i[2]>>, width |-> OfficeWidth]
     ELSE [position |-> ObjectPlace[i], width |-> 0]]

Gatherers ==
  [g \in {"dog"} |-> [start |-> <<x, y>>, end |-> <<x', y'>>, width |-> DogWidth]]

----------------------------------------------------------------------------
(* HandleCollisions *)

\* A full bag leaves the object; an office empties the bag into the score.
Meet(had, item) ==
  IF item \in Offices THEN [bag |-> {}, score |-> had.score \cup had.bag]
  ELSE IF Cardinality(had.bag) < Capacity
  THEN [had EXCEPT !.bag = @ \cup {item}]
  ELSE had

\* What the dog has after all the events, one after the other.
Gathered(events) ==
  LET has[n \in 0 .. Len(events)] ==
        IF n = 0 THEN [bag |-> bag, score |-> score]
        ELSE Meet(has[n - 1], events[n][2])
  IN has[Len(events)]

HandleCollisions ==
  \E events \in FindGatherEvents(Gatherers, Items) :
    /\ bag' = Gathered(events).bag /\ score' = Gathered(events).score
    /\ lost' = lost \ (bag' \cup score')

\* A dog that this tick retires is gone before the collisions.
GatheringTick(dt) ==
  /\ Tick(dt)
  /\ IF on' THEN HandleCollisions ELSE UNCHANGED <<lost, bag, score>>

GInit == MInit /\ lost = Objects /\ bag = {} /\ score = {}

GNext ==
  \/ \E dt \in Deltas : GatheringTick(dt)
  \/ \E dir \in Directions : MoveDog(dir) /\ UNCHANGED <<lost, bag, score>>

GSpec == GInit /\ [][GNext]_gVars

----------------------------------------------------------------------------
(* Properties *)

\* How far along its way a dog is when it passes a point, and whether it comes
\* within a distance of it, for the straight ways that dogs run.
Along(c) == IF y' = y THEN Distance(c[1], x) ELSE Distance(c[2], y)
Between(a, b, c) == Lesser(a, b) <= c /\ c <= Greater(a, b)
Passes(c, distance) ==
  \/ x' # x /\ Between(x, x', c[1]) /\ Distance(c[2], y) <= distance
  \/ y' # y /\ Between(y, y', c[2]) /\ Distance(c[1], x) <= distance
PassesObject(o) == Passes(ObjectPlace[o], DogWidth)
OfficesPassed ==
  {c \in {<<Unit * f[1], Unit * f[2]>> : f \in Offices} :
     Passes(c, DogWidth + OfficeWidth)}

\* A dog takes what its way of this tick passes, and nothing else, however the way
\* is cut into ticks; it leaves an object only if its bag was full on the way, and
\* never carries more than the bag holds.
TakenUnlessFull ==
  [][/\ Cardinality(bag') <= Capacity
     /\ \A o \in lost :
          /\ o \notin lost' => PassesObject(o)
          /\ on' /\ PassesObject(o) /\ o \in lost' =>
               Cardinality(bag \cup (lost \ lost')) >= Capacity]_gVars

\* Objects and offices count in the order of the way: an office hands in what was
\* in the bag when the dog came to it, the rest stays in the bag.
HandedInOnTheWay ==
  [][on' =>
       /\ \A o \in score' \ score :
            \E f \in OfficesPassed : o \in bag \/ Along(ObjectPlace[o]) <= Along(f)
       /\ \A o \in bag', f \in OfficesPassed :
            o \notin bag /\ Along(f) <= Along(ObjectPlace[o])]_gVars
==============================================================================
