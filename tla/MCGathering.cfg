SPECIFICATION GSpec
CONSTANTS
  o1 = o1
  o2 = o2
  Roads <- MCRoads
  Spawns <- MCSpawns
  Objects <- MCObjects
  ObjectPlace <- MCPlaces
  Offices <- MCOffices
  Capacity = 1
  Tenth = 3
  Epsilon = 1
  Speed = 13
  Deltas <- MCDeltas
  RetirementTime = 1
  MaxDebt = 1
INVARIANTS MTypeOK CellKnown NearRoad
PROPERTIES ForwardFromRoad TakenUnlessFull HandedInOnTheWay
CHECK_DEADLOCK FALSE
