SPECIFICATION GSpec
CONSTANTS
  o1 = o1
  o2 = o2
  Roads <- MCRoads
  Spawns <- MCSpawns
  Objects <- MCObjects
  ObjectPlace <- MCPlaces
  Offices <- MCOffices
  Capacity = 1
  Tenth = 3
  Epsilon = 1
  Speed = 13
  Deltas = {1, 4}
  RetirementTime = 2
  MaxDebt = 1
CHECK_DEADLOCK FALSE
INVARIANT RetiredAfterStanding
