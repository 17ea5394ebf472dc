SPECIFICATION PSpec
CONSTANTS
  Maps = {m1}
  MaxDogs = 2
  BagCapacity = 1
  RetirementTime = 1
  Deltas = {1}
  MaxDebt = 0
  InsertOutcomes = {TRUE}
  MaxJoins = 2
  MaxLoot = 2
  MaxBoots = 1
  None = None
  SavePeriod = 1
  SaveOutcomes = {"saved", "kept", "truncated"}
  Truncated = Truncated
  MayCrash = TRUE
PROPERTY CompleteFileKept
CHECK_DEADLOCK FALSE
