SPECIFICATION LiveSpec
CONSTANTS
  Maps = {m1}
  MaxDogs = 2
  BagCapacity = 1
  RetirementTime = 1
  Deltas <- MCDeltas
  MaxDebt = 1
  InsertOutcomes = {TRUE, FALSE}
  MaxJoins = 3
  MaxLoot = 3
  MaxBoots = 0
  None = None
INVARIANTS TypeOK TokenRegistry SessionRegistry ClientsSeeTheirSession CapacityHeld ObjectOnce RecordOnce LootBounded
PROPERTIES OnlyIdleLeave ImplementsRooms IdleLeaves TickReturns
