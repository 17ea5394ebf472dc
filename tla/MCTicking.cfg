SPECIFICATION LLiveSpec
CONSTANTS
  Sessions = {s1, s2}
  Unit = 2
  Period = 1
  Late = 2
  Stay = 2
  Odds = 3
  MaxDogs = 2
  MaxLoot = 3
  Enough = 4
PROPERTIES TickTimeIsReal LootWithinLooters LootComes
