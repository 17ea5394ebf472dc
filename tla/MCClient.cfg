SPECIFICATION CLiveSpec
CONSTANTS
  Players = {me, other}
  Me = me
  Loot = {o1}
  StateSlots = {1, 2}
  ListSlots = {1}
  Copies = {0, 1, 2, 3}
  None = None
INVARIANTS CTypeOK ShowsOneMoment NeverUndefined NoOrphans NothingInvisible
PROPERTY Converges
CHECK_DEADLOCK FALSE
