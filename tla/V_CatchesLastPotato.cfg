SPECIFICATION Spec
CONSTANTS
  PlayerCounts = {3}
  HopCounts = {1}
  MaxNumHops = 3
  MaxDeaths = 0
  Instant = TRUE
INVARIANT CatchesLastPotato
