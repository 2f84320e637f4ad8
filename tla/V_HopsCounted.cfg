SPECIFICATION Spec
CONSTANTS
  PlayerCounts = {2}
  HopCounts = {4}
  MaxNumHops = 3
  MaxDeaths = 0
  Instant = TRUE
INVARIANT HopsCounted
