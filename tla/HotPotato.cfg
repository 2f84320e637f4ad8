SPECIFICATION Spec
CONSTANTS
  PlayerCounts = {2, 3}
  HopCounts = {0, 1, 3}
  MaxNumHops = 3
  MaxDeaths = 1
  Instant = FALSE
INVARIANTS TypeOK RingWired OnePotato HopsCounted NeverToTheDeparted
PROPERTIES ConnectsToListener ImplementsGame EveryoneExits
