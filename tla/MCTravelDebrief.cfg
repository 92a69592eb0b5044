SPECIFICATION MCSpec
CONSTANTS
  Reports = {r1}
  Edits = {e1, e2}
  Crons = {k1, k2}
  MaxDebriefs = 2
  LastDay = 3
  Plans <- Trips
  Faults = TRUE
SYMMETRY Symmetry
INVARIANTS TypeOK
PROPERTIES SecondDebriefOnlyBy BoardFollowsAnswer ListedTripsAreOver
