SPECIFICATION FairSpec
CONSTANTS
  Checkers = {routine, h1}
  Routine = routine
  Clients = {a1}
  MaxOpen = 1
  MaxAttempts = 2
INVARIANTS TypeOK RequestsSeeOpenPool LoneCheckTruthful
PROPERTIES HealthSettles StartDecided StopEnds
