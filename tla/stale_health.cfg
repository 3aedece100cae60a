SPECIFICATION Spec
CONSTANTS
  Checkers = {routine, h1}
  Routine = routine
  Clients = {a1}
  MaxOpen = 1
  MaxAttempts = 2
INVARIANT HealthyWasUp
