\* Every policy of two small files, broken or not, every set of capabilities, bypass or not.
CONSTANTS
  push = push
  read = read
  wipe = wipe
  main = main
  BadGlob = BadGlob
  None = None
  Caps <- MCCaps
  HardStops = {wipe}
  Scopes = {main}
  Policies <- TwoFiles
SPECIFICATION Spec
INVARIANTS HardStopsAlwaysDeny FirstMatchWins LoadIsAllOrNothing
CHECK_DEADLOCK FALSE
