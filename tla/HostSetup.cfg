\* Two tools, two commands, one edit, one command cut short.
CONSTANTS
  Tools = {bash, edit}
  InitialFiles <- Homes
  Options <- Quickstarts
  Selections <- Uninstalls
  MaxCommands = 2
  MaxEdits = 1
  MaxFaults = 1
  Absent = Absent
  Blank = Blank
  Broken = Broken
  None = None
SPECIFICATION RSpec
INVARIANTS OthersKept NoDanglingHook RollbackIsExact ReportsAgree
CHECK_DEADLOCK FALSE
