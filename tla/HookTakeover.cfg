\* One hook, a daemon in service and a second one started; nothing fails.
CONSTANTS
  h1 = h1
  g1 = g1
  Callers = {h1, g1}
  GW = g1
  Codex = {}
  Daemons = {d1, d2}
  CallsOf <- MCCalls
  Lines <- NoLines
  MaxUses = 1
  Attempts = 2
  MaxStarts = 2
  MaxHups = 1
  MaxFaults = 0
  None = None
SPECIFICATION GSpec
INVARIANTS LiveDaemonKeepsPath
CHECK_DEADLOCK FALSE
