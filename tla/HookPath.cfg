\* One hook and a gateway with four lines; a daemon that may come, be signalled,
\* go, be killed and be replaced by a second; one grant of one use.
CONSTANTS
  h1 = h1
  g1 = g1
  Callers = {h1, g1}
  GW = g1
  Codex = {h1}
  Daemons = {d1, d2}
  CallsOf <- MCCalls
  Lines <- MCLines
  MaxUses = 1
  Attempts = 2
  MaxStarts = 2
  MaxHups = 1
  MaxFaults = 1
  None = None
SPECIFICATION GFairSpec
INVARIANTS AllowIsLogged DecidedOnce RefusedStaysBehind
PROPERTIES HookAnswers
CHECK_DEADLOCK FALSE
