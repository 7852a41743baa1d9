\* Two requests and all three senders; two appends fail or two senders are
\* killed, or one of each.
CONSTANTS
  Requests = {r1, r2}
  Daemon = Daemon
  Fallback = Fallback
  Cli = Cli
  Attempts = 2
  MaxFaults = 2
  None = None
SYMMETRY Symmetric
SPECIFICATION Spec
INVARIANTS OutageKeepsAsk NothingIsLost DeadLettersReadBack
CHECK_DEADLOCK FALSE
