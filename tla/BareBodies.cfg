\* A message with a quoted substitution, in the body of a heredoc.
CONSTANTS
  None = None
  Basename <- MCBasename
  Assignments = {"X=1"}
  Flags = {"-u", "-c", "-s", "-rf"}
  Numbers = {"2"}
  BackupSuffixes = {".bak"}
  Consumers = {"cat"}
  Executors = {"bash"}
  Files <- MCFiles
  ShellAliases = {"shell"}
  MaxCandidateDepth = 1
  Internal <- MCInternal
  Absolute = {"/etc", "/repo", "/home", "/dev/sda"}
  Home <- MCHome
  Cwd <- MCCwd
  BranchOf <- MCBranchOf
  MaxPatchPaths = 2
  MaxGitContexts = 2
  Simple <- MessageOnly
  Added <- MCAdded
  Wrappers <- MCWrappers
  Tails <- MCTails
  PatchPaths <- MCPatchPaths
  RecursiveFlags = {"-rf"}
  ForceFlags = {"-rf"}
  Devices = {"/dev/sda"}
  MaxSteps = 1
SPECIFICATION Spec
INVARIANTS BareBodiesStayVisible
CHECK_DEADLOCK FALSE
