\* Every text of a command and up to two compositions of it.
CONSTANTS
  None = None
  Basename <- MCBasename
  Assignments = {"X=1"}
  Flags = {"-u", "-c", "-s", "-rf"}
  Numbers = {"2"}
  BackupSuffixes = {".bak"}
  Consumers = {"cat"}
  Executors = {"bash"}
  Files <- MCFiles
  ShellAliases = {"shell"}
  MaxCandidateDepth = 1
  Internal <- MCInternal
  Absolute = {"/etc", "/repo", "/home", "/dev/sda"}
  Home <- MCHome
  Cwd <- MCCwd
  BranchOf <- MCBranchOf
  MaxPatchPaths = 2
  MaxGitContexts = 2
  Simple <- MCSimple
  Added <- MCAdded
  Wrappers <- MCWrappers
  Tails <- MCTails
  PatchPaths <- MCPatchPaths
  RecursiveFlags = {"-rf"}
  ForceFlags = {"-rf"}
  Devices = {"/dev/sda"}
  MaxSteps = 2
SPECIFICATION Spec
INVARIANTS CapabilitiesSurvive DataIsInert HardStopsSurvive PatchIsVisible WritesHaveContext
CHECK_DEADLOCK FALSE
