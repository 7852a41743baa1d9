---------------------------- MODULE MCHostSetup -----------------------------
(***************************************************************************)
(* SetupReports for TLC: homes without configuration, with hooks of the    *)
(* user's, one of which mentions Gommage, and with an older hook of        *)
(* Gommage's.                                                              *)
(***************************************************************************)
EXTENDS SetupReports

OwnGroup == [mine |-> TRUE, gommage |-> FALSE, tools |-> {}]
Mixed == [mine |-> TRUE, gommage |-> TRUE, tools |-> {}]
OldHook == [mine |-> FALSE, gommage |-> TRUE, tools |-> {CHOOSE t \in Tools : TRUE}]

Homes ==
  {[settings |-> Absent, hooks |-> Absent, config |-> Absent],
   [settings |-> [groups |-> {OldHook}, allow |-> {}],
    hooks |-> [nested |-> {OldHook}, top |-> None],
    config |-> [hooks |-> None, legacy |-> TRUE]],
   [settings |-> [groups |-> {OwnGroup, Mixed}, allow |-> None],
    hooks |-> [nested |-> None, top |-> {OwnGroup}],
    config |-> [hooks |-> None, legacy |-> TRUE]]}

\* As it comes, with the service; and with none of that.
Quickstarts ==
  {[replace |-> FALSE, import |-> TRUE, daemon |-> TRUE, selfTest |-> TRUE],
   [replace |-> TRUE, import |-> FALSE, daemon |-> FALSE, selfTest |-> FALSE]}

\* agent uninstall of one, `uninstall --all` with --purge-backups, the binaries
\* with one agent, and alone.
Uninstalls == {{"codex"}, Targets, {"claude", "binaries"}, {"binaries"}}
=============================================================================
