--------------------------- MODULE MCDaemonConfig ---------------------------
(***************************************************************************)
(* DaemonConfig for TLC.                                                   *)
(***************************************************************************)
EXTENDS DaemonConfig, TLC

\* Daemons are interchangeable.
Symmetric == Permutations(Daemons)
=============================================================================
