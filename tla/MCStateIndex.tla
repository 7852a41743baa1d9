---------------------------- MODULE MCStateIndex ----------------------------
(***************************************************************************)
(* StateIndex for TLC.                                                     *)
(***************************************************************************)
EXTENDS StateIndex, TLC

\* A hard stop, an event that is counted, an allowed bypass of a hard stop.
MCKindOf == <<"hard_stop", "picto_consumed", "hard_stop_bypassed">>

\* Writers are interchangeable.
Symmetric == Permutations(Writers)
=============================================================================
