---------------------------- MODULE MCPictoStore ----------------------------
(***************************************************************************)
(* PictoStore for TLC: which grants and calls exist, and the symmetries.   *)
(***************************************************************************)
EXTENDS PictoStore, TLC

\* Pictos and processes are interchangeable: nothing orders them.
Symmetric == Permutations(Ids) \union Permutations(Deciders)
=============================================================================
