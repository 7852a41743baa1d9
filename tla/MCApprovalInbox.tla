-------------------------- MODULE MCApprovalInbox --------------------------
(***************************************************************************)
(* ApprovalInbox for TLC: actors of one kind are interchangeable.          *)
(***************************************************************************)
EXTENDS ApprovalInbox, TLC

Symmetric == Permutations(Requesters) \union Permutations(Operators)
=============================================================================
