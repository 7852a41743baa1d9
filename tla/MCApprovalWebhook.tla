-------------------------- MODULE MCApprovalWebhook --------------------------
(***************************************************************************)
(* ApprovalWebhook for TLC: requests may be permuted.                      *)
(***************************************************************************)
EXTENDS ApprovalWebhook, TLC

Symmetric == Permutations(Requests)
=============================================================================
