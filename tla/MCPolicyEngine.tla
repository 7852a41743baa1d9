--------------------------- MODULE MCPolicyEngine ---------------------------
(***************************************************************************)
(* PolicyEngine for TLC: a choice of rules, and the policies of two files  *)
(* made from them.                                                         *)
(***************************************************************************)
EXTENDS PolicyEngine, SequencesExt

CONSTANTS push, read, wipe, main

\* One rule per kind of match clause, of decision and of inconsistency.
R(decision, hard, scope, bind, any, all, none) ==
  [decision |-> decision, hard |-> hard, scope |-> scope, bind |-> bind,
   any |-> any, all |-> all, none |-> none]

Rules == {
  R("allow", FALSE, None, FALSE, {{push, read, wipe}}, {}, {}),   \* catch-all
  R("allow", FALSE, None, FALSE, {}, {}, {{push}}),               \* none only
  R("allow", FALSE, None, FALSE, {{read}}, {}, {{push}}),
  R("gommage", FALSE, None, FALSE, {{push}, {read}}, {}, {}),
  R("gommage", TRUE, None, FALSE, {}, {{push}, {read}}, {}),
  R("ask_picto", FALSE, main, FALSE, {{push}}, {}, {}),
  R("ask_picto", FALSE, main, TRUE, {}, {{push}}, {{read}}),
  R("ask_picto", FALSE, None, FALSE, {{push}}, {}, {}),           \* no scope
  R("allow", TRUE, None, FALSE, {{read}}, {}, {}),                \* hard allow
  R("allow", FALSE, None, TRUE, {{read}}, {}, {}),                \* bound allow
  R("gommage", FALSE, None, FALSE, {}, {}, {BadGlob, {push}})}    \* no glob

\* Two files, of up to two rules and of up to one.
TwoFiles == {<<f, g>> : f \in SeqOf(Rules, 2), g \in SeqOf(Rules, 1)}
MCCaps == {push, read, wipe}
=============================================================================
