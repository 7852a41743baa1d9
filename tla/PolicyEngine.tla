---------------------------- MODULE PolicyEngine ----------------------------
(***************************************************************************)
(* From policy files and capabilities to a decision: policy.rs (layers,    *)
(* validation, match clauses), hardstop.rs and evaluator.rs.  The loops    *)
(* are stepped through; what they should compute is stated at the end      *)
(* without loops.                                                          *)
(*                                                                         *)
(* A glob is the set of capabilities it matches, or no glob at all.  A     *)
(* hard stop is a set of capabilities too, whether a pattern or the shell  *)
(* scanner finds it.                                                       *)
(***************************************************************************)
EXTENDS Integers, Sequences, FiniteSets

CONSTANTS
  Caps,       \* capabilities
  HardStops,  \* those the compiled-in hard stops hit
  Scopes,
  Policies,   \* layered files: sequences of sequences of raw rules
  BadGlob,    \* a pattern Glob::new refuses
  None

Globs == SUBSET Caps \union {BadGlob}
Decisions == {"allow", "gommage", "ask_picto"}

\* RawRule and RawMatch; a missing list is empty, a missing scope None.
RawRule == [decision : Decisions, hard : BOOLEAN, scope : Scopes \union {None},
            bind : BOOLEAN, any : SUBSET Globs, all : SUBSET Globs, none : SUBSET Globs]

ASSUME EngineAssumption ==
  /\ HardStops \subseteq Caps /\ None \notin Scopes
  /\ Policies \subseteq Seq(Seq(RawRule))

VARIABLES
  policy,   \* the files, highest precedence first
  broken,   \* those that cannot be read, or are not a YAML list of rules
  caps,     \* what the mapper derived from the call
  bypass,   \* GOMMAGE_BYPASS: evaluate_bypass instead of evaluate
  pc,
  at,       \* <<file, rule>> the loops stand at
  rules,    \* compiled: raw rules with their <<file, rule>>
  result    \* [decision, hard, scope, bind, rule], or None

vars == <<policy, broken, caps, bypass, pc, at, rules, result>>

Init ==
  /\ policy \in Policies /\ broken \in SUBSET DOMAIN policy
  /\ caps \in SUBSET Caps
  /\ bypass \in BOOLEAN
  /\ pc = IF bypass THEN "hardstop" ELSE "load"
  /\ at = <<1, 1>>
  /\ rules = <<>>
  /\ result = None

---------------------------------------------------------------------------
(* load_policy_files: every file of every layer, every rule of every file *)

\* compile_rule's three checks, and compile_globs.
Consistent(r) ==
  /\ r.decision = "ask_picto" => r.scope # None
  /\ r.hard => r.decision = "gommage"
  /\ r.bind => r.decision = "ask_picto"
  /\ BadGlob \notin r.any \union r.all \union r.none

\* Faulty variant: a later file goes in front.
AddRuleInFront(r) == rules' = <<[raw |-> r, source |-> at]>> \o rules

AddRule(r) == rules' = Append(rules, [raw |-> r, source |-> at])

\* A file is read and parsed before its first rule is compiled.
ParseFails ==
  /\ pc = "load"
  /\ at[1] \in broken
  /\ pc' = "error"
  /\ UNCHANGED <<policy, broken, caps, bypass, at, rules, result>>

\* Faulty variant: an inconsistent rule is left out of the policy.
CompileRuleOrSkip ==
  /\ pc = "load"
  /\ at[1] <= Len(policy) /\ at[1] \notin broken
  /\ at[2] <= Len(policy[at[1]])
  /\ LET r == policy[at[1]][at[2]] IN
       /\ \/ Consistent(r) /\ AddRule(r)
          \/ ~Consistent(r) /\ UNCHANGED rules
       /\ at' = <<at[1], at[2] + 1>>
  /\ UNCHANGED <<policy, broken, caps, bypass, pc, result>>

\* One inconsistent rule fails the whole load.
CompileRule ==
  /\ pc = "load"
  /\ at[1] <= Len(policy) /\ at[1] \notin broken
  /\ at[2] <= Len(policy[at[1]])
  /\ LET r == policy[at[1]][at[2]] IN
       \/ Consistent(r) /\ AddRule(r) /\ at' = <<at[1], at[2] + 1>> /\ UNCHANGED pc
       \/ ~Consistent(r) /\ pc' = "error" /\ UNCHANGED <<rules, at>>
  /\ UNCHANGED <<policy, broken, caps, bypass, result>>

NextFile ==
  /\ pc = "load"
  /\ at[1] <= Len(policy) /\ at[1] \notin broken
  /\ at[2] > Len(policy[at[1]])
  /\ at' = <<at[1] + 1, 1>>
  /\ UNCHANGED <<policy, broken, caps, bypass, pc, rules, result>>

Loaded ==
  /\ pc = "load"
  /\ at[1] > Len(policy)
  /\ pc' = "hardstop"
  /\ at' = <<1, 1>>
  /\ UNCHANGED <<policy, broken, caps, bypass, rules, result>>

---------------------------------------------------------------------------
(* evaluate and evaluate_bypass *)

Verdict(decision, hard, scope, bind, rule) ==
  [decision |-> decision, hard |-> hard, scope |-> scope, bind |-> bind, rule |-> rule]

Denied(hard, rule) == Verdict("gommage", hard, None, FALSE, rule)

Decide(verdict) == result' = verdict /\ pc' = "done"

\* hardstop::check: a pattern or the shell scanner recognises a capability.
HitsHardStop(cs) == cs \intersect HardStops # {}

\* Faulty variant: a bypassed evaluation skips the hard stops as well.
CheckHardStopsUnlessBypass ==
  /\ pc = "hardstop"
  /\ \/ HitsHardStop(caps) /\ ~bypass /\ Decide(Denied(TRUE, "compiled-in"))
     \/ bypass /\ Decide(Verdict("allow", FALSE, None, FALSE, None))
     \/ /\ ~HitsHardStop(caps) /\ ~bypass
        /\ pc' = "rules" /\ UNCHANGED result
  /\ UNCHANGED <<policy, broken, caps, bypass, at, rules>>

\* Always first, in both.
CheckHardStops ==
  /\ pc = "hardstop"
  /\ \/ HitsHardStop(caps) /\ Decide(Denied(TRUE, "compiled-in"))
     \/ /\ ~HitsHardStop(caps) /\ bypass
        /\ Decide(Verdict("allow", FALSE, None, FALSE, None))
     \/ /\ ~HitsHardStop(caps) /\ ~bypass
        /\ pc' = "rules" /\ UNCHANGED result
  /\ UNCHANGED <<policy, broken, caps, bypass, at, rules>>

Hits(glob, cs) == glob \intersect cs # {}

\* Match::matches.
Matches(r, cs) ==
  /\ r.any = {} \/ \E g \in r.any : Hits(g, cs)
  /\ \A g \in r.all : Hits(g, cs)
  /\ \A g \in r.none : ~Hits(g, cs)

\* decision_from_rule.
VerdictOf(rule) ==
  LET r == rule.raw IN
  IF r.decision = "allow" THEN Verdict("allow", FALSE, None, FALSE, rule.source)
  ELSE IF r.decision = "gommage" THEN Denied(r.hard, rule.source)
  ELSE Verdict("ask_picto", FALSE, r.scope, r.bind, rule.source)

\* The rules in order; the first that matches decides.
TryRule ==
  /\ pc = "rules"
  /\ at[2] <= Len(rules)
  /\ LET rule == rules[at[2]] IN
       \/ Matches(rule.raw, caps) /\ Decide(VerdictOf(rule)) /\ UNCHANGED at
       \/ /\ ~Matches(rule.raw, caps)
          /\ at' = <<1, at[2] + 1>>
          /\ UNCHANGED <<pc, result>>
  /\ UNCHANGED <<policy, broken, caps, bypass, rules>>

FailClosed ==
  /\ pc = "rules"
  /\ at[2] > Len(rules)
  /\ Decide(Denied(FALSE, None))
  /\ UNCHANGED <<policy, broken, caps, bypass, at, rules>>

Next ==
  \/ ParseFails \/ CompileRule \/ NextFile \/ Loaded
  \/ CheckHardStops \/ TryRule \/ FailClosed

Spec == Init /\ [][Next]_vars

---------------------------------------------------------------------------
(* Properties *)

Positions(p) == UNION {{i} \X DOMAIN p[i] : i \in DOMAIN p}
Before(x, y) == x[1] < y[1] \/ (x[1] = y[1] /\ x[2] < y[2])
RuleAt(p, x) == p[x[1]][x[2]]

\* Every variable keeps its shape; in particular no ask_picto verdict is
\* without a scope, where decision_from_rule would panic.
TypeOK ==
  /\ policy \in Policies /\ broken \subseteq DOMAIN policy /\ caps \subseteq Caps /\ bypass \in BOOLEAN
  /\ pc \in {"load", "error", "hardstop", "rules", "done"}
  /\ at[1] \in Nat \ {0} /\ at[2] \in Nat \ {0}
  /\ \A i \in DOMAIN rules : rules[i].raw \in RawRule
  /\ result # None =>
       /\ result.decision = "ask_picto" => result.scope \in Scopes
       /\ result.hard => result.decision = "gommage"

\* Whatever the files say and whether or not they are consulted, a call that
\* hits a hard stop is denied as one, and nothing else lifts that.
HardStopsAlwaysDeny ==
  pc = "done" /\ caps \intersect HardStops # {} =>
    result = Denied(TRUE, "compiled-in")

\* "Earlier layers have higher precedence because evaluation is first-match-wins":
\* the rule that decides matches, no rule before it in the files does, and if no
\* rule decides none matches.
FirstMatchWins ==
  pc = "done" /\ ~bypass /\ caps \intersect HardStops = {} =>
    LET matching == {x \in Positions(policy) : Matches(RuleAt(policy, x), caps)} IN
      IF matching = {}
        THEN result = Denied(FALSE, None)
        ELSE \E x \in matching :
               /\ \A y \in matching \ {x} : Before(x, y)
               /\ result = VerdictOf([raw |-> RuleAt(policy, x), source |-> x])

\* Loading stops at the first file that does not parse or rule that does not
\* compile, and only there: a policy that loads has none, one that does not has one.
LoadIsAllOrNothing ==
  LET bad == broken # {} \/ \E x \in Positions(policy) : ~Consistent(RuleAt(policy, x)) IN
    /\ pc = "error" => bad
    /\ pc \in {"hardstop", "rules", "done"} /\ ~bypass => ~bad
=============================================================================
