------------------------- MODULE PolicyEngineProofs -------------------------
(***************************************************************************)
(* PolicyEngine for every set of capabilities, hard stops and policies.    *)
(***************************************************************************)
EXTENDS PolicyEngine, TLAPS

\* What the loops keep: compiled rules passed compile_rule, and the rules are
\* reached only by a call that hits no hard stop and does not bypass them.
Compiled == [raw : {r \in RawRule : Consistent(r)}, source : Nat \X Nat]

LoopInv ==
  /\ at \in Nat \X Nat
  /\ rules \in Seq(Compiled)
  /\ pc = "rules" => caps \intersect HardStops = {} /\ ~bypass

IInv == TypeOK /\ LoopInv /\ HardStopsAlwaysDeny

\* What TypeOK asks of a result.
Sound(verdict) ==
  /\ verdict.decision = "ask_picto" => verdict.scope \in Scopes
  /\ verdict.hard => verdict.decision = "gommage"

\* A rule that compiled gives a verdict decision_from_rule can build.
LEMMA RuleVerdict ==
  ASSUME NEW rule \in Compiled PROVE Sound(VerdictOf(rule))
<1>1. rule.raw \in RawRule /\ Consistent(rule.raw)
  BY DEF Compiled
<1>2. rule.raw.decision \in {"allow", "gommage", "ask_picto"}
       /\ rule.raw.hard \in BOOLEAN /\ rule.raw.scope \in Scopes \union {None}
  BY <1>1 DEF RawRule, Decisions
<1>3. CASE rule.raw.decision = "allow"
  BY <1>3 DEF Sound, VerdictOf, Verdict
<1>4. CASE rule.raw.decision = "gommage"
  BY <1>4 DEF Sound, VerdictOf, Verdict, Denied
<1>5. CASE rule.raw.decision = "ask_picto"
  BY <1>1, <1>2, <1>5 DEF Sound, VerdictOf, Verdict, Consistent
<1>6. QED
  BY <1>2, <1>3, <1>4, <1>5

\* A run that has not loaded a policy satisfies the invariant.
LEMMA EngineInit == Init => IInv
<1>1. SUFFICES ASSUME Init PROVE IInv
  OBVIOUS
<1>2. at \in Nat \X Nat /\ rules \in Seq(Compiled) /\ DOMAIN rules = {}
  BY <1>1 DEF Init
<1>3. pc \in {"hardstop", "load"}
  BY <1>1 DEF Init
<1>4. QED
  BY <1>1, <1>2, <1>3 DEF Init, IInv, TypeOK, LoopInv, HardStopsAlwaysDeny

\* Every step of the loops keeps it.
LEMMA EngineStep == IInv /\ [Next]_vars => IInv'
<1> SUFFICES ASSUME IInv, [Next]_vars PROVE IInv'
  OBVIOUS
<1> USE DEF IInv, TypeOK, LoopInv, HardStopsAlwaysDeny
<1>0. at[1] \in Nat \ {0} /\ at[2] \in Nat \ {0} /\ at \in Nat \X Nat
  OBVIOUS
<1>1. CASE CompileRule
  <2> DEFINE r == policy[at[1]][at[2]]
  <2>1. CASE Consistent(r) /\ AddRule(r) /\ at' = <<at[1], at[2] + 1>> /\ UNCHANGED pc
    <3>1. policy \in Seq(Seq(RawRule)) /\ at[1] <= Len(policy) /\ at[2] <= Len(policy[at[1]])
      BY <1>1, EngineAssumption DEF CompileRule
    <3>a. policy[at[1]] \in Seq(RawRule)
      BY <1>0, <3>1
    <3>b. r \in RawRule
      BY <1>0, <3>1, <3>a
    <3>2. [raw |-> r, source |-> at] \in Compiled
      BY <2>1, <3>b DEF Compiled
    <3>3. rules' \in Seq(Compiled)
      BY <2>1, <3>2 DEF AddRule
    <3>4. \A i \in DOMAIN rules' : rules'[i].raw \in RawRule
      <4>1. \A i \in DOMAIN rules' : rules'[i] \in Compiled
        BY <3>3
      <4>2. QED
        BY <4>1 DEF Compiled
    <3>5. QED
      BY <1>0, <1>1, <2>1, <3>3, <3>4 DEF CompileRule
  <2>2. CASE pc' = "error" /\ UNCHANGED <<rules, at>>
    BY <1>1, <2>2 DEF CompileRule
  <2>3. QED
    BY <1>1, <2>1, <2>2 DEF CompileRule
<1>2. CASE NextFile
  BY <1>0, <1>2 DEF NextFile
<1>3. CASE Loaded
  BY <1>3 DEF Loaded
<1>4. CASE CheckHardStops
  BY <1>4 DEF CheckHardStops, HitsHardStop, Decide, Denied, Verdict
<1>5. CASE TryRule
  <2>1. CASE Matches(rules[at[2]].raw, caps) /\ Decide(VerdictOf(rules[at[2]])) /\ UNCHANGED at
    <3>1. rules[at[2]] \in Compiled
      BY <1>0, <1>5 DEF TryRule
    <3>2. pc' = "done" /\ result' = VerdictOf(rules[at[2]])
      BY <2>1 DEF Decide
    <3>3. Sound(result')
      BY <3>1, <3>2, RuleVerdict
    <3>4. QED
      BY <1>5, <2>1, <3>2, <3>3 DEF TryRule, Sound
  <2>2. CASE at' = <<1, at[2] + 1>> /\ UNCHANGED <<pc, result>>
    BY <1>0, <1>5, <2>2 DEF TryRule
  <2>3. QED
    BY <1>5, <2>1, <2>2 DEF TryRule
<1>6. CASE FailClosed
  BY <1>6 DEF FailClosed, Decide, Denied, Verdict
<1>7. CASE ParseFails
  BY <1>7 DEF ParseFails
<1>8. CASE UNCHANGED vars
  BY <1>8 DEF vars
<1>9. QED
  BY <1>1, <1>2, <1>3, <1>4, <1>5, <1>6, <1>7, <1>8 DEF Next

\* The invariant holds throughout.
LEMMA EngineInvariant == Spec => []IInv
  BY EngineInit, EngineStep, PTL DEF Spec

\* decision_from_rule never panics: no ask_picto verdict lacks its scope.
THEOREM EngineTypeCorrect == Spec => []TypeOK
  BY EngineInvariant, PTL DEF IInv

\* No policy, however it is layered, and no bypass lifts a hard stop.
THEOREM HardStopsAreFinal == Spec => []HardStopsAlwaysDeny
  BY EngineInvariant, PTL DEF IInv

---------------------------------------------------------------------------
(* The order of the rules *)

\* A rule of the files that the compiled policy holds.
Covered(x) == \E i \in DOMAIN rules : rules[i].source = x

\* The compiled policy is a prefix of the rules of the files, in their order,
\* and the whole of them once loading has ended, when every file was read; the rules before the one that
\* is tried do not match.
OrderInv ==
  /\ \A i \in DOMAIN rules :
       /\ rules[i].source \in Positions(policy)
       /\ rules[i].raw = RuleAt(policy, rules[i].source)
  /\ \A i, j \in DOMAIN rules : i < j => Before(rules[i].source, rules[j].source)
  /\ pc = "load" =>
       /\ \A i \in DOMAIN rules : Before(rules[i].source, at)
       /\ \A x \in Positions(policy) : Before(x, at) => Covered(x)
  /\ pc = "load" => \A i \in broken : i >= at[1]
  /\ pc \in {"hardstop", "rules", "done"} /\ ~bypass =>
       broken = {} /\ \A x \in Positions(policy) : Covered(x)
  /\ pc = "error" =>
       broken # {} \/ \E x \in Positions(policy) : ~Consistent(RuleAt(policy, x))
  /\ pc = "hardstop" => at[2] = 1
  /\ pc = "rules" => \A i \in DOMAIN rules : i < at[2] => ~Matches(rules[i].raw, caps)

\* The rules of the files, by file and place.
LEMMA PositionsAre ==
  ASSUME NEW p \in Seq(Seq(RawRule))
  PROVE  /\ \A x \in Positions(p) : /\ x = <<x[1], x[2]>>
                                    /\ x[1] \in 1..Len(p) /\ x[2] \in 1..Len(p[x[1]])
         /\ \A i \in 1..Len(p) : \A j \in 1..Len(p[i]) : <<i, j>> \in Positions(p)
<1>1. DOMAIN p = 1..Len(p) /\ \A i \in DOMAIN p : DOMAIN p[i] = 1..Len(p[i])
  OBVIOUS
<1>2. \A x : x \in Positions(p) <=> \E i \in DOMAIN p : x \in {i} \X DOMAIN p[i]
  BY DEF Positions
<1>3. QED
  BY <1>1, <1>2

\* At first nothing is compiled and nothing is before the first rule.
LEMMA OrderInit == Init => OrderInv
<1> SUFFICES ASSUME Init PROVE OrderInv
  OBVIOUS
<1>1. policy \in Seq(Seq(RawRule)) /\ rules = <<>> /\ DOMAIN rules = {}
  BY EngineAssumption DEF Init
<1>2. \A x \in Positions(policy) : ~Before(x, <<1, 1>>)
  BY <1>1, PositionsAre DEF Before
<1>3. QED
  BY <1>1, <1>2 DEF Init, OrderInv

\* The order is kept: of the steps of the loops, compile_rule adds the rule they
\* stand at and the others add none.
LEMMA OrderStep == IInv /\ OrderInv /\ [Next]_vars => OrderInv'
<1> SUFFICES ASSUME IInv, OrderInv, [Next]_vars PROVE OrderInv'
  OBVIOUS
<1>0. /\ policy \in Seq(Seq(RawRule)) /\ at \in Nat \X Nat /\ at = <<at[1], at[2]>>
      /\ at[1] \in Nat \ {0} /\ at[2] \in Nat \ {0}
      /\ rules \in Seq(Compiled) /\ DOMAIN rules = 1..Len(rules) /\ Len(rules) \in Nat
      /\ broken \subseteq 1..Len(policy) /\ Len(policy) \in Nat
  BY EngineAssumption DEF IInv, TypeOK, LoopInv
<1>1. CASE CompileRule
  <2> DEFINE r == policy[at[1]][at[2]]
  <2>1. /\ policy' = policy /\ broken' = broken /\ caps' = caps /\ bypass' = bypass /\ pc = "load"
        /\ at[1] \in 1..Len(policy) /\ at[2] \in 1..Len(policy[at[1]])
    BY <1>0, <1>1 DEF CompileRule
  <2>2. at \in Positions(policy) /\ RuleAt(policy, at) = r
    BY <1>0, <2>1, PositionsAre DEF RuleAt
  <2>3. CASE ~Consistent(r) /\ pc' = "error" /\ UNCHANGED <<rules, at>>
    BY <2>1, <2>2, <2>3 DEF OrderInv
  <2>4. CASE AddRule(r) /\ at' = <<at[1], at[2] + 1>> /\ UNCHANGED pc
    <3> DEFINE n == Len(rules) + 1
    <3>1. /\ DOMAIN rules' = 1..n /\ n \in DOMAIN rules'
          /\ rules'[n].raw = r /\ rules'[n].source = at
          /\ \A i \in DOMAIN rules : i \in DOMAIN rules' /\ rules'[i] = rules[i]
          /\ \A i \in DOMAIN rules' : i = n \/ i \in DOMAIN rules
      BY SMTT(30), <1>0, <2>4 DEF AddRule
    <3> HIDE DEF n, r
    <3>2. \A i \in DOMAIN rules' :
            /\ rules'[i].source \in Positions(policy)
            /\ rules'[i].raw = RuleAt(policy, rules'[i].source)
      BY <2>2, <3>1 DEF OrderInv
    <3>3. \A i, j \in DOMAIN rules' : i < j => Before(rules'[i].source, rules'[j].source)
      <4> SUFFICES ASSUME NEW i \in DOMAIN rules', NEW j \in DOMAIN rules', i < j
                   PROVE  Before(rules'[i].source, rules'[j].source)
        OBVIOUS
      <4>1. i \in DOMAIN rules
        BY <1>0, <3>1 DEF n
      <4>2. QED
        BY <2>1, <3>1, <4>1 DEF OrderInv
    <3>4. at'[1] = at[1] /\ at'[2] = at[2] + 1
      BY <2>4
    <3>5. \A x \in Positions(policy) : Before(x, at') <=> Before(x, at) \/ x = at
      <4> SUFFICES ASSUME NEW x \in Positions(policy)
                   PROVE  Before(x, at') <=> Before(x, at) \/ x = at
        OBVIOUS
      <4>1. x = <<x[1], x[2]>> /\ x[1] \in Nat /\ x[2] \in Nat
        BY <1>0, PositionsAre
      <4>2. x = at <=> x[1] = at[1] /\ x[2] = at[2]
        BY <1>0, <4>1
      <4>3. QED
        BY <1>0, <3>4, <4>1, <4>2 DEF Before
    <3>6. \A i \in DOMAIN rules' : Before(rules'[i].source, at')
      BY <2>1, <2>2, <3>1, <3>2, <3>5 DEF OrderInv
    <3>7. \A x \in Positions(policy) : Before(x, at') => Covered(x)'
      BY <2>1, <3>1, <3>5 DEF OrderInv, Covered
    <3>8. QED
      BY <2>1, <2>4, <3>2, <3>3, <3>6, <3>7 DEF OrderInv
  <2>5. QED
    BY <1>1, <2>3, <2>4 DEF CompileRule
<1>2. CASE NextFile
  <2>1. /\ UNCHANGED <<policy, broken, caps, bypass, pc, rules>> /\ pc = "load"
        /\ at[1] <= Len(policy) /\ at[1] \notin broken /\ at[2] > Len(policy[at[1]])
        /\ at'[1] = at[1] + 1 /\ at'[2] = 1
    BY <1>2 DEF NextFile
  <2>2. \A x \in Positions(policy) : Before(x, at') <=> Before(x, at)
    BY <1>0, <2>1, PositionsAre DEF Before
  <2>3. \A i \in broken : i >= at'[1]
    BY <1>0, <2>1 DEF OrderInv
  <2>4. QED
    BY <2>1, <2>2, <2>3 DEF OrderInv, Covered
<1>3. CASE Loaded
  <2>1. /\ UNCHANGED <<policy, broken, caps, bypass, rules>> /\ pc = "load" /\ pc' = "hardstop"
        /\ at[1] > Len(policy) /\ at'[2] = 1
    BY <1>3 DEF Loaded
  <2>2. \A x \in Positions(policy) : Before(x, at)
    BY <1>0, <2>1, PositionsAre DEF Before
  <2>3. broken = {}
    BY <1>0, <2>1 DEF OrderInv
  <2>4. QED
    BY <2>1, <2>2, <2>3 DEF OrderInv, Covered
<1>4. CASE CheckHardStops
  <2>1. \A i \in DOMAIN rules : ~(i < at[2])
    BY <1>0, <1>4 DEF CheckHardStops, OrderInv
  <2>2. QED
    BY <1>4, <2>1 DEF CheckHardStops, Decide, OrderInv, Covered
<1>5. CASE TryRule
  BY <1>0, <1>5 DEF TryRule, Decide, OrderInv, Covered
<1>6. CASE FailClosed
  BY <1>6 DEF FailClosed, Decide, OrderInv, Covered
<1>7. CASE ParseFails
  BY <1>7 DEF ParseFails, OrderInv
<1>8. CASE UNCHANGED vars
  BY <1>8 DEF vars, OrderInv, Covered
<1>9. QED
  BY <1>1, <1>2, <1>3, <1>4, <1>5, <1>6, <1>7, <1>8 DEF Next

\* What the order says when a verdict is there.
LEMMA OrderDecides ==
  ASSUME IInv, OrderInv, pc = "rules"
  PROVE  /\ at[2] <= Len(rules) /\ Matches(rules[at[2]].raw, caps) =>
                   \E x \in Positions(policy) :
                     /\ Matches(RuleAt(policy, x), caps)
                     /\ \A y \in Positions(policy) :
                          Matches(RuleAt(policy, y), caps) /\ y # x => Before(x, y)
                     /\ VerdictOf(rules[at[2]]) =
                          VerdictOf([raw |-> RuleAt(policy, x), source |-> x])
         /\ at[2] > Len(rules) =>
                   \A x \in Positions(policy) : ~Matches(RuleAt(policy, x), caps)
<1>1. /\ at[2] \in Nat \ {0} /\ DOMAIN rules = 1..Len(rules) /\ Len(rules) \in Nat
      /\ ~bypass
  BY DEF IInv, TypeOK, LoopInv
<1>2. ASSUME NEW y \in Positions(policy), Matches(RuleAt(policy, y), caps)
      PROVE  \E j \in DOMAIN rules : j >= at[2] /\ rules[j].source = y
  <2>1. PICK j \in DOMAIN rules : rules[j].source = y
    BY <1>1 DEF OrderInv, Covered
  <2>2. ~(j < at[2])
    BY <1>2, <2>1 DEF OrderInv
  <2>3. QED
    BY <1>1, <2>1, <2>2
<1>3. ASSUME at[2] <= Len(rules), Matches(rules[at[2]].raw, caps)
      PROVE  \E x \in Positions(policy) :
               /\ Matches(RuleAt(policy, x), caps)
               /\ \A y \in Positions(policy) :
                    Matches(RuleAt(policy, y), caps) /\ y # x => Before(x, y)
               /\ VerdictOf(rules[at[2]]) =
                    VerdictOf([raw |-> RuleAt(policy, x), source |-> x])
  <2> DEFINE k == at[2]
             x == rules[k].source
  <2>1. k \in DOMAIN rules
    BY <1>1, <1>3
  <2>2. x \in Positions(policy) /\ rules[k].raw = RuleAt(policy, x)
    BY <2>1 DEF OrderInv
  <2>3. ASSUME NEW y \in Positions(policy), Matches(RuleAt(policy, y), caps), y # x
        PROVE  Before(x, y)
    <3>1. PICK j \in DOMAIN rules : j >= k /\ rules[j].source = y
      BY <1>2, <2>3
    <3>2. k < j
      BY <1>1, <2>3, <3>1
    <3>3. QED
      BY <2>1, <3>1, <3>2 DEF OrderInv
  <2>4. VerdictOf(rules[k]) = VerdictOf([raw |-> RuleAt(policy, x), source |-> x])
    BY <2>2 DEF VerdictOf
  <2>5. QED
    BY <1>3, <2>2, <2>3, <2>4
<1>4. ASSUME at[2] > Len(rules), NEW x \in Positions(policy)
      PROVE  ~Matches(RuleAt(policy, x), caps)
  BY <1>1, <1>2, <1>4
<1>5. QED
  BY <1>3, <1>4

\* A verdict is given by the rules' order, and stays.
LEMMA FirstMatchStep ==
  IInv /\ OrderInv /\ FirstMatchWins /\ [Next]_vars => FirstMatchWins'
<1> SUFFICES ASSUME IInv, OrderInv, FirstMatchWins, [Next]_vars PROVE FirstMatchWins'
  OBVIOUS
<1>1. CASE TryRule /\ pc' = "done"
  <2>1. /\ UNCHANGED <<policy, caps, bypass>> /\ pc = "rules" /\ at[2] <= Len(rules)
        /\ Matches(rules[at[2]].raw, caps) /\ result' = VerdictOf(rules[at[2]])
    BY <1>1 DEF TryRule, Decide
  <2>2. PICK x \in Positions(policy) :
          /\ Matches(RuleAt(policy, x), caps)
          /\ \A y \in Positions(policy) :
               Matches(RuleAt(policy, y), caps) /\ y # x => Before(x, y)
          /\ VerdictOf(rules[at[2]]) =
               VerdictOf([raw |-> RuleAt(policy, x), source |-> x])
    BY <2>1, OrderDecides
  <2>3. QED
    BY <2>1, <2>2 DEF FirstMatchWins
<1>2. CASE FailClosed
  <2>1. /\ UNCHANGED <<policy, caps, bypass>> /\ pc = "rules" /\ at[2] > Len(rules)
        /\ result' = Denied(FALSE, None)
    BY <1>2 DEF FailClosed, Decide
  <2>2. \A x \in Positions(policy) : ~Matches(RuleAt(policy, x), caps)
    BY <2>1, OrderDecides
  <2>3. QED
    BY <2>1, <2>2 DEF FirstMatchWins
<1>3. CASE CheckHardStops
  BY <1>3 DEF CheckHardStops, Decide, HitsHardStop, FirstMatchWins
<1>4. CASE pc' # "done"
  BY <1>4 DEF FirstMatchWins
<1>5. CASE UNCHANGED vars
  BY <1>5 DEF vars, FirstMatchWins
<1>6. QED
  <2>1. ParseFails \/ CompileRule \/ NextFile \/ Loaded => pc' # "done"
    BY DEF ParseFails, CompileRule, NextFile, Loaded
  <2>2. QED
    BY <1>1, <1>2, <1>3, <1>4, <1>5, <2>1 DEF Next

\* The order holds throughout.
LEMMA EngineOrder == Spec => []OrderInv
  BY EngineInvariant, OrderInit, OrderStep, PTL DEF Spec

\* Layers, files and rules are read in their order and the first match decides,
\* for every policy: load_policy_files and evaluate lose and swap no rule.
THEOREM EarlierRulesWin == Spec => []FirstMatchWins
<1>1. Init => FirstMatchWins
  BY DEF Init, FirstMatchWins
<1>2. QED
  BY <1>1, EngineInvariant, EngineOrder, FirstMatchStep, PTL DEF Spec

\* The errors of parsing and of compile_rule end the load, and nothing else does:
\* what loads is the whole of the files.
THEOREM LoadsAreWhole == Spec => []LoadIsAllOrNothing
<1>1. IInv /\ OrderInv => LoadIsAllOrNothing
  <2> SUFFICES ASSUME IInv, OrderInv PROVE LoadIsAllOrNothing
    OBVIOUS
  <2>1. ASSUME NEW x \in Positions(policy), Covered(x)
        PROVE  Consistent(RuleAt(policy, x))
    <3>1. PICK i \in DOMAIN rules : rules[i].source = x
      BY <2>1 DEF Covered
    <3>2. rules[i] \in Compiled /\ rules[i].raw = RuleAt(policy, x)
      BY <3>1 DEF IInv, LoopInv, OrderInv
    <3>3. QED
      BY <3>2 DEF Compiled
  <2>2. QED
    BY <2>1 DEF OrderInv, LoadIsAllOrNothing
<1>2. QED
  BY <1>1, EngineInvariant, EngineOrder, PTL
=============================================================================
