---------------------------- MODULE SetupReports ----------------------------
(***************************************************************************)
(* What Gommage says of a host: the report of `agent status`               *)
(* (agent_status.rs), the hook groups `harness` looks at (harness.rs), and *)
(* the plan of `quickstart --dry-run` (quickstart_plan.rs), over the files *)
(* HostSetup changes.                                                      *)
(*                                                                         *)
(* The plan for a quickstart is made when it begins, as `quickstart        *)
(* --dry-run` just before it would.                                        *)
(***************************************************************************)
EXTENDS HostSetup

VARIABLE planned   \* the plan of the quickstart under way or ended; None

rvars == <<vars, planned>>

PlaceOf(a) == IF a = "claude" THEN "settings" ELSE "hooks"

\* Faulty variant: Codex's hooks are at the top level.
HooksOnTop(a, doc) == IF a = "claude" THEN doc.groups ELSE OrEmpty(doc.top)

\* The groups at /hooks/PreToolUse, or codex_pre_tool_use_pointer.
HooksAt(a, doc) == IF a = "claude" THEN doc.groups ELSE OrEmpty(doc[Primary(doc)])

---------------------------------------------------------------------------
(* agent status: each check is ok, warn or fail, and the worst counts *)

\* matcher_is_global: a group that names no tools covers every tool.
Global(g) == g.tools = {}
Covers(g, tool) == Global(g) \/ tool \in g.tools

\* gommage_hook_matchers: groups that run the adapter, not any command with
\* "gommage" in it.
Adapters(groups) == {g \in groups : g.gommage /\ ~g.mine}

\* push_hook_coverage_report.
CoverageOf(adapters, required) ==
  IF \A tool \in required : \E g \in adapters : Covers(g, tool) THEN "ok" ELSE "warn"

\* The pre_tool_use, hook_coverage and hook_scope checks.
HookChecks(groups, required) ==
  (IF Adapters(groups) = {} THEN {"fail"} ELSE {CoverageOf(Adapters(groups), required)})
    \union (IF \E g \in groups : g.gommage /\ Global(g) THEN {"warn"} ELSE {})

\* push_claude_import_status: that the generated file exists is enough.
ImportCheck(doc) ==
  IF doc.allow \in {None, {}} \/ imports # None THEN "ok" ELSE "warn"

\* codex_hooks_feature_state.
FlagCheck(doc) ==
  IF doc.hooks = TRUE THEN "ok" ELSE IF doc.legacy = TRUE THEN "warn" ELSE "fail"

PathCheck(f) == IF file[f] = Absent THEN "fail" ELSE "ok"

\* build_claude_status_report_at, build_codex_status_report_at.
ChecksOf(a) ==
  IF a = "claude"
    THEN {PathCheck("settings")} \union
         (IF ~Readable("settings") THEN {"fail"}
          ELSE LET doc == Document("settings") IN
                 HookChecks(HooksAt(a, doc), Matcher(doc)) \union {ImportCheck(doc)})
    ELSE {PathCheck("hooks"), PathCheck("config")} \union
         (IF ~Readable("hooks") THEN {"fail"}
          ELSE LET doc == Document("hooks") IN HookChecks(HooksAt(a, doc), Tools)) \union
         (IF ~Readable("hooks") \/ ~Readable("config") THEN {"fail"}
          ELSE {FlagCheck(Document("config"))})

\* AgentStatusReport::push.
StatusOf(a) ==
  IF "fail" \in ChecksOf(a) THEN "fail" ELSE IF "warn" \in ChecksOf(a) THEN "warn" ELSE "ok"

---------------------------------------------------------------------------
(* quickstart --dry-run *)

\* existing_hook_group_plans.
HookPlan(groups, replace) ==
  [preserved |-> IF replace THEN {} ELSE Others(groups),
   removed |-> IF replace THEN groups ELSE groups \ Others(groups)]

\* permission_import_plan.
ImportAction(doc, replace, import) ==
  IF ~import THEN "skipped_disabled"
  ELSE IF doc.allow \in {None, {}} THEN "skipped_no_importable_rules"
  ELSE IF imports = None THEN "would_write"
  ELSE IF replace THEN "would_replace" ELSE "would_preserve"

\* build_claude_plan, build_codex_plan and the operations "agent_config" made of
\* them: what is announced does not depend on there being a tool to hook.
\* `imports` is not in the report: it is what the actions are about.
PlanFor(a, replace, import) ==
  LET doc == Document(PlaceOf(a)) IN
    [hook |-> HookPlan(HooksAt(a, doc), replace),
     matcher |-> IF a = "claude" THEN Matcher(doc) ELSE Tools,
     action |-> "would_install",
     would_write |-> {f \in Files : AgentOf(f) = a},
     import |-> IF a = "claude" THEN ImportAction(doc, replace, import) ELSE "not_supported",
     imports |-> imports]

---------------------------------------------------------------------------

RInit == Init /\ planned = None

\* build_quickstart_dry_run_report: the agents and options are the ones Begin has
\* put into the end task.
PlannedQuickstart ==
  /\ Quickstart
  /\ LET end == Last(tasks').file IN
       planned' = IF \A a \in end.agents : Readable(PlaceOf(a))
                    THEN [a \in end.agents |-> PlanFor(a, end.replace, end.import)]
                    ELSE None

OtherCommand == (Install \/ Uninstall) /\ planned' = None

Continue == (Steps \/ Abort \/ Edit) /\ UNCHANGED planned

RNext == PlannedQuickstart \/ OtherCommand \/ Continue

RSpec == RInit /\ [][RNext]_rvars

---------------------------------------------------------------------------
(* Properties *)

\* A setup that ended well is one `agent status` finds nothing wrong with: what
\* the writers wrote is where the reader looks, with the tools it asks for, the
\* Codex flag in its new place, and, where they were to be imported, the rules.
\* Not so with a permissions.allow that leaves no tool to hook: install_claude
\* then warns and writes nothing.
StatusHolds ==
  last # None /\ ~raced /\ last.kind \in {"install", "quickstart"} =>
    \A a \in last.agents :
      (a = "claude" => Matcher(Document("settings")) # {}) =>
        /\ StatusOf(a) # "fail"
        /\ (a = "claude" => last.import) => StatusOf(a) = "ok"

\* The groups there are now are those the plan marks would_preserve and the hook
\* with the matcher it shows.
HookAsPlanned(a, plan) ==
  HooksAt(a, Document(PlaceOf(a))) = plan.hook.preserved \union {OurGroup(plan.matcher)}

\* Only the hook and the files of a plan with a matcher are as announced; the
\* import does what its action says, enabled or not.
PlanHolds(a, plan) ==
  /\ plan.matcher # {} =>
       /\ HookAsPlanned(a, plan)
       /\ \A f \in plan.would_write : IsDocument(f)
  /\ plan.import # "not_supported" =>
       imports = IF plan.import \in {"would_write", "would_replace"}
                   THEN Document(PlaceOf(a)).allow ELSE plan.imports

\* An undisturbed quickstart that ended well, and the plan made before it.
AfterPlan == last # None /\ ~raced /\ last.kind = "quickstart" /\ planned # None

\* What the program reports about the configuration of one agent or of both,
\* before a quickstart and after it, is what its own readers find, where the plan
\* shows a matcher.
ReportsAgree ==
  /\ StatusHolds
  /\ AfterPlan => \A a \in last.agents : PlanHolds(a, planned[a])
=============================================================================
