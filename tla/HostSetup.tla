----------------------------- MODULE HostSetup ------------------------------
(***************************************************************************)
(* Putting Gommage into a host and taking it out again: the commands       *)
(* `agent install`, `agent uninstall`, `repair agent`, `quickstart`,       *)
(* `daemon install` and `uninstall` (agent.rs, agent_uninstall.rs,         *)
(* codex_config.rs, quickstart.rs, daemon.rs, uninstall.rs, repair.rs and  *)
(* the file helpers of util.rs).                                           *)
(*                                                                         *)
(* A command is a sequence of tasks over files the agents and their users  *)
(* edit too.  Changing a file is to read it, to copy it aside, to truncate *)
(* it and to write it; edits and the end of the process come between.      *)
(***************************************************************************)
EXTENDS Integers, Sequences, FiniteSets, SequencesExt

CONSTANTS
  Tools,       \* the tools with capability mappers
  InitialFiles, \* what the host has before: functions from Files to contents
  Options,     \* what `quickstart` may be asked for beside the agents
  Selections,  \* what `uninstall` may be asked to take away: sets of Targets
  MaxCommands, \* bound on commands
  MaxEdits,    \* bound on edits by the user or the agent
  MaxFaults,   \* bound on commands that end half way
  Absent, Blank, Broken, \* a file that is missing, empty, or does not parse
  None

ASSUME ToolsAreMapped == Tools # {}
ASSUME SetupBounds == {MaxCommands, MaxEdits, MaxFaults} \subseteq Nat

Files == {"settings", "hooks", "config"}
Agents == {"claude", "codex"}
AgentOf(f) == IF f = "settings" THEN "claude" ELSE "codex"

\* The options of `uninstall`; --all is all of them but the backups.  The skills
\* are files nothing else reads.
Targets == Agents \union {"daemon", "home", "binaries", "backups"}
ASSUME OptionsAreBooleans ==
  Options \subseteq [replace : BOOLEAN, import : BOOLEAN, daemon : BOOLEAN, selfTest : BOOLEAN]
ASSUME SomethingIsSelected == Selections \subseteq (SUBSET Targets) \ {{}}

\* A PreToolUse group: whether it runs a command of the user's, whether one
\* whose text contains "gommage", and the tools its matcher names.
Group == [mine : BOOLEAN, gommage : BOOLEAN, tools : SUBSET Tools]

\* Claude's settings, Codex's hooks.json with the two places a group may be in,
\* and the feature flags of its config.toml.
EmptyOf == [settings |-> [groups |-> {}, allow |-> None],
            hooks |-> [nested |-> None, top |-> None],
            config |-> [hooks |-> None, legacy |-> None]]

\* What each file may hold.
Contents ==
  [settings |-> [groups : SUBSET Group, allow : {None} \union SUBSET Tools],
   hooks |-> [nested : {None} \union SUBSET Group, top : {None} \union SUBSET Group],
   config |-> [hooks : {None} \union BOOLEAN, legacy : {None} \union BOOLEAN]]
Documents == Contents.settings \union Contents.hooks \union Contents.config

ASSUME HomesAreTyped ==
  \A home \in InitialFiles :
    /\ home \in [Files -> Documents \union {Absent}]
    /\ \A f \in Files : home[f] \in Contents[f] \union {Absent}
ASSUME MarksAreNoDocuments ==
  /\ \A mark \in {Absent, Blank, Broken, None} : mark \notin Documents
  /\ \A set \in (SUBSET Group) \union SUBSET Tools : set # None
  /\ Absent \notin {Blank, Broken, None} /\ Blank \notin {Broken, None} /\ Broken # None

\* The groups of a document.
OrEmpty(groups) == IF groups = None THEN {} ELSE groups
GroupsOf(f, doc) ==
  CASE f = "settings" -> doc.groups
    [] f = "hooks" -> OrEmpty(doc.nested) \union OrEmpty(doc.top)
    [] f = "config" -> {}

VARIABLES
  file,       \* of each file: a content, or Absent, Blank, Broken
  backups,    \* of each file, oldest first
  imports,    \* the rules in 90-claude-allow-import.yaml, or None; the file of
              \* the deny rules is written by the same function
  posture,    \* whether the agent posture files are in the policy directory
  service,    \* absent, current (what install would write), other
  running,    \* the service manager runs the daemon
  installed,  \* the binaries are there
  tasks,      \* what is left of the command under way
  stage,      \* of its first task: read, backup, truncate, write
  draft,      \* the content it is about to write
  kept,       \* quickstart's snapshots: a content, absent, or None
  flow,       \* [agents, restored, removed]: the agents of the last command, those
              \* it restored; it removed Codex's last hook
  last,       \* the command that ended well: [kind, agents, replace, import]; None
  user,       \* history: the groups the user has put into a file
  raced,      \* history: an edit fell into a command
  excused,    \* history: a restore, a rollback or a purge of backups happened
  commands, edits, faults

host == <<imports, posture, service, running, installed>>
work == <<tasks, stage, draft, kept, flow, last>>
counts == <<commands, edits, faults>>
vars == <<file, backups, host, work, user, raced, excused, counts>>

Idle == tasks = <<>>
FlowOf(agents) == [agents |-> agents, restored |-> {}, removed |-> FALSE]

Init ==
  /\ file \in InitialFiles
  /\ backups = [f \in Files |-> <<>>]
  /\ imports = None
  /\ posture = FALSE
  /\ service \in {"absent", "other"} /\ running = (service = "other")
  /\ installed = TRUE
  /\ tasks = <<>> /\ stage = "read" /\ draft = None
  /\ kept = [f \in Files |-> None] /\ flow = FlowOf({}) /\ last = None
  /\ user = [f \in Files |-> IF file[f] = Absent THEN {} ELSE GroupsOf(f, file[f])]
  /\ raced = FALSE /\ excused = FALSE
  /\ commands = 0 /\ edits = 0 /\ faults = 0

---------------------------------------------------------------------------
(* Contents *)

\* read_json_object, read_toml_document: a file that is missing or blank is an
\* empty document.
Readable(f) == file[f] # Broken
Document(f) == IF file[f] \in {Absent, Blank} THEN EmptyOf[f] ELSE file[f]

Others(groups) == {g \in groups : ~g.gommage}

\* claude_gommage_matcher: only what the native rules allow is hooked.
Matcher(doc) == IF doc.allow = None THEN Tools ELSE doc.allow
OurGroup(tools) == [mine |-> FALSE, gommage |-> TRUE, tools |-> tools]

\* codex_pre_tool_use_path.
Primary(doc) == IF doc.nested # None THEN "nested" ELSE "top"

\* install_json_hook_group.
Installed(groups, replace, tools) ==
  (IF replace THEN {} ELSE Others(groups)) \union {OurGroup(tools)}

\* What install_claude and install_codex put into their files.
WithHook(f, doc, replace) ==
  IF f = "settings"
    THEN [doc EXCEPT !.groups = Installed(@, replace, Matcher(doc))]
    ELSE [doc EXCEPT ![Primary(doc)] = Installed(OrEmpty(@), replace, Tools)]

\* Faulty variant: only the place an install would use.
WithoutPrimaryHook(f, doc) ==
  IF f = "settings"
    THEN [doc EXCEPT !.groups = Others(@)]
    ELSE [doc EXCEPT ![Primary(doc)] = IF @ = None THEN None ELSE Others(@)]

\* remove_json_hook_groups, at both places for Codex.
WithoutHook(f, doc) ==
  IF f = "settings"
    THEN [doc EXCEPT !.groups = Others(@)]
    ELSE [p \in {"nested", "top"} |-> IF doc[p] = None THEN None ELSE Others(doc[p])]

\* json_has_codex_hook_groups.
HasGroups(doc) == OrEmpty(doc.nested) \union OrEmpty(doc.top) # {}

\* disable_existing_codex_hooks_features.
Disabled(doc) == [flag \in {"hooks", "legacy"} |-> IF doc[flag] = None THEN None ELSE FALSE]

---------------------------------------------------------------------------
(* Commands *)

On(op, f) == [op |-> op, file |-> f, replace |-> FALSE, import |-> FALSE]
Do(op) == On(op, None)

When(asked, list) == IF asked THEN list ELSE <<>>

\* install_agent.
InstallTasks(a, replace, import) ==
  IF a = "claude"
    THEN <<Do("posture"), [On("hook", "settings") EXCEPT !.replace = replace, !.import = import]>>
    ELSE <<Do("posture"), [On("hook", "hooks") EXCEPT !.replace = replace], On("enable", "config")>>

\* uninstall_claude, uninstall_codex: what is restored is not edited.
UninstallTasks(a, restore) ==
  IF a = "claude"
    THEN When(restore, <<On("restore", "settings")>>) \o <<On("remove", "settings")>>
    ELSE When(restore, <<On("restore", "hooks"), On("restore", "config")>>)
           \o <<On("remove", "hooks"), On("disable", "config")>>

Begin(kind, agents, replace, import, list) ==
  LET report == [kind |-> kind, agents |-> agents, replace |-> replace, import |-> import] IN
    /\ Idle /\ installed /\ commands < MaxCommands
    /\ commands' = commands + 1
    /\ tasks' = Append(list, [Do("end") EXCEPT !.file = report])
    /\ stage' = "read" /\ draft' = None /\ flow' = FlowOf(agents) /\ last' = None
    /\ kept' = [f \in Files |-> None]
    /\ UNCHANGED <<file, backups, host, user, raced, excused, edits, faults>>

\* agent install, and repair, which never replaces.
Install ==
  \E a \in Agents, replace, import \in BOOLEAN :
    Begin("install", {a}, replace, import, InstallTasks(a, replace, import))

\* --agent may be given once for each, in either order.
InstallAll(agents, first, replace, import) ==
  LET other == IF first = "claude" THEN "codex" ELSE "claude" IN
    InstallTasks(first, replace, import)
      \o When(other \in agents, InstallTasks(other, replace, import))

\* cmd_quickstart, with --no-import-native-permissions and --no-self-test.
Quickstart ==
  \E agents \in SUBSET Agents, asked \in Options :
    \E first \in agents :
      Begin("quickstart", agents, asked.replace, asked.import,
        When(asked.selfTest, <<Do("snapshot")>>)
          \o InstallAll(agents, first, asked.replace, asked.import) \o <<Do("context")>>
          \o When(asked.daemon, <<Do("service")>>) \o <<Do("policy")>>
          \o When(asked.selfTest, <<Do("selftest")>>))

\* What `uninstall` does for its targets.
Removal(targets, restore) ==
  When("claude" \in targets, UninstallTasks("claude", restore))
    \o When("codex" \in targets, UninstallTasks("codex", restore))
    \o When("daemon" \in targets, <<Do("unservice")>>)
    \o When("home" \in targets, <<Do("home")>>)
    \o When("binaries" \in targets, <<Do("binaries")>>)
    \o When("backups" \in targets, <<Do("purge")>>)

\* cmd_uninstall, confirmed with --yes; agent uninstall and repair
\* --restore-backup are the selections of agents alone.
Uninstall ==
  \E targets \in Selections, restore \in BOOLEAN :
    Begin("uninstall", targets \intersect Agents, FALSE, FALSE, Removal(targets, restore))

---------------------------------------------------------------------------
(* Tasks *)

Task == Head(tasks)
Doing(op) == ~Idle /\ Task.op = op
Finish == tasks' = Tail(tasks) /\ stage' = "read" /\ UNCHANGED last
Fail == tasks' = <<>> /\ stage' = "read" /\ UNCHANGED last

\* write_agent_posture_policy.
Posture ==
  /\ Doing("posture")
  /\ posture' = TRUE /\ Finish
  /\ UNCHANGED <<file, backups, imports, service, running, installed, draft, kept, flow,
                 user, raced, excused, counts>>

\* write_claude_permission_import: nothing to import leaves the file as it is,
\* and an existing one is only replaced with --replace-hooks.
ImportOf(current, rules, replace) ==
  IF rules = {} \/ (current # None /\ ~replace) THEN current ELSE rules

\* import_claude_permissions.
Imported(doc, replace) ==
  IF doc.allow = None THEN imports ELSE ImportOf(imports, doc.allow, replace)

\* install_claude, install_codex: what is to be written follows from what was
\* read; with no tool to hook nothing is written.  Where the groups should be there
\* may be something else, which a content does not tell: ensure_array_path then
\* fails, with the rules already imported.
ReadToInstall ==
  /\ stage = "read"
  /\ \E op \in {"hook", "enable"} : Doing(op)
  /\ LET f == Task.file  doc == Document(f) IN
       IF ~Readable(f) THEN Fail /\ UNCHANGED <<imports, draft>>
       ELSE
         /\ imports' = IF Task.import THEN Imported(doc, Task.replace) ELSE imports
         /\ IF f = "settings" /\ Matcher(doc) = {}
              THEN Finish /\ UNCHANGED draft
              ELSE \/ f # "config" /\ Fail /\ UNCHANGED draft
                   \/ /\ stage' = "backup" /\ UNCHANGED <<tasks, last>>
                      /\ draft' = IF f = "config" THEN [doc EXCEPT !.hooks = TRUE]
                                  ELSE WithHook(f, doc, Task.replace)
  /\ UNCHANGED <<file, backups, posture, service, running, installed, kept, flow,
                 user, raced, excused, counts>>

\* The middle of uninstall_claude and uninstall_codex.
ReadToRemove ==
  /\ stage = "read" /\ Doing("remove")
  /\ LET f == Task.file  doc == Document(f) IN
       IF file[f] = Absent \/ AgentOf(f) \in flow.restored
         THEN Finish /\ UNCHANGED <<draft, flow>>
       ELSE IF ~Readable(f) THEN Fail /\ UNCHANGED <<draft, flow>>
       ELSE IF WithoutHook(f, doc) = doc THEN Finish /\ UNCHANGED <<draft, flow>>
       ELSE /\ draft' = WithoutHook(f, doc)
            /\ flow' = [flow EXCEPT !.removed = f = "hooks" /\ ~HasGroups(draft')]
            /\ stage' = "backup" /\ UNCHANGED <<tasks, last>>
  /\ UNCHANGED <<file, backups, host, kept, user, raced, excused, counts>>

\* The end of uninstall_codex: the flags only when no group is left.
ReadToDisable ==
  /\ stage = "read" /\ Doing("disable")
  /\ IF ~flow.removed \/ file.config = Absent THEN Finish /\ UNCHANGED draft
     ELSE IF ~Readable("config") THEN Fail /\ UNCHANGED draft
     ELSE IF Disabled(Document("config")) = EmptyOf.config THEN Finish /\ UNCHANGED draft
     ELSE /\ draft' = Disabled(Document("config"))
          /\ stage' = "backup" /\ UNCHANGED <<tasks, last>>
  /\ UNCHANGED <<file, backups, host, kept, flow, user, raced, excused, counts>>

\* restore_latest_backup: over whatever is there, and without a look at it.
ReadToRestore ==
  /\ stage = "read" /\ Doing("restore")
  /\ IF backups[Task.file] = <<>> THEN Finish /\ UNCHANGED <<draft, flow, excused>>
     ELSE /\ draft' = Last(backups[Task.file])
          /\ flow' = [flow EXCEPT !.restored = @ \union {AgentOf(Task.file)}]
          /\ excused' = TRUE
          /\ stage' = "truncate" /\ UNCHANGED <<tasks, last>>
  /\ UNCHANGED <<file, backups, host, kept, user, raced, counts>>

\* Faulty variant: the new content is written without a copy of the old one.
OverwriteAtOnce ==
  /\ ~Idle /\ stage = "backup"
  /\ stage' = "truncate"
  /\ UNCHANGED <<file, backups, host, tasks, draft, kept, flow, last, user, raced, excused, counts>>

\* write_text, first half: an unchanged file is left alone.
Backup ==
  /\ ~Idle /\ stage = "backup"
  /\ LET f == Task.file IN
       IF file[f] = draft THEN Finish /\ UNCHANGED backups
       ELSE /\ backups' = IF file[f] = Absent THEN backups
                          ELSE [backups EXCEPT ![f] = Append(@, file[f])]
            /\ stage' = "truncate" /\ UNCHANGED <<tasks, last>>
  /\ UNCHANGED <<file, host, draft, kept, flow, user, raced, excused, counts>>

\* std::fs::write and std::fs::copy truncate first.
Truncate ==
  /\ ~Idle /\ stage = "truncate"
  /\ file' = [file EXCEPT ![Task.file] = Blank]
  /\ stage' = "write"
  /\ UNCHANGED <<backups, host, tasks, draft, kept, flow, last, user, raced, excused, counts>>

Write ==
  /\ ~Idle /\ stage = "write"
  /\ file' = [file EXCEPT ![Task.file] = draft]
  /\ Finish
  /\ UNCHANGED <<backups, host, draft, kept, flow, user, raced, excused, counts>>

\* capture_agent_config_snapshots, before the first edit.
TakeSnapshot ==
  /\ Doing("snapshot")
  /\ kept' = [f \in Files |-> IF AgentOf(f) \in flow.agents THEN file[f] ELSE None]
  /\ Finish
  /\ UNCHANGED <<file, backups, host, draft, flow, user, raced, excused, counts>>

\* Faulty variant: a file that was not there before stays.
RollbackOfExisting ==
  LET saved == {f \in Files : kept[f] \notin {None, Absent}} IN
    [i \in 1..Cardinality(saved) |-> On("rollback", SetToSeq(saved)[i])]

\* rollback_agent_config_snapshots.
Rollback ==
  LET saved == {f \in Files : kept[f] # None} IN
    [i \in 1..Cardinality(saved) |-> On("rollback", SetToSeq(saved)[i])]

\* Policy::load_from_dir: the policies may not load, which is not rolled back.  (A
\* load that fails before the snapshots is as no command.)
LoadPolicy ==
  /\ Doing("policy")
  /\ Finish \/ Fail
  /\ UNCHANGED <<file, backups, host, draft, kept, flow, user, raced, excused, counts>>

\* run_quickstart_self_test: a failed check is rolled back, an error is not.
SelfTest ==
  /\ Doing("selftest")
  /\ \/ (Finish \/ Fail) /\ UNCHANGED excused
     \/ /\ tasks' = Append(Rollback, [Last(tasks) EXCEPT !.file.kind = "rollback"])
        /\ stage' = "read" /\ excused' = TRUE /\ UNCHANGED last
  /\ UNCHANGED <<file, backups, host, draft, kept, flow, user, raced, counts>>

ReadToRollBack ==
  /\ stage = "read" /\ Doing("rollback")
  /\ IF kept[Task.file] = Absent
       THEN file' = [file EXCEPT ![Task.file] = Absent] /\ Finish /\ UNCHANGED draft
       ELSE /\ draft' = kept[Task.file]
            /\ stage' = "truncate" /\ UNCHANGED <<file, tasks, last>>
  /\ UNCHANGED <<backups, host, kept, flow, user, raced, excused, counts>>

\* write_harness_context: what it writes is in the home; it reads the files of
\* the agents again.
WriteContext ==
  /\ Doing("context")
  /\ IF \E f \in Files : AgentOf(f) \in flow.agents /\ ~Readable(f) THEN Fail ELSE Finish
  /\ UNCHANGED <<file, backups, host, draft, kept, flow, user, raced, excused, counts>>

\* daemon_install without --force: a service file that differs is an error; the
\* manager starts what does not run yet.
InstallService ==
  /\ Doing("service")
  /\ IF service = "other" THEN Fail /\ UNCHANGED <<service, running>>
     ELSE service' = "current" /\ running' = TRUE /\ Finish
  /\ UNCHANGED <<file, backups, imports, posture, installed, draft, kept, flow,
                 user, raced, excused, counts>>

\* daemon_uninstall: a stop that fails does not matter.
RemoveService ==
  /\ Doing("unservice")
  /\ running' \in {FALSE, running} /\ service' = "absent" /\ Finish
  /\ UNCHANGED <<file, backups, imports, posture, installed, draft, kept, flow,
                 user, raced, excused, counts>>

\* remove_path of the home, with the policies in it.
PurgeHome ==
  /\ Doing("home")
  /\ imports' = None /\ posture' = FALSE /\ Finish
  /\ UNCHANGED <<file, backups, service, running, installed, draft, kept, flow,
                 user, raced, excused, counts>>

RemoveBinaries ==
  /\ Doing("binaries")
  /\ installed' = FALSE /\ Finish
  /\ UNCHANGED <<file, backups, imports, posture, service, running, draft, kept, flow,
                 user, raced, excused, counts>>

\* purge_backup_files.
PurgeBackups ==
  /\ Doing("purge")
  /\ backups' = [f \in Files |-> <<>>] /\ excused' = TRUE /\ Finish
  /\ UNCHANGED <<file, host, draft, kept, flow, user, raced, counts>>

End ==
  /\ Doing("end")
  /\ last' = Task.file /\ tasks' = <<>>
  /\ UNCHANGED <<file, backups, host, stage, draft, kept, flow, user, raced, excused, counts>>

\* An error of the file system, or the end of the process: what was being
\* written is cut short.
Abort ==
  /\ ~Idle /\ Task.op # "end" /\ faults < MaxFaults
  /\ faults' = faults + 1
  /\ \/ UNCHANGED file
     \/ stage = "write" /\ file' = [file EXCEPT ![Task.file] = Broken]
  /\ Fail
  /\ UNCHANGED <<backups, host, draft, kept, flow, user, raced, excused, commands, edits>>

---------------------------------------------------------------------------
(* The agents and their users *)

\* A group of the user's own, and other native rules, written in one go.
Edited(f, doc) ==
  LET g == [mine |-> TRUE, gommage |-> FALSE, tools |-> Tools] IN
    CASE f = "settings" -> {[doc EXCEPT !.groups = @ \union {g}]}
                             \union {[doc EXCEPT !.allow = a] : a \in {None} \union SUBSET Tools}
      [] f = "hooks" -> {[doc EXCEPT ![p] = OrEmpty(@) \union {g}] : p \in {"nested", "top"}}
      [] f = "config" -> {[doc EXCEPT !.hooks = TRUE]}

Mine(f, doc) ==
  CASE f = "settings" -> Others(doc.groups)
    [] f = "hooks" -> Others(OrEmpty(doc.nested) \union OrEmpty(doc.top))
    [] f = "config" -> {}

Edit ==
  /\ edits < MaxEdits /\ edits' = edits + 1
  /\ \E f \in Files :
       /\ Readable(f)
       /\ \E doc \in Edited(f, Document(f)) :
            /\ doc # file[f]
            /\ file' = [file EXCEPT ![f] = doc]
            /\ user' = [user EXCEPT ![f] = @ \union Mine(f, doc)]
  /\ raced' = (raced \/ ~Idle)
  /\ last' = None
  /\ UNCHANGED <<backups, host, tasks, stage, draft, kept, flow, excused, commands, faults>>

Steps ==
  \/ Posture \/ ReadToInstall \/ ReadToRemove \/ ReadToDisable \/ ReadToRestore
  \/ Backup \/ Truncate \/ Write
  \/ WriteContext \/ TakeSnapshot \/ LoadPolicy \/ SelfTest \/ ReadToRollBack
  \/ InstallService \/ RemoveService \/ PurgeHome \/ RemoveBinaries \/ PurgeBackups \/ End

Next == Install \/ Uninstall \/ Quickstart \/ Steps \/ Abort \/ Edit

Spec == Init /\ [][Next]_vars

---------------------------------------------------------------------------
(* Properties *)

IsDocument(f) == file[f] \notin {Absent, Blank, Broken}

\* "preserving unrelated host configuration", "changed host files are backed up
\* next to the original": a group of the user's that is no longer in its file is
\* in a backup of it, whatever the commands did and wherever they were cut off.
\* A restore, a rollback, a purge, and an edit that falls into a command, can
\* lose one.
OthersKept ==
  ~raced /\ ~excused =>
    \A f \in {"settings", "hooks"} : \A g \in user[f] :
      \/ IsDocument(f) /\ g \in GroupsOf(f, file[f])
      \/ \E i \in DOMAIN backups[f] :
           backups[f][i] \notin {Blank, Broken} /\ g \in GroupsOf(f, backups[f][i])

HookFree(f) == IsDocument(f) => \A g \in GroupsOf(f, file[f]) : ~g.gommage

\* A hook whose program is gone stops no call.  An uninstall that takes agents
\* and the binaries away takes the binaries only after the hooks of those agents,
\* from both places of Codex's file too, however it went before and whoever edits
\* the files meanwhile.  What a restore puts back is as it was; the hooks of an
\* agent not named stay (`uninstall --binaries` takes no hook away).
NoDanglingHook ==
  ~installed => \A f \in Files : AgentOf(f) \in flow.agents \ flow.restored => HookFree(f)

\* "restores touched agent config snapshots if the post-install self-test
\* fails": byte for byte, a file that was not there included.
RollbackIsExact ==
  last # None /\ ~raced /\ last.kind = "rollback" => \A f \in Files : kept[f] \in {None, file[f]}
=============================================================================
