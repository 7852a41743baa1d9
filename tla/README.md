# Gommage in TLA+

Specifications of [gommage](../src/README.md), a policy gate for coding agents:
a tool call is mapped to capabilities, the capabilities are judged by layered
policy files, and a call that needs a human waits for a *picto*, a signed,
expiring, use-counted grant. The specifications are about the decision itself,
from the command line an agent writes to the answer its hook gives, and about
the files and sockets several processes share on the way. Paths below are
relative to `src/crates/`.

## The system

| Part | State it keeps | Operations | Used by |
|---|---|---|---|
| Picto store, `gommage-core/src/picto.rs` | SQLite table `pictos` (WAL) | create, confirm, revoke, lookup, consume, sweep | daemon, in-process hooks, CLI |
| Decision path, `gommage-daemon/src/main.rs` (`decide_and_audit`), `gommage-cli/src/main.rs` (`decide_with_pictos`), `gommage-mcp/src/main.rs` (`decide_in_process_and_audit`) | locals of one decision | evaluate, lookup, consume, ask, audit | hooks and the gateway |
| Approval inbox, `gommage-core/src/approval.rs` | append-only `approvals.jsonl`, replayed on every use | record, resolve, list | decision path, operators |
| Approval commands, `gommage-cli/src/approval_cmd.rs` | none of their own | approve, deny, deny-stale, callback, webhook, dlq | operators, the TUI |
| Approval webhook, `gommage-core/src/{approval_webhook,webhook_signature}.rs` | dead-letter file | deliver with retries, sign, verify | decision path, CLI |
| Audit log, `gommage-audit/src/lib.rs` | append-only signed `audit.log` | append, verify, explain | everybody |
| Daemon, `gommage-daemon/src/main.rs` | loaded configuration, `config.fingerprint`, the socket | start, guarded reload, decide, stop | service manager, hooks, CLI |
| Policy engine, `gommage-core/src/{policy,hardstop,evaluator}.rs` | none (pure, over loaded rules) | load, evaluate, bypass | decision path |
| Shell parser and mapper, `gommage-core/src/{shell,mapper}.rs` | none (pure) | take a command line apart, map a call | hooks, decision path |
| Hook and gateway, `gommage-mcp/src/main.rs`, `gommage-cli/src/{mcp,input}.rs` | one call, or a proxied session | enrich the call, forward to the daemon, else decide in-process | the agent |
| State index, `gommage-cli/src/state.rs` and its readers `operator_metrics.rs`, `tui_stream.rs` | SQLite copy of the log | rebuild, verify, serve counters and items | operator console |
| Host setup, `gommage-cli/src/{agent,agent_uninstall,agent_status,codex_config,quickstart,quickstart_plan,uninstall,repair,daemon,util}.rs` | settings files of the agents, backups next to them, service files | install, uninstall, quickstart, status, plan | operators |
| Remaining CLI: reports, policy and sandbox tools, updates, console | none that others read | one-shot | operators |

Interaction: a hook strips and adds fields of a call and sends it to the daemon
over a Unix socket; if no socket answers it decides by itself, against the same
files. The daemon holds one mutex for the whole of a decision or a reload, the
webhook delivery included, so inside it nothing interleaves. Between processes
only SQLite orders anything: the inbox, the dead letters and the log are plain
files opened for append. An operator's command changes a store and then appends
an audit event, as two steps. The console reads the log, or an index of it.
Setup commands rewrite files that agents and their users edit too.

What is hard in this code, and the properties that answer it, is listed line by
line under `hazards` in `PROJECT.json`. In short:

* **Consume is a deferred transaction.** Its SELECT reads a snapshot, its UPDATE
  writes what the SELECT saw without testing the row again. That it is safe
  rests on SQLite refusing to let a stale reader write.
* **Check, then append.** `record_request` and `resolve` replay the inbox and
  append without a lock in between, and approve looks twice, before it mints and
  after; a callback looks once more, when it verifies.
* **Two writes per line.** Everything appended to the log, the inbox and the
  dead letters is a line and, separately, its newline.
* **Evidence after the fact.** A reload installs, logs and records in that
  order; grant, confirm and revoke store and then log; approve mints, resolves
  and then logs; a delivery is reported when it is over. Each can stop between
  two of its steps.
* **Who answers?** The socket path may name a daemon that serves, one that only
  waits for its mutex, one that has died, or nobody. Hooks, the probe of another
  daemon and the shutdown all have to tell these apart.
* **One text, many readers.** Mapper, hard-stop scanner and hook adapter each
  take the same command line apart, through quotes, heredocs, substitutions and
  `sh -c`. The console counts the same log twice, in SQL and in JSON. Installer,
  uninstaller, status and plan each look for Gommage's hook.
* **Three reads of a growing file** stand behind one index.

## The modules

| Module | Models | Composes | Checked by | Proved in |
|---|---|---|---|---|
| `PictoLedger` | what the store promises: numbered tickets, each served once | | through `ImplementsLedger` | |
| `PictoStore` | the table, its transactions, the deciders, the grant commands | | `MCPictoStore` | `PictoStoreProofs` |
| `ApprovalInbox` | the inbox file, filing processes, operators, callbacks | | `MCApprovalInbox` | `ApprovalInboxProofs` |
| `ApprovalWebhook` | senders, dead letters, their events | | `MCApprovalWebhook` | `ApprovalWebhookProofs` |
| `AuditLog` | the log file, its writers, the two walks | | through `StateIndex` | `AuditLogProofs` |
| `StateIndex` | rebuilds, the readers of index and log, the stream view | `AuditLog` | `MCStateIndex` | `AuditLogProofs` |
| `DaemonConfig` | start, guarded reload, fingerprint, socket | | `MCDaemonConfig` | `DaemonConfigProofs` |
| `HookPath` | hooks, the daemon's loop and mutex, daemons that come and go | | through `Gateway` | `GatewayProofs` |
| `Gateway` | the MCP proxy | `HookPath` | `MCHookPath` | `GatewayProofs` |
| `PolicyEngine` | loading of layered files, evaluation, bypass | | `MCPolicyEngine` | `PolicyEngineProofs` |
| `Shell` | the scanners of `shell.rs` | | through `ToolCalls` | |
| `CapabilityMapper` | rule files, candidates, matching, templates | `Shell` | through `ToolCalls` | |
| `HookInput` | what an adapter adds to a call | `CapabilityMapper` | through `ToolCalls` | |
| `ToolCalls` | an agent composing command lines; the hard-stop scanner | `HookInput` | `MCToolCalls` | |
| `HostSetup` | install, quickstart and uninstall over shared files | | through `SetupReports` | `HostSetupProofs` |
| `SetupReports` | agent status and the quickstart plan | `HostSetup` | `MCHostSetup` | `HostSetupProofs` |

`map` in `PROJECT.json` gives the source lines of every definition. A definition
whose comment begins "Faulty variant" is a plausible bug put beside the
definition it would replace; no specification uses it. It serves to show that a
property notices the bug.

### PictoStore and PictoLedger

A decider is a process that runs `decide_and_audit` or `decide_with_pictos`. Its
steps are the statements after which another process can act: `Find`
(`find_verified_match`), `BeginConsume` (BEGIN, SELECT), `Write` (UPDATE),
`Commit`, `RecordConsumed` (the `PictoConsumed` event), `AnswerAllow`. SQLite is
modelled by what the code relies on. `lock` is the WAL write lock. `stale` holds
the deciders whose open snapshot is older than the last commit. A `Write` with
the lock taken or the snapshot stale is an error that ends the decision: the
busy handler is not called for a connection that already reads, so this does not
wait. A statement outside a transaction (grant, confirm, revoke, sweep) waits
for the lock and acts on the newest row. `now` is read once per decision and
used by lookup and consume alike, as in the code, so a decision may consume a
row that has expired meanwhile but not one that had expired when it began.
`signed` abstracts the signature: a row verifies or does not. `Crash` stands for
a killed process and for an audit append whose error abandons the decision.
`owed` holds events of commands between their store write and their append.

`PictoLedger` knows no process, clock or transaction. Grants issue numbered
tickets up to a limit while they are open, and a ticket is served at most once.
The mapping sends `uses` to tickets issued and answered allows to tickets served.

### ApprovalInbox

The file is a sequence of records, and the state of a request is a function of
it (`StatusOf`, `BornOf`), as `replay` computes it: the first `Requested` record
makes an entry, each later `Resolved` record overwrites its status. A request id
is a tuple and a suffix; the suffix of a reopened request is the clock in
windows of 2^16 ms, because the code keeps the first 8 of the 12 hex digits of a
UUIDv7's millisecond clock. `LastWindow` bounds that clock. An operator's
command is its sequence of calls: approve reads, mints, checks again, appends,
and logs twice; deny and each denial of a sweep check, append and log.

`approval callback` is one more way to answer. Any form may be handed in: a
signature that is genuine or not, in time or not, a nonce of this request or
another. The nonce is an unkeyed hash of the request's fields, which the file and
a dry run show, so nothing is assumed of who knows it; a form may also be handed
in twice. `VerifyCallback` is what `verify_webhook_body` and the nonce and status
checks accept; `ActOnCallback` then goes through `approve_request` or
`deny_request` like any other answer, which read the request again. `split` is
history: the requests on which two answers overlapped, or one broke off after its
mint.

### ApprovalWebhook

Three senders deliver: the daemon and the in-process fallback, each for the
request it has just filed or found pending for the same call, and `approval
webhook`, for all that are pending, with an audit log or without (`audited`).
`Post`
is one attempt, which may reach the endpoint and still count as failed. The last
failure goes to the dead-letter file in two writes (`AppendLine`,
`AppendNewline`). The three report differently, and so do `DaemonReports` (a
failed append is a warning), `FallbackReports` (an error) and `CliReports` (ends
the command). `told` is what the endpoint knows. `ended` and `hit` are history:
the deliveries that are over, and those a failed append or a kill fell on.
`NothingIsLost` asks of every delivery in the first and not in the second that it
is at the endpoint or in the file and that the log says which, and of every event
in the log that it is true.

### AuditLog and StateIndex

The file is a sequence of lines, a line a sequence of fragments, each a whole
record or the beginning of one. `WriteLine` and `WriteNewline` are the two
`write_all` calls, both at the end of the file (`O_APPEND`). `Abort` cuts an
append short before, in or after the line; `Damage` changes an entry in place.
Each entry carries the clock its writer read before it wrote. `VerifyLog`,
`Malformed`, `BadSignature` and `TimestampOutOfOrder` are what `verify_log` and
`explain_log` report. `crossed` and `overtaken` are history: they count the lines
written between another writer's line and its newline, and the appends that
passed one with an older clock. The walks are written as what they report: the
lines that hold something (`Written`), those of them that parse (`Parsed`), and for
a timestamp the line that parsed before it (`Precedes`).

A rebuild reads the log three times (`ReadBytes` and `StatLog` for the
fingerprint, `Explain`, `ReadRecords`) and commits the rows under the
fingerprint it took first. The readers come in pairs: `Counters` and
`AuditMetrics`, `LoadRecentItems` and `RecentItems`, the first from the index,
the second from the log; both take the lines in the order of the file
(`InOrder`). A view checks the index (`CheckIndex`) and loads it (`LoadItems`)
over another connection, or asks the daemon, or scans the log.

### DaemonConfig

`disk` is the content of the configuration files as a fingerprint, `loaded` what
a daemon holds, `recorded` the content of `config.fingerprint`, with `None` for
missing and for empty since the code reads both the same way. A start loads,
notes drift, truncates and fills the record, probes, unlinks, binds. A reload
reads once, looks a `harness.configure` picto up, consumes it, logs, installs,
logs again and records. `Find` and `Consume` may fail on the store, and on a row
whose signature no longer verifies (`Damage`, from outside the program) both
reject. `Fault` spends one of `MaxFaults` failed appends, failed store calls or
kills. `served` and `overlap` are history: the configuration last
put into service, and whether two daemons ever ran side by side.

### HookPath and Gateway

A caller is a hook process. It parses its payload, connects, and waits, or
decides by itself when the socket is missing or refuses; any other failure to
connect is a denial. Its `task` is what is
done for the call and goes through the same steps on either side: `Evaluate`
(with the use of a grant and its event), `Notify` (webhook attempts), `Record`,
`Reply`. In a daemon it is queued, accepted, and waits for the mutex before. The
loop of the daemon accepts, reloads on SIGHUP and stops on SIGTERM in one
`select!`; a reload waits for the mutex in the loop, so meanwhile nothing is
accepted (`Held`). `Probe` gives up after 500 ms, which is exactly when the other
daemon is held. `Terminate` closes the listener and every connection but the one
whose decision runs, which the runtime waits for. The inside of a reload is
`DaemonConfig`'s, of a consume `PictoStore`'s, of a delivery `ApprovalWebhook`'s;
here each is one step with its outcomes.

`Gateway` reads a client's lines in order, has each `tools/call` decided as a
caller of `HookPath`, forwards what may pass and waits for one line per request
that has an id. A line that does not parse ends the gateway; so does a server that
has gone (`ServerEnds`, `Hangup`) and the end of the client's input, which may come
before any line (`Finished`); the exit status it ends with is left out. The server
may put a notification in front of an answer.

### PolicyEngine

A glob is the set of capabilities it matches, or `BadGlob`, which does not
compile; `broken` files cannot be read or are not YAML (`ParseFails`).
`HardStops` is the set the compiled-in patterns and the shell scanner recognise.
Loading and evaluation are stepped through rule by rule as the loops of the code
do; `FirstMatchWins` and `LoadIsAllOrNothing` say without loops what they
compute.

### Shell, CapabilityMapper, HookInput, ToolCalls

A command line is a sequence of tokens: operators, quotes, blanks, and names
standing for any run of other characters. Each scanner of `shell.rs` is a fold
over the tokens with the state the code keeps (quotes, escape, where it stands).
A mapper rule's pattern is an anchored prefix, its capture what follows, a
template a list of parts. A call's input is a function from fields to texts.

`ToolCalls` lets an agent build a line step by step: chain, pipe, put into the
background or a group, substitute, wrap in `bash -c` or quotes, feed through a
heredoc as data or as a program. Beside the text it keeps what a shell would make
of it: the commands and redirections that run with their depth, the paths written,
the commands that are only data. `how` says by which road a command or a write got
there: `plain`, or one of the shapes the scanners are known not to see, `joined`
(by `&` or a group), `quoted` (a substitution between single quotes in a heredoc
body with a bare delimiter), `clobber` (`>|`, whose `|` splits the line) and
`covered` (a write verb whose redirection stands behind its operands). The
properties compare that with what the adapters, the mapper and
the hard-stop scanner (`SemanticHit`) find in the text. The specification of the
shell's side is not the program's and is marked external.

### HostSetup and SetupReports

A command is a list of tasks over Claude's settings, Codex's `hooks.json` and
`config.toml`. Changing a file is four steps: read it, copy it aside, truncate it,
write it. An edit by the user or the agent, or the end of the process, may come
between any two. A hook group is what the code tells apart: a command of the
user's or not, whether its text contains "gommage", the tools its matcher names;
Codex keeps groups in one of two places. `flow` carries what one task tells the
next (agents restored, a Codex hook removed), `kept` is quickstart's snapshot.
A quickstart takes any agents in either order, with or without the import of
native rules, the service and the self-test; an error in its policy load or
self-test ends it without a rollback, a failed check with one. `uninstall` takes
any choice of agents, daemon, home, binaries and backups, in the order of the code.
`SetupReports` adds `agent status` and the plan of `quickstart --dry-run`, with
the actions it announces, as functions of the same files.

## The runs

| Run | Instance | States | What it shows |
|---|---|---|---|
| `picto_race` | 3 deciders, one grant of at most 2 uses, expiry | 921,129 | no double spend, allows audited first, log true, final rows final, ledger implemented |
| `picto_calls` | 2 deciders, 2 scopes, one input, fair handlers | 136,053 | an allow rests on a grant of its scope and binding, a decision under way ends |
| `inbox_shared` | 2 processes, 2 operators, 3 records, 2 pictos | 403,985 | resolved stays resolved, approvals have pictos, the log is backed, sweeps spare fresh requests, answers apart from each other answer once |
| `webhook` | 2 requests, 3 senders, 2 attempts, 2 faults | 4,783,101 | an outage stays an ask, deliveries no fault fell on are accounted for, dead letters read back |
| `state_index` | 2 writers, 3 records, 2 rebuilds, 1 view | 1,094,339 | lost entries and reversed clocks have a cause; a current index is the log; console numbers do not depend on their source; views are of the log |
| `daemon` | 2 daemons, 3 contents, 1 grant, 1 fault | 1,957,350 | a change is paid for and audited; record and drift are right while nothing disturbs |
| `hook_path` | 1 hook, a gateway with 4 lines, 2 daemons, 1 fault | 643,875 | allows are logged first, nothing is decided twice, refused calls stay behind, every hook answers |
| `calls` | 15 commands, up to 2 compositions; patches of up to 3 lines | 85,614 | the shapes the scanner splits hide nothing that runs, and none invents what does not |
| `engine_all` | all pairs of one-rule policies, and more, over 3 capabilities; bad globs, broken files | 254,919 | hard stops, first match, atomic load |
| `setup` | 2 commands, 1 edit by others, 1 cut short, 3 homes | 2,648,609 | users' hooks survive, no hook of an agent uninstalled with the binaries outlives them, rollback exact, reports true |
| `hook_takeover` | 1 hook, 2 daemons, nothing fails | violation | a daemon that waits for its mutex loses its socket to another one |
| `bare_bodies` | the instance of `calls`, one command | violation | a substitution the shell expands is passed over in a heredoc body |

The last two state what a comment of the code says, and TLC finds it violated.
In `hook_takeover` (`gommage-daemon/src/main.rs:105-108`) a hook's delivery
holds the mutex, a SIGHUP makes the loop wait for it, a second daemon probes for
500 ms, hears nothing and unlinks the socket. `hook_path` includes that
situation; what it shows holds all the same. In `bare_bodies`
(`gommage-core/src/shell.rs:171-174`) the scanner for substitutions takes single
quotes in a heredoc body for quotes.

**Bounds.** Three deciders and two uses are the smallest instance in which a
stale reader, a lock holder and a finished decision meet on a row that is not
spent by the first consume. `MaxTtl` and `Horizon` of 1 suffice for a row to
lapse between a lookup and a consume; `picto_calls` leaves time out and tells
scopes and bindings apart instead, and what `AllowMatchesGrant` says of expiry
is left to its theorem. In the inbox, three records are a request,
its resolution and a request filed again; two windows are one change of the
suffix; two pictos are one too many. Three senders and two requests let each
pair of senders meet on a request and on the dead-letter file; two attempts are
one retry, and two faults fall on two deliveries, with others beside them. Three
log records let an append be crossed and a third follow; the second rebuild is
one that meets an index. Two daemons and one fault reach every refused socket,
failed append and kill, and two contents that load and one that does not give a
reload every comparison it makes. In `hook_path` one hook and one gateway give a
daemon two connections, so that one waits for the mutex the other holds, and its
successor finds both; its four lines are a call that cannot be read, a call
without an id, another request and a line that does not parse. Two compositions
around a command reach every pair of wrappers, one more level than
`MaxCandidateDepth`, which is 1 there and 3 in the code. Two setup commands are
an install and an uninstall, or two installs, in every order. The bounds are
`CONSTANTS`, and the theorems below hold for every value; only
`ViewsAreOfTheLog` keeps the one rebuilder of the run.

**Deadlock.** `picto_race`, `picto_calls` and `daemon` check for it:
somebody can always act. The others stop when their records, lines, commands or
steps are used up, and `PolicyEngine` at its verdict.

**Symmetry** is used where no liveness is checked, over deciders, writers,
processes, operators, daemons and requests, which differ in nothing but their name.

**Fairness.** `picto_calls` assumes weak fairness of one decider's handler steps. A
handler runs to its end without awaiting anything but SQLite, and its SQLite
calls return an error instead of waiting once the transaction has begun.
`hook_path` assumes weak fairness of each hook, of each task, of the reloads and
shutdowns of daemons and of the gateway: threads that can run are run, curl is
given a timeout for each attempt, and an agent's server answers. Nothing is
assumed of operators, the clock, crashes, the arrival of calls, or of anybody
who starts, signals or stops a daemon; killed processes take no more steps.

**What the properties excuse.** `DeadLettersReadBack` speaks of files without a
cut or crossing append: an entry behind a torn one is lost with it. `OthersKept`
does not speak of edits that fall into a command, restores or purged backups,
nor `NoDanglingHook` of what a restore put back (see the findings). `uninstall
--binaries` leaves the hooks in place on purpose (the test at
`gommage-cli/tests/cli_host_cleanup.rs:660` names no agent), so `NoDanglingHook`
speaks of the agents an uninstall names beside the binaries, and of no others.
`RecordedIsServed` and `DriftIsEvident` hold while nothing fails and no second
daemon starts: `fs::write` empties `config.fingerprint` before it fills it, and
a daemon that is refused the socket has overwritten the running one's record.
`ViewIsOfTheLog` has one rebuilder: two can leave an older index between a
view's check and its load. `AnsweredOnce` leaves out requests on which two
answers overlapped or one broke off, `NothingIsLost` the delivery a fault fell
on: what is left of that is the pending request. `ReportsAgree` holds a plan to
its word where it shows a matcher; with an empty one (`permissions.allow: []`)
the installer warns and writes nothing, which is a finding.
`CapabilitiesSurvive` and `HardStopsSurvive` are about commands chained by `;`,
`&&`, `||`, `|` or a line's end, substituted, quoted, wrapped or fed to a shell.
`shell_segments` splits neither at a single `&` nor at parentheses, and what
stands behind one is part of the segment before it. They leave out the quoted
bodies of `bare_bodies` too. `WritesHaveContext` leaves out `>|` and, another
finding, verbs with a redirection behind them; it ends at the code's 16
contexts, beyond which contexts are dropped without a mark. Patch paths beyond
the limit are marked (`PatchIsVisible`). `AllowMatchesGrant` is about one
lookup: a row never changes its scope. `SourcesAgree` and `DeadLettersReadBack`
speak of a current index and of a file nothing has disturbed. `DataIsInert`
leaves out heredocs on a line that names an interpreter, which the code does not
mask on purpose.

## Findings

`findings` in `PROJECT.json` quotes for each the sentence that disagrees.

| Where | What |
|---|---|
| `gommage-daemon/src/main.rs:195` | a daemon that is only busy is taken for dead (`hook_takeover`) |
| `gommage-daemon/src/main.rs:117` | two starting daemons can each unlink and bind |
| `gommage-daemon/src/main.rs:347` | a reload reported as failed has taken effect |
| `gommage-daemon/src/main.rs:656` | a dead letter that cannot be written leaves no event |
| `gommage-core/src/approval.rs:275` | a request reopened twice within 65.5 s gets an id that is already resolved and is never pending |
| `gommage-audit/src/lib.rs:247` | two writers can put two entries on one line |
| `gommage-audit/src/lib.rs:223` | two honest writers can produce a timestamp reversal |
| `gommage-cli/src/agent_uninstall.rs:98` | a restore of one Codex file ends the uninstall of both |
| `gommage-cli/src/state.rs:187` | `state stats` compares sizes and speaks of a match |
| `gommage-core/src/shell.rs:30` | a redirection behind `cp a f` hides the target from the branch context |
| `gommage-core/src/shell.rs:973` | quotes in a heredoc body hide a substitution that is expanded (`bare_bodies`) |
| `gommage-cli/src/agent.rs:264` | with an empty `permissions.allow` the plan announces a hook that is not installed |
| `gommage-cli/src/input.rs:250` | the context of a shell call is added under one of its names only |

**Smaller disagreements**, which the models can produce or which showed while
reading:

* A decision fails although its picto is usable when another write commits
  between its SELECT and its UPDATE (`gommage-core/src/picto.rs:589`; its header
  says "if a picto matches, the call passes").
* Two processes that replay before either appends leave two pending requests for
  one call (`approval.rs:119`).
* An approval and a denial that cross are both appended, and the last one wins
  (`approval.rs:164`). A denial between the mint and the resolution of an approval
  leaves a denied request with an active picto (`gommage-cli/src/approval_cmd.rs:711`).
* The entry that follows a cut append is acknowledged and unreadable
  (`gommage-audit/src/lib.rs:247`).
* A rule without positive clauses decides a call for which no capability was
  derived (`evaluator.rs:108-109` says that no rule can).
* The gateway takes the server's next line for the answer: a notification in
  front of it shifts all later answers by one (`gommage-mcp/src/main.rs:242`).
* `load_counters` runs its SELECTs without a transaction: a commit in between
  gives counters of two indexes (`gommage-cli/src/state.rs:513`).
* A backtick glued to the reader's name hides it from the chunks of a line, so
  that heredoc bodies are masked by the other names on it (`shell.rs`).
* `gommage-mcp` does not set `__gommage_home`, the CLI's hook does; git contexts
  beyond the sixteenth are dropped without a mark, patch paths are not.
* `harness.rs` reads Codex's hooks from one of their two places; removed native
  allow rules stay in the imported policy file; status calls the import ok when
  the file merely exists.

## The proofs

Checked by TLAPS for every value of the constants: any number of deciders,
daemons, hooks, senders, writers, files, commands, failures. The assumptions are
those named in the modules. Counters and limits are natural numbers
(`BoundsAssumption`, `InboxBounds`, `WebhookBounds`, `AuditBounds`,
`DaemonBounds`, `HookBounds`, `SetupBounds`), and the attempts of a delivery are
the 1 to 10 the code allows. Marks such as `None` are none of the data
(`NoneAssumption`, `NoInputAssumption`, `NoneIsNoValue`, `NoneIsNoNumber`,
`MarksAreNoDocuments`). Daemons and requests are finite sets
(`DaemonsAreFinite`, `RequestsAreFinite`). `None` is no kind of record
(`NoneIsNoKind`), and some tool is mapped (`ToolsAreMapped`): both matchers of
`agent.rs` start from fixed lists (`agent.rs:13`, `agent.rs:588`). Policies are
sequences of sequences of raw rules (`EngineAssumption`), homes hold documents
of their kind (`HomesAreTyped`). `IdsTellCallsApart` says that the ids of the
model, which stand for calls and not for anything the code assigns, number a
client's lines in order and tell any two calls apart.

| Theorem | Statement |
|---|---|
| `TypeCorrect` | `Spec => []TypeOK` of `PictoStore` |
| `NoDoubleSpend` | `Spec => []OneCallPerUse` |
| `AllowsMatch` | `Spec => []AllowMatchesGrant` |
| `AuditIsComplete` | `Spec => []AllowsAreAudited` |
| `AuditIsSound` | `Spec => []AuditIsTrue` |
| `TerminalRowsAreFinal` | `Spec => TerminalIsFinal` |
| `UsesAreBurnedInOrder` | `Spec => UsesBurnInOrder` |
| `StoreImplementsLedger` | `Spec => ImplementsLedger` |
| `ResolvedForGood` | `Spec => ResolvedStaysResolved` |
| `ApprovalsHavePictos` | `Spec => []ApprovedHasPicto` |
| `ResolutionsAreBacked` | `Spec => []AuditBacked` |
| `SweepsSpareFresh` | `Spec => []SweepSparesFresh` |
| `AnswersAreSingle` | `Spec => []AnsweredOnce` |
| `OutagesKeepTheAsk` | `Spec => []OutageKeepsAsk` |
| `DeliveriesAreKept` | `Spec => []NothingIsLost` |
| `DeadLettersAreReadable` | `Spec => []DeadLettersReadBack` |
| `LossesHaveCauses` | `SSpec => []LossHasACause`, with rebuilds and views beside the writers |
| `ReversalsHaveCauses` | `SSpec => []ReversalsAreOvertakings` |
| `CurrentIndexHoldsTheLog` | `SSpec => []CurrentIndexIsTheLog` |
| `IndexAndLogAgree` | `SSpec => []SourcesAgree` |
| `ViewsAreOfTheLog` | `OneRebuilder => (SSpec => ViewIsOfTheLog)` |
| `ReloadsArePaid` | `Spec => []ActivationIsPaid` |
| `ChangesAreLogged` | `Spec => []ChangeIsAudited` |
| `RecordIsTrue` | `Spec => []RecordedIsServed` |
| `DriftIsTold` | `Spec => []DriftIsEvident` |
| `AllowsAreLogged` | `GSpec => []AllowIsLogged`, gateway and hooks together |
| `DecisionsAreUnique` | `GSpec => []DecidedOnce` |
| `RefusedLinesStay` | `GSpec => []RefusedStaysBehind` |
| `EngineTypeCorrect` | `Spec => []TypeOK` of `PolicyEngine` |
| `HardStopsAreFinal` | `Spec => []HardStopsAlwaysDeny` |
| `EarlierRulesWin` | `Spec => []FirstMatchWins` |
| `LoadsAreWhole` | `Spec => []LoadIsAllOrNothing` |
| `OthersAreKept` | `Spec => []OthersKept` |
| `RollbacksAreExact` | `Spec => []RollbackIsExact` |
| `NoHookDangles` | `Spec => []NoDanglingHook` |
| `ReportsOnlyRead` | `RSpec => Spec` of `SetupReports` and `HostSetup` |
| `ReportsAreRight` | `RSpec => []ReportsAgree` |

Few of the properties are inductive. Each proof strengthens its property with
what the code keeps true between the steps the property speaks of; the
strengthenings were checked by TLC on the instances of the runs, then proved.

*The store.* A decider about to
write could, for all they say, hold a snapshot that has nothing to do with the
row. `IInv` adds what is needed. `TypeInv` says what each local holds at each step.
`SyncInv` says that a decider at `write` whose snapshot is not stale has read
exactly the current row, that the decider at `commit` holds the lock and so does
too, and that nobody else is at `commit`. `MatchInv` carries the call's scope and
binding from the lookup to the burned use; rows never change their scope, so what
the lookup tested the consume need not test again. `AuditInv` relates tickets,
events owed and events logged. The proof has one step per action; `Commit` is
the interesting one, since there the row moves and every other open snapshot
becomes stale. The action properties and the refinement follow from the same
invariant, step by step.

*The inbox.* Every property speaks of what replay makes of the file, and the
file only grows (`LogGrows`). So the proofs rest on lemmas about one append:
`PositionsAfter` says which records of an id replay looks at afterwards,
`BornAfter` that a request keeps its age, `StatusAfter` that a resolved one does
not become pending. First and last records are chosen, so they must exist:
`EndsInv` says they do, in the place of an induction over the file. `PictoInv`
carries an approval's picto from `Mint` to the record that names it, `BackedInv`
the record from its append to its event, `SweepInv` adds to the age of what a
sweep has left that it is a known request. For `AnswersAreSingle` (`AnswerInv`),
an answer between its look and its append is the only one on its request, or the
request is in `split`: so at the append the request is still pending, and a
picto on its way is the only one. `MaxLog`, `MaxPictos` and `LastWindow` are
arbitrary numbers.

*The engine.* `LoopInv` says that every compiled rule has passed `compile_rule`
and that rules are tried only for calls that hit no hard stop and are not
bypassed. That gives the absence of a scopeless `ask_picto` verdict, where
`decision_from_rule` would panic, and the finality of hard stops. `OrderInv`
adds that the compiled rules are those of the files up to where the load stands,
in the order of files and places, that no file passed is broken and no rule
passed has a bad glob, and that the rules passed over did not match: what is
left at the verdict is the first match.

*The webhook.* `OutageInv` says that only the fallback's own report can end its
ask with an error, `MailInv` that a sender that reports has sent, or filed, or
been hit by a fault, that a delivery that ended otherwise is accounted for, and
that neither an event once true nor an account once given is taken back.
`FileInv` says of the dead letters that every entry but the last is followed by
its newline, and that the last one's sender is about to write it; without a
failure or a crossing the lines read back.

*The log.* The inequality of `LossHasACause` alone is not kept: after an abort a
fragment without a newline waits, and only the next acknowledged entry is lost
to it. `LossInv` counts that entry in advance (`Debt`), counts as lost what no
closed line of its own holds, and so moves by at most what each action adds to
`aborted`, `crossed` and `damaged`. The cardinality of a set that grows by one
element is all the arithmetic there is. `TurnInv` bounds by `overtaken` the lines
whose writer overtook another: an older entry stands after them or is about to be
written. A reported reversal has such a line, so without an overtaking there is
no report.

*The index.* `CopyInv` says what the metadata, the hash and the records a rebuild
holds at each step, and those of the committed index, have to do with the log.
The file only grows, or a damage is counted (`Grows`), so metadata taken earlier
that equals the file's now means that nothing was written since (`Older`,
`StatMoves`): a rebuild that read something in between has read the same. What
passes for current was therefore free of critical errors and has the rows of
every line. That readers of either source agree follows from the
order of the rows: `InOrder` enumerates the lines it is given once each, shown by
cardinalities (`InOrderIsAll`), so counting rows is counting lines
(`CountersAreMetrics`) and the streams have the same items (`StreamsAreTheSame`).
`ViewInv` holds the rows to the log from a view's check to its load. With two
rebuilders an older index may be committed between the two, in the code too; so
`OneRebuilder` is a hypothesis of `ViewsAreOfTheLog`, as the run has one.

*The daemon.* `Shape` says which daemons listen and what each holds at each
step. `GrantInv` says that a grant is in one place: usable, gone, held by the
one daemon about to install, or spent. `ChangeInv` relates a daemon's step in a
reload to what it serves and what the log holds. `SoloInv` (daemons that never
overlapped are alone) and `QuietInv` (what the record says at each step,
undisturbed) give the two theorems about `config.fingerprint`. A row that no
longer verifies only takes a grant away.

*Path and gateway.* `AllowInv` follows an allow from its use over its log entry to
the answer, on whichever side it is decided. `IdInv` and `OnceInv` say whose calls
are whose, and that a call still to be evaluated has nothing in the log: a hook
falls back only from a socket that has not taken its call. `PassInv` says that
what was forwarded is logged as allowed and precedes what is still to be read,
whatever ended the gateway.

*Host setup.* `Shape` types the files and the task list: a list ends with its
report and is one of rollbacks or holds none, and a draft is a document for the
file it will go to. `UserInv` says that from the copy aside until the write the
groups of the user's are in a backup. `RollInv` says that a snapshot not yet
back is a task still to come. `CleanInv` says where in a list the binaries may
stand: after a removal for each file that still has a hook of an agent the
command names, and before nothing but a purge; files a restore put back are set
aside. An edit can come between any two of these steps, and never adds a hook.
`RollbackList` shows that the rollback takes each snapshot whatever enumeration
of the files it is given. The reports need to know how a setup got there.
`SetupInv` says that each file of the agents is still to be written by a task of
the list or is as a finished setup leaves it (`Done`), with one agent or both in
the list. `PlanInv` says that what a quickstart finds, or is about to write,
fits the plan it showed, and that the permissions are imported, if they are to
be, once the hook's task has read its file. Neither says anything of a command
during which a user edited (`raced`). `DoneIsReported` is what the readers make
of such files.

*Only model-checked:*

* `DecisionEnds` and `HookAnswers`: liveness under fairness is beyond the prover.
* The properties of `ToolCalls`: the scanners are recursive operators, which the
  prover does not support.

`TypeCorrect`, `UsesAreBurnedInOrder`, `EngineTypeCorrect` and `ReportsOnlyRead`
state what no run repeats.

## What is not modelled

* Text below tokens: globs, regular expressions, YAML, characters of words, JSON,
  canonical encodings. Where a decision depends on them they are a parameter (a
  glob is a set, a pattern an anchored prefix, a signature a Boolean, a
  configuration a fingerprint).
* In `ToolCalls`: unbalanced quotes, process substitution, script options glued to
  sed's flag.
* Cryptography and key generation; two processes that start in an empty home both
  generate a key (`runtime.rs:147`). A row or line verifies or does not.
* Power loss below SQLite (`synchronous = NORMAL`) and below the file system.
* A torn line in the inbox, which makes every replay an error: `ApprovalInbox`
  appends whole records, `AuditLog` shows how such a line comes to be.
* The configuration files one by one: `DaemonConfig` reads them in one step.
* In `HostSetup`: skills, harness reports, legacy hook commands, the
  `sandbox_mode` line, `--daemon-force`, an agent named twice to a quickstart;
  launchd and systemd themselves.
* In `StateIndex`: vacuum and the removal of `-wal` and `-shm`; every write is
  assumed to change the modification time.
* `find_match`, `consume` of `picto.rs`: no command calls them.
* The update check, the approval evidence and templates, the policy, posture,
  sandbox and map commands, the reports, and the layout and keys of the console:
  one-shot readers and renderers without state that others use.

## Plan

Done: everything in the table of modules. Left, in order:

1. `Breakglass`: the store and the inbox composed, from the ask through approve to
   the retry that consumes. Property: what is consumed was approved for that call.
2. `SharedJournal`: the inbox on top of the two-write append, with torn lines that
   make the replay fail, and the configuration files read one by one.

Of the present runs' properties, what no theorem states is what the prover cannot
reach: the two liveness properties and those of `ToolCalls`.
