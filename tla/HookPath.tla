------------------------------ MODULE HookPath ------------------------------
(***************************************************************************)
(* A tool call on its way to a decision and back: the hook process         *)
(* (gommage-cli/src/mcp.rs, gommage-mcp/src/main.rs) asks the daemon over  *)
(* its socket, or decides by itself when there is none; the daemon         *)
(* (gommage-daemon/src/main.rs) accepts connections, serves one decision   *)
(* at a time under its mutex and delivers the approval webhook inside it;  *)
(* daemons are started, stopped and killed meanwhile.                      *)
(*                                                                         *)
(* A caller's task is what is done for its call, by a daemon or by itself. *)
(***************************************************************************)
EXTENDS Integers, Sequences, FiniteSets

CONSTANTS
  Callers,    \* hook processes, each with one call
  Daemons,
  CallsOf,    \* the calls a caller may start with
  Codex,      \* callers that run as `gommage hook --agent codex`
  MaxUses,    \* uses of the one grant an ask can be paid with
  Attempts,   \* GOMMAGE_APPROVAL_WEBHOOK_ATTEMPTS, clamped to 1..10
  MaxStarts, MaxHups, MaxFaults,  \* bounds on starts, SIGHUPs and failures
  None

\* What evaluation makes of a call; whether its payload parses; whether it is
\* made under GOMMAGE_BYPASS.
Call == [id : Nat, verdict : {"allow", "deny", "stop", "ask"},
         parses : BOOLEAN, bypass : BOOLEAN]

ASSUME HookBounds ==
  /\ CallsOf \in [Callers -> SUBSET Call] /\ Codex \subseteq Callers
  /\ {MaxUses, MaxStarts, MaxHups, MaxFaults} \subseteq Nat /\ Attempts \in 1..10
ASSUME NoneIsNoValue ==
  None \notin Daemons \union {"allow", "ask", "deny", "stop", "error"}
    \union {"queued", "lock", "eval", "notify", "append", "reply", "closed"}

VARIABLES
  call,     \* a caller's call
  pc,       \* a caller: idle, connect, wait, decide, done, killed
  answer,   \* what it told its agent
  at,       \* the daemon it is connected to
  task,     \* queued, lock, eval, notify, append, reply, closed; None
  result,   \* what the task came to
  tries,    \* webhook attempts that failed
  life,     \* a daemon: down, probe, unlink, bind, serve, hup, stop
  sock,     \* whose listener the socket path names
  mutex,    \* the caller whose task holds a daemon's state
  uses,     \* uses left of the grant
  log,      \* the audit log: decisions and consumed uses
  starts, hups, faults

callers == <<call, pc, answer, at, task, result, tries>>
daemons == <<life, sock, mutex>>
vars == <<callers, daemons, uses, log, starts, hups, faults>>

Init ==
  /\ call \in {f \in [Callers -> UNION {CallsOf[c] : c \in Callers}] :
                 \A c \in Callers : f[c] \in CallsOf[c]}
  /\ pc = [c \in Callers |-> "idle"]
  /\ answer = [c \in Callers |-> None] /\ at = [c \in Callers |-> None]
  /\ task = [c \in Callers |-> None] /\ result = [c \in Callers |-> None]
  /\ tries = [c \in Callers |-> 0]
  /\ life = [d \in Daemons |-> "down"] /\ sock = None
  /\ mutex = [d \in Daemons |-> None]
  /\ uses \in 0..MaxUses /\ log = <<>>
  /\ starts = 0 /\ hups = 0 /\ faults = 0

Set(f, c, v) == f' = [f EXCEPT ![c] = v]
Fault == faults < MaxFaults /\ faults' = faults + 1

\* The socket has a listener behind it, whether or not it accepts just now.
Listening(d) == life[d] \in {"serve", "hup"}

Finish(c, a) == Set(pc, c, "done") /\ Set(answer, c, a)

---------------------------------------------------------------------------
(* The caller *)

\* run_mcp_bypass: hard stops deny, everything else is allowed, a payload that
\* does not parse too; the event is best effort.
Bypass(c) ==
  LET refused == call[c].parses /\ call[c].verdict = "stop" IN
  /\ pc[c] = "idle" /\ call[c].bypass
  /\ Finish(c, IF refused THEN "deny" ELSE "allow")
  /\ UNCHANGED <<call, at, task, result, tries, daemons, uses, log, starts, hups, faults>>

\* run_hook: what does not parse is denied before anything else.
Begin(c) ==
  /\ pc[c] = "idle" /\ ~call[c].bypass
  /\ IF call[c].parses
       THEN Set(pc, c, "connect") /\ UNCHANGED answer
       ELSE Finish(c, "deny")
  /\ UNCHANGED <<call, at, task, result, tries, daemons, uses, log, starts, hups, faults>>

\* is_missing_daemon is the rest: no file, or nobody listening behind it.
Reachable == sock # None /\ Listening(sock)

\* A connect that fails in another way, as every failure once connected, is an
\* error and denies.
Connect(c) ==
  /\ pc[c] = "connect"
  /\ \/ /\ ~Reachable
        /\ Set(pc, c, "decide") /\ Set(task, c, "eval")
        /\ UNCHANGED <<at, answer, result, faults>>
     \/ /\ Reachable
        /\ Set(pc, c, "wait") /\ Set(at, c, sock) /\ Set(task, c, "queued")
        /\ UNCHANGED <<answer, result, faults>>
     \/ /\ Fault
        /\ Finish(c, "deny") /\ Set(result, c, "error")
        /\ UNCHANGED <<at, task>>
  /\ UNCHANGED <<call, tries, daemons, uses, log, starts, hups>>

\* Faulty variant: the end of the stream is read as an empty line, and the next
\* line waited for.
LostConnectionIgnored(c) == FALSE /\ UNCHANGED vars

\* Faulty variant: a connection that ends without an answer counts as a missing
\* daemon, and the call is decided in the process.
LostConnectionRetried(c) ==
  /\ pc[c] = "wait" /\ task[c] = "closed"
  /\ Set(pc, c, "decide") /\ Set(task, c, "eval") /\ Set(at, c, None)
  /\ UNCHANGED <<call, answer, result, tries, daemons, uses, log, starts, hups, faults>>

\* "daemon closed without response": failed closed.
LostConnection(c) ==
  /\ pc[c] = "wait" /\ task[c] = "closed"
  /\ Finish(c, "deny") /\ Set(result, c, "error")
  /\ Set(task, c, None) /\ Set(at, c, None)
  /\ UNCHANGED <<call, tries, daemons, uses, log, starts, hups, faults>>

\* write_eval_decision: Codex knows no "ask".
AnswerFor(c) ==
  CASE result[c] = "allow" -> "allow"
    [] result[c] = "ask" /\ c \notin Codex -> "ask"
    [] OTHER -> "deny"

\* The agent gives its hook up; a daemon notices when it writes the response.
KillCaller(c) ==
  /\ pc[c] \in {"connect", "wait", "decide"}
  /\ Fault
  /\ Set(pc, c, "killed")
  /\ IF pc[c] = "wait" /\ task[c] # "closed"
       THEN UNCHANGED <<task, at>>
       ELSE Set(task, c, None) /\ Set(at, c, None)
  /\ UNCHANGED <<call, answer, result, tries, daemons, uses, log, starts, hups>>

---------------------------------------------------------------------------
(* handle_connection and handle_request *)

Own(c) == pc[c] = "decide"   \* decide_in_process_and_audit: no socket, no mutex

\* main's loop: accept, and spawn.
Accept(c) ==
  /\ task[c] = "queued" /\ life[at[c]] = "serve"
  /\ Set(task, c, "lock")
  /\ UNCHANGED <<call, pc, answer, at, result, tries, daemons, uses, log, starts, hups, faults>>

Lock(c) ==
  /\ task[c] = "lock" /\ mutex[at[c]] = None
  /\ Set(mutex, at[c], c)
  /\ Set(task, c, "eval")
  /\ UNCHANGED <<call, pc, answer, at, result, tries, life, sock, uses, log, starts, hups, faults>>

\* The response is made and the guard dropped; writing it comes after.
Respond(c, r) ==
  /\ Set(task, c, "reply") /\ Set(result, c, r)
  /\ IF Own(c) THEN UNCHANGED mutex ELSE Set(mutex, at[c], None)

Consumed(c) == [id |-> call[c].id, kind |-> "consumed", verdict |-> "allow"]
Decision(c) == [id |-> call[c].id, kind |-> "decision", verdict |-> result[c]]

\* decide_and_audit up to the answer: an ask takes a use of the grant, whose
\* event comes before the decision's, or files a request.
Evaluate(c) ==
  /\ task[c] = "eval"
  /\ \/ /\ call[c].verdict # "ask"
        /\ Set(result, c, call[c].verdict) /\ Set(task, c, "append")
        /\ UNCHANGED <<mutex, uses, log, faults>>
     \/ /\ call[c].verdict = "ask" /\ uses > 0
        /\ uses' = uses - 1 /\ log' = Append(log, Consumed(c))
        /\ Set(result, c, "allow") /\ Set(task, c, "append")
        /\ UNCHANGED <<mutex, faults>>
     \/ /\ call[c].verdict = "ask" /\ uses = 0
        /\ Set(result, c, "ask") /\ Set(task, c, "notify")
        /\ UNCHANGED <<mutex, uses, log, faults>>
     \/ /\ call[c].verdict = "ask" \/ Own(c)
        /\ Fault   \* a store, the event's append, or what Runtime::open reads
        /\ uses' \in IF call[c].verdict = "ask" THEN {uses, uses - 1} \intersect Nat ELSE {uses}
        /\ Respond(c, "error") /\ UNCHANGED log
  /\ UNCHANGED <<call, pc, answer, at, tries, life, sock, starts, hups>>

\* deliver_prepared_approval_webhook, one attempt at a time, the mutex held;
\* ApprovalWebhook tells what becomes of the outcome.
Notify(c) ==
  /\ task[c] = "notify"
  /\ \/ Set(task, c, "append") /\ Set(tries, c, 0)
     \/ tries[c] + 1 < Attempts /\ Set(tries, c, tries[c] + 1) /\ UNCHANGED task
  /\ UNCHANGED <<call, pc, answer, at, result, daemons, uses, log, starts, hups, faults>>

\* Faulty variant: a decision that cannot be logged is answered all the same.
RecordBestEffort(c) ==
  /\ task[c] = "append"
  /\ \/ log' = Append(log, Decision(c)) /\ UNCHANGED faults
     \/ Fault /\ UNCHANGED log
  /\ Respond(c, result[c])
  /\ UNCHANGED <<call, pc, answer, at, tries, life, sock, uses, starts, hups>>

\* AuditWriter::append; a decision that cannot be logged is an error.
Record(c) ==
  /\ task[c] = "append"
  /\ \/ log' = Append(log, Decision(c)) /\ Respond(c, result[c]) /\ UNCHANGED faults
     \/ Fault /\ Respond(c, "error") /\ UNCHANGED log
  /\ UNCHANGED <<call, pc, answer, at, tries, life, sock, uses, starts, hups>>

\* The line reaches whoever still reads.
Reply(c) ==
  /\ task[c] = "reply"
  /\ Set(task, c, None) /\ Set(at, c, None)
  /\ IF pc[c] = "killed" THEN UNCHANGED <<pc, answer>> ELSE Finish(c, AnswerFor(c))
  /\ UNCHANGED <<call, result, tries, daemons, uses, log, starts, hups, faults>>

---------------------------------------------------------------------------
(* Daemons come and go *)

Start(d) ==
  /\ life[d] = "down" /\ starts < MaxStarts
  /\ starts' = starts + 1
  /\ Set(life, d, "probe")
  /\ UNCHANGED <<callers, sock, mutex, uses, log, hups, faults>>

\* Accepts again only when it gets the mutex.
Held(d) == life[d] = "hup" /\ mutex[d] # None

\* socket_is_live: refused, or silent for 500 ms, is not live.
Probe(d) ==
  /\ life[d] = "probe"
  /\ \/ sock = None /\ Set(life, d, "bind")
     \/ sock # None /\ life[sock] = "serve" /\ Set(life, d, "down")
     \/ sock # None /\ (~Listening(sock) \/ Held(sock)) /\ Set(life, d, "unlink")
  /\ UNCHANGED <<callers, sock, mutex, uses, log, starts, hups, faults>>

Unlink(d) ==
  /\ life[d] = "unlink"
  /\ sock' = None
  /\ Set(life, d, "bind")
  /\ UNCHANGED <<callers, mutex, uses, log, starts, hups, faults>>

Bind(d) ==
  /\ life[d] = "bind"
  /\ IF sock = None
       THEN sock' = d /\ Set(life, d, "serve")
       ELSE Set(life, d, "down") /\ UNCHANGED sock
  /\ UNCHANGED <<callers, mutex, uses, log, starts, hups, faults>>

\* The SIGHUP arm waits for the mutex, and the loop with it.
Hup(d) ==
  /\ life[d] = "serve" /\ hups < MaxHups
  /\ hups' = hups + 1
  /\ Set(life, d, "hup")
  /\ UNCHANGED <<callers, sock, mutex, uses, log, starts, faults>>

\* reload_guarded, for which see DaemonConfig.
Reloaded(d) ==
  /\ life[d] = "hup" /\ mutex[d] = None
  /\ Set(life, d, "serve")
  /\ UNCHANGED <<callers, sock, mutex, uses, log, starts, hups, faults>>

\* The connections of a daemon end, but for those in `kept`; nobody waits for
\* those of a killed caller.
Close(d, kept) ==
  LET ends(c) == at[c] = d /\ c \notin kept IN
  /\ task' = [c \in Callers |->
       IF ~ends(c) THEN task[c] ELSE IF pc[c] = "killed" THEN None ELSE "closed"]
  /\ at' = [c \in Callers |-> IF ends(c) /\ pc[c] = "killed" THEN None ELSE at[c]]
  /\ UNCHANGED <<call, pc, answer, result, tries, uses, log, starts, hups>>

\* The socket file stays.
Die(d) ==
  Set(life, d, "down") /\ Set(mutex, d, None) /\ Close(d, {}) /\ UNCHANGED sock

\* SIGTERM or SIGINT ends the loop, and with it the listener; the runtime waits
\* for the thread that decides.
Terminate(d) ==
  /\ life[d] = "serve"
  /\ Set(life, d, "stop")
  /\ Close(d, {mutex[d]})
  /\ UNCHANGED <<sock, mutex, faults>>

Stopped(d) == life[d] = "stop" /\ mutex[d] = None /\ Die(d) /\ UNCHANGED faults

Kill(d) == life[d] # "down" /\ Fault /\ Die(d)

Work(c) ==
  \/ Accept(c) \/ Lock(c) \/ Evaluate(c) \/ Notify(c) \/ Record(c) \/ Reply(c)
Hook(c) == Bypass(c) \/ Begin(c) \/ Connect(c) \/ LostConnection(c)
Serve(d) == Start(d) \/ Probe(d) \/ Unlink(d) \/ Bind(d) \/ Hup(d) \/ Reloaded(d)

Next ==
  \/ \E c \in Callers : Hook(c) \/ Work(c) \/ KillCaller(c)
  \/ \E d \in Daemons : Serve(d) \/ Terminate(d) \/ Stopped(d) \/ Kill(d)

\* Processes that are not killed take their steps, and a daemon's reload and
\* shutdown end; nobody has to start a daemon, signal it or stop it.
Fairness ==
  /\ \A c \in Callers : WF_vars(Hook(c)) /\ WF_vars(Work(c))
  /\ \A d \in Daemons : WF_vars(Reloaded(d)) /\ WF_vars(Stopped(d))

Spec == Init /\ [][Next]_vars
FairSpec == Spec /\ Fairness
=============================================================================
