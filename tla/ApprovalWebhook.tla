--------------------------- MODULE ApprovalWebhook ---------------------------
(***************************************************************************)
(* Telling an endpoint about pending approval requests: the deliveries of  *)
(* approval_webhook.rs, the notify_* functions of the daemon and of the    *)
(* in-process fallback, and the command `approval webhook`.                *)
(*                                                                         *)
(* Three kinds of sender share the audit log, the dead-letter file and the *)
(* inbox, which are unlocked.  Filing and answering a request in detail,   *)
(* the signed callback included, is ApprovalInbox's: no sender looks at a  *)
(* request again once it delivers it, and one that is filed again after an *)
(* answer has another id.                                                  *)
(***************************************************************************)
EXTENDS Integers, Sequences, FiniteSets, SequencesExt

CONSTANTS
  Requests,
  Daemon, Fallback,  \* senders that have just filed a request of their own
  Cli,               \* `approval webhook`
  Attempts,          \* after the clamp to 1..10
  MaxFaults,         \* bound on failed file appends and on kills
  None

ASSUME WebhookBounds ==
  /\ Attempts \in 1..10 /\ MaxFaults \in Nat
  /\ Cli \notin {Daemon, Fallback} /\ Daemon # Fallback
ASSUME RequestsAreFinite == IsFiniteSet(Requests)
ASSUME NoneIsNoValue == None \notin Requests \union {"ask", "error", "unwritten"}

Senders == {Daemon, Fallback, Cli}

VARIABLES
  status,     \* of a request: unfiled, pending
  told,       \* requests whose payload reached the endpoint
  dlq,        \* the dead-letter file as it was written: entries and newlines
  crossed,    \* history: two appends to it overlapped
  log,        \* audit events about deliveries: [kind, request, by]
  audited,    \* `approval webhook` has a key, and an audit log it could open
  todo,       \* requests a sender still has to deliver
  stage,      \* idle, post, line, newline, report, done, failed
  tries,      \* attempts made for the first of todo
  outcome,    \* of the first of todo: delivered, deadlettered, unwritten; None
  verdict,    \* what the sender's own decision came to: ask, error; None
  ended,      \* history: deliveries that are over, [request, by]
  hit,        \* history: deliveries a failed append or a kill fell on
  faults

work == <<todo, stage, tries, outcome>>
file == <<dlq, crossed>>
vars == <<status, told, file, log, audited, work, verdict, ended, hit, faults>>

Init ==
  /\ status \in [Requests -> {"unfiled", "pending"}]
  /\ told = {} /\ dlq = <<>> /\ crossed = FALSE /\ log = {} /\ audited = FALSE
  /\ todo = [s \in Senders |-> <<>>] /\ stage = [s \in Senders |-> "idle"]
  /\ tries = [s \in Senders |-> 0] /\ outcome = [s \in Senders |-> None]
  /\ verdict = [s \in Senders |-> None]
  /\ ended = {} /\ hit = {} /\ faults = 0

Put(f, x, v) == f' = [f EXCEPT ![x] = v]
Event(kind, r, s) == [kind |-> kind, request |-> r, by |-> s]
Current(s) == Head(todo[s])
Delivery(s) == [request |-> Current(s), by |-> s]
Pending == {r \in Requests : status[r] = "pending"}

\* A failure falls on the delivery its sender is at.
FaultOn(s) ==
  /\ faults < MaxFaults /\ faults' = faults + 1
  /\ hit' = hit \union {Delivery(s)}

NoFault == UNCHANGED <<faults, hit>>

\* What an append to the dead-letter file writes: the entry, or a part of it,
\* and then the end of the line.
Entry(s) == Delivery(s)
Torn == [request |-> None, by |-> "torn"]
Newline == [request |-> None, by |-> "newline"]

---------------------------------------------------------------------------
(* Senders *)

\* request_for_ask files a request, or reuses the one that is pending for the
\* same call; either way it is delivered, again if it was delivered before.
File(s, r) ==
  /\ s # Cli /\ stage[s] = "idle" /\ status[r] \in {"unfiled", "pending"}
  /\ Put(status, r, "pending")
  /\ Put(todo, s, <<r>>)
  /\ Put(stage, s, "post")
  /\ NoFault
  /\ UNCHANGED <<told, file, log, audited, tries, outcome, verdict, ended>>

\* approval_webhook lists the pending requests once, and goes on without an
\* audit writer when there is no key or the log does not open.
ListPending ==
  /\ stage[Cli] = "idle" /\ Pending # {}
  /\ Put(todo, Cli, SetToSeq(Pending))
  /\ Put(stage, Cli, "post")
  /\ audited' \in BOOLEAN
  /\ NoFault
  /\ UNCHANGED <<status, told, file, log, tries, outcome, verdict, ended>>

Settle(s, result, next) ==
  Put(outcome, s, result) /\ Put(stage, s, next) /\ Put(tries, s, 0)

\* Faulty variant: the attempts are used up and nobody is told.
PostAndForget(s) ==
  /\ stage[s] = "post"
  /\ \/ told' = told \union {Current(s)} /\ Settle(s, "delivered", "report")
     \/ /\ told' \in {told, told \union {Current(s)}}
        /\ IF tries[s] + 1 < Attempts
             THEN Put(tries, s, tries[s] + 1) /\ UNCHANGED <<outcome, stage>>
             ELSE Settle(s, None, "report")
  /\ NoFault
  /\ UNCHANGED <<status, file, log, audited, todo, verdict, ended>>

\* post_json_with_curl: a failed attempt may have reached the endpoint.  The
\* last failure goes to the dead-letter file.
Post(s) ==
  /\ stage[s] = "post"
  /\ \/ told' = told \union {Current(s)} /\ Settle(s, "delivered", "report")
     \/ /\ told' \in {told, told \union {Current(s)}}
        /\ IF tries[s] + 1 < Attempts
             THEN Put(tries, s, tries[s] + 1) /\ UNCHANGED <<outcome, stage>>
             ELSE Settle(s, "deadlettered", "line")
  /\ NoFault
  /\ UNCHANGED <<status, file, log, audited, todo, verdict, ended>>

\* ApprovalWebhookDeadLetterStore::append writes twice; an error is the
\* outcome's.
AppendLine(s) ==
  /\ stage[s] = "line"
  /\ \/ dlq' = Append(dlq, Entry(s)) /\ NoFault
        /\ Put(stage, s, "newline") /\ UNCHANGED outcome
     \/ FaultOn(s) /\ Put(outcome, s, "unwritten") /\ Put(stage, s, "report")
        /\ dlq' \in {dlq, Append(dlq, Torn)}
  /\ crossed' = (crossed \/ \E other \in Senders : stage[other] = "newline")
  /\ UNCHANGED <<status, told, log, audited, todo, tries, verdict, ended>>

\* Faulty variant: the entry is not ended.
AppendNoNewline(s) ==
  /\ stage[s] = "newline"
  /\ Put(stage, s, "report")
  /\ NoFault
  /\ UNCHANGED <<status, told, file, log, audited, todo, tries, outcome, verdict, ended>>

AppendNewline(s) ==
  /\ stage[s] = "newline"
  /\ \/ dlq' = Append(dlq, Newline) /\ NoFault /\ UNCHANGED outcome
     \/ FaultOn(s) /\ Put(outcome, s, "unwritten") /\ UNCHANGED dlq
  /\ Put(stage, s, "report")
  /\ UNCHANGED <<status, told, crossed, log, audited, todo, tries, verdict, ended>>

EventsOf(s) ==
  CASE outcome[s] = "delivered" -> {"delivered"}
    [] outcome[s] = "deadlettered" -> {"failed", "deadlettered"}
    [] OTHER -> IF s = Fallback THEN {"failed"} ELSE {}

Events(s) == {Event(k, Current(s), s) : k \in EventsOf(s)}

\* What is in the log when an append has failed and the rest was not tried.
EventsSoFar(s) == {{}, Events(s) \intersect {Event("failed", Current(s), s)}}

\* The delivery is over, and its sender is done, failed, or at the next one.
Finish(s, next) ==
  /\ ended' = ended \union {Delivery(s)}
  /\ Put(stage, s, next)
  /\ Put(todo, s, IF next = "post" THEN Tail(todo[s]) ELSE <<>>)

\* Faulty variant: the outcome of the delivery becomes the decision's.
DaemonReportsError ==
  /\ stage[Daemon] = "report"
  /\ log' = log \union Events(Daemon)
  /\ Put(verdict, Daemon, IF outcome[Daemon] = "unwritten" THEN "error" ELSE "ask")
  /\ Finish(Daemon, "done")
  /\ NoFault
  /\ UNCHANGED <<status, told, file, audited, tries, outcome>>

\* notify_approval_webhook_best_effort of the daemon: whatever cannot be logged
\* is a warning; the ask stands.
DaemonReports ==
  /\ stage[Daemon] = "report"
  /\ \/ log' = log \union Events(Daemon) /\ NoFault
     \/ FaultOn(Daemon) /\ \E some \in SUBSET Events(Daemon) : log' = log \union some
  /\ Put(verdict, Daemon, "ask") /\ Put(outcome, Daemon, None)
  /\ Finish(Daemon, "done")
  /\ UNCHANGED <<status, told, file, audited, tries>>

\* The fallback logs the request, the outcome and the decision in one go,
\* afterwards; what cannot be logged is an error.
FallbackReports ==
  /\ stage[Fallback] = "report"
  /\ \/ /\ log' = log \union Events(Fallback)
        /\ Put(verdict, Fallback, "ask") /\ NoFault
     \/ /\ FaultOn(Fallback)
        /\ \E some \in EventsSoFar(Fallback) \union {Events(Fallback)} :
             log' = log \union some
        /\ Put(verdict, Fallback, "error")
  /\ Finish(Fallback, "done")
  /\ UNCHANGED <<status, told, file, audited, tries, outcome>>

\* The command: an entry or event that cannot be written ends it, with requests
\* left.
CliReports ==
  /\ stage[Cli] = "report"
  /\ \/ /\ outcome[Cli] # "unwritten" /\ NoFault
        /\ log' = IF audited THEN log \union Events(Cli) ELSE log
        /\ Finish(Cli, IF Len(todo[Cli]) = 1 THEN "done" ELSE "post")
     \/ /\ outcome[Cli] = "unwritten" /\ NoFault
        /\ Finish(Cli, "failed") /\ UNCHANGED log
     \/ /\ outcome[Cli] # "unwritten" /\ audited /\ FaultOn(Cli)
        /\ \E some \in EventsSoFar(Cli) : log' = log \union some
        /\ Finish(Cli, "failed")
  /\ Put(outcome, Cli, None)
  /\ UNCHANGED <<status, told, file, audited, tries, verdict>>

\* Killed between two steps; the next run starts over.
KillSender(s) ==
  /\ stage[s] \in {"post", "line", "newline", "report"}
  /\ FaultOn(s)
  /\ Finish(s, "failed")
  /\ Put(tries, s, 0) /\ Put(outcome, s, None)
  /\ UNCHANGED <<status, told, file, log, audited, verdict>>

---------------------------------------------------------------------------
Send(s) == (\E r \in Requests : File(s, r)) \/ Post(s) \/ AppendLine(s) \/ AppendNewline(s)

Next ==
  \/ \E s \in Senders : Send(s) \/ KillSender(s)
  \/ ListPending \/ DaemonReports \/ FallbackReports \/ CliReports

Spec == Init /\ [][Next]_vars

---------------------------------------------------------------------------
(* Properties *)

\* "When all attempts fail, Gommage keeps the permission decision as ask": no
\* outage, and no dead-letter file that cannot be written, is an error of the
\* decision; in the fallback only an audit log that cannot be written is.
OutageKeepsAsk ==
  /\ verdict[Daemon] # "error"
  /\ verdict[Fallback] = "error" =>
       faults > IF outcome[Fallback] = "unwritten" THEN 1 ELSE 0

OnFile(r, s) == [request |-> r, by |-> s] \in ToSet(dlq)

\* The log says of a delivery only what has happened to it.
IsTrue(e) ==
  /\ e.kind = "delivered" => e.request \in told
  /\ e.kind = "deadlettered" => OnFile(e.request, e.by)
  /\ e.kind = "failed" => OnFile(e.request, e.by) \/ [request |-> e.request, by |-> e.by] \in hit

\* What the log should have of a delivery: `approval webhook` may have no log.
Reported(d, kinds) ==
  \/ d.by = Cli /\ ~audited
  \/ \A k \in kinds : Event(k, d.request, d.by) \in log

\* A delivery that is over is at the endpoint or in the dead-letter file, and the
\* log says which.
Accounted(d) ==
  \/ d.request \in told /\ Reported(d, {"delivered"})
  \/ OnFile(d.request, d.by) /\ Reported(d, {"failed", "deadlettered"})

\* No delivery is lost without a word: each one that is over, but for those that a
\* kill or a failed append fell on, can be accounted for, whatever befell the
\* others; and what the log says of any of them is so.
NothingIsLost ==
  /\ \A d \in ended \ hit : Accounted(d)
  /\ \A e \in log : IsTrue(e)

\* The dead-letter list reads the whole file or fails: as long as no append is
\* cut short and no two overlap, every entry can be read.
DeadLettersReadBack ==
  faults = 0 /\ ~crossed =>
    \A i \in DOMAIN dlq :
      dlq[i] # Newline /\ i < Len(dlq) => dlq[i + 1] = Newline
=============================================================================
