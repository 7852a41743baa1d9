--------------------------- MODULE ApprovalInbox ---------------------------
(***************************************************************************)
(* The approval inbox (gommage-core/src/approval.rs) and the commands that *)
(* answer it (gommage-cli/src/approval_cmd.rs).  The inbox is an append-   *)
(* only file that every process replays from the start before it appends;  *)
(* nothing locks it between the replay and the append.                     *)
(*                                                                         *)
(* Requesters are the processes whose decision found no usable picto: the  *)
(* daemon (one decision at a time) and hooks that decide in-process.       *)
(* Operators are runs of approve, deny, deny-stale, the TUI and the import *)
(* of a signed callback, which end in approve_request or deny_request.     *)
(***************************************************************************)
EXTENDS Integers, Sequences, FiniteSets

CONSTANTS
  Tuples,      \* (input_hash, required_scope, bind_input, policy_version)
  Requesters, Operators,
  LastWindow,  \* bound on the clock, in windows of 2^16 ms (see Reopened)
  OlderThan,   \* deny-stale --older-than, in windows
  MaxLog,      \* bound on the records appended
  MaxPictos,   \* bound on the pictos minted
  None

ASSUME InboxBounds == {LastWindow, OlderThan, MaxLog, MaxPictos} \subseteq Nat
ASSUME NoneIsNoNumber == None \notin Nat

\* A request id: request_id hashes the tuple to <<t, 0>>, a reopened request
\* adds a suffix.
Ids == Tuples \X (0..(LastWindow + 1))
Base(t) == <<t, 0>>

Verdicts == {"approved", "denied"}
Status == Verdicts \union {"pending"}

\* Requested records carry created_at, Resolved ones the verdict and the picto.
Requested(id, born) == [type |-> "requested", id |-> id, born |-> born]
Resolved(id, verdict, picto) ==
  [type |-> "resolved", id |-> id, status |-> verdict, picto |-> picto]

VARIABLES
  log,       \* approvals.jsonl
  window,    \* the clock
  minted,    \* pictos created by approve: [picto, id], picto numbered
  trail,     \* audit events about requests and resolutions
  pc, req,   \* a requester's step and the request it is filing
  opc, cmd,  \* an operator's step and its command
  todo,      \* ids a deny-stale run has still to deny
  split      \* history: ids two answers overlapped on, or one that broke off

requester == <<pc, req>>
operator == <<opc, cmd, todo, split>>
vars == <<log, window, minted, trail, pc, req, opc, cmd, todo, split>>

Init ==
  /\ log = <<>>
  /\ window = 0
  /\ minted = {} /\ trail = {}
  /\ pc = [p \in Requesters |-> "idle"]
  /\ req = [p \in Requesters |-> None]
  /\ opc = [o \in Operators |-> "idle"]
  /\ cmd = [o \in Operators |-> None]
  /\ todo = [o \in Operators |-> {}]
  /\ split = {}

---------------------------------------------------------------------------
(* replay: the state of the inbox is a function of the file *)

RequestsOf(l, id) == {i \in DOMAIN l : l[i].type = "requested" /\ l[i].id = id}

\* A resolution of a request the file has not introduced yet is skipped.
ResolutionsOf(l, id) ==
  {i \in DOMAIN l : /\ l[i].type = "resolved" /\ l[i].id = id
                    /\ \E j \in RequestsOf(l, id) : j < i}

Known(l) == {id \in Ids : RequestsOf(l, id) # {}}
First(S) == CHOOSE i \in S : \A j \in S : i <= j
Last(S) == CHOOSE i \in S : \A j \in S : j <= i

\* Faulty variant: a repeated Requested record replaces the entry.
StatusOfLatest(l, id) ==
  LET done == {i \in ResolutionsOf(l, id) : \A j \in RequestsOf(l, id) : j < i}
  IN  IF done = {} THEN "pending" ELSE l[Last(done)].status

\* or_insert: the first Requested record makes the entry, the last Resolved
\* record after it gives the status.
StatusOf(l, id) ==
  LET done == ResolutionsOf(l, id)
  IN  IF done = {} THEN "pending" ELSE l[Last(done)].status

\* Faulty variant: the age restarts with every Requested record of the id.
BornOfLatest(l, id) == l[Last(RequestsOf(l, id))].born

BornOf(l, id) == l[First(RequestsOf(l, id))].born

PendingIn(l) == {id \in Known(l) : StatusOf(l, id) = "pending"}

---------------------------------------------------------------------------
(* A requester: request_for_ask, then the ApprovalRequested event *)

\* uuid::now_v7 starts with the 48-bit millisecond clock and the suffix keeps
\* 32 bits of it: the suffix changes once every 2^16 ms.
Reopened(t) == <<t, window + 1>>

\* No usable picto: request_from_eval builds the request, created_at included.
Ask(p) ==
  /\ pc[p] = "idle"
  /\ Len(log) < MaxLog
  /\ \E t \in Tuples : req' = [req EXCEPT ![p] = [id |-> Base(t), born |-> window]]
  /\ pc' = [pc EXCEPT ![p] = "replay"]
  /\ UNCHANGED <<log, window, minted, trail, operator>>

\* record_request up to the append: an open request for the tuple is reused,
\* a known base id gets a suffix.
RecordRequest(p) ==
  /\ pc[p] = "replay"
  /\ LET t == req[p].id[1]
         open == {id \in PendingIn(log) : id[1] = t}
     IN \/ \E id \in open :
             /\ req' = [req EXCEPT ![p] = [id |-> id, born |-> BornOf(log, id)]]
             /\ pc' = [pc EXCEPT ![p] = "event"]
        \/ /\ open = {}
           /\ req' = [req EXCEPT ![p].id =
                IF Base(t) \in Known(log) THEN Reopened(t) ELSE @]
           /\ pc' = [pc EXCEPT ![p] = "append"]
  /\ UNCHANGED <<log, window, minted, trail, operator>>

AppendRequest(p) ==
  /\ pc[p] = "append"
  /\ Len(log) < MaxLog
  /\ log' = Append(log, Requested(req[p].id, req[p].born))
  /\ pc' = [pc EXCEPT ![p] = "event"]
  /\ UNCHANGED <<window, minted, trail, req, operator>>

\* The event is written for a reused request too; then the ask is answered.
RecordAsk(p) ==
  /\ pc[p] = "event"
  /\ trail' = trail \union {[kind |-> "requested", id |-> req[p].id]}
  /\ pc' = [pc EXCEPT ![p] = "idle"]
  /\ req' = [req EXCEPT ![p] = None]
  /\ UNCHANGED <<log, window, minted, operator>>

CrashRequester(p) ==
  /\ pc[p] # "idle"
  /\ pc' = [pc EXCEPT ![p] = "idle"]
  /\ req' = [req EXCEPT ![p] = None]
  /\ UNCHANGED <<log, window, minted, trail, operator>>

---------------------------------------------------------------------------
(* An operator *)

Ogoto(o, step) == opc' = [opc EXCEPT ![o] = step]

Quit(o) ==
  /\ Ogoto(o, "idle")
  /\ cmd' = [cmd EXCEPT ![o] = None]
  /\ todo' = [todo EXCEPT ![o] = {}]

\* An answer is under way from the look that found its request pending to the
\* record it appends: approve_request looks before it mints, a denial in resolve.
Engaged(o, id) ==
  /\ \/ opc[o] = "append"
     \/ opc[o] \in {"mint", "resolve"} /\ cmd[o].verdict = "approved"
  /\ cmd[o].id = id

Cross(o, id) ==
  split' = split \union
    {i \in {id} : \E other \in Operators \ {o} : Engaged(other, i)}

\* approve_request and deny_request read the request; approve wants it pending.
Look(o, id, verdict) ==
  /\ \/ verdict = "denied" /\ UNCHANGED split
     \/ /\ verdict = "approved" /\ StatusOf(log, id) = "pending"
        /\ Cardinality(minted) < MaxPictos
        /\ Cross(o, id)
  /\ cmd' = [cmd EXCEPT ![o] = [id |-> id, verdict |-> verdict, picto |-> None]]
  /\ Ogoto(o, IF verdict = "approved" THEN "mint" ELSE "resolve")

Start(o, id, verdict) ==
  /\ opc[o] = "idle"
  /\ Len(log) < MaxLog
  /\ id \in Known(log)
  /\ Look(o, id, verdict)
  /\ UNCHANGED <<log, window, minted, trail, requester, todo>>

\* What `approval callback` is handed.  The nonce is a hash of the request's own
\* fields, without a key: it ties the answer to one request, and whoever can read
\* the request can compute it.
Form ==
  [id : Known(log), nonceOf : Known(log), verdict : Verdicts,
   genuine : BOOLEAN, inTime : BOOLEAN]

\* verify_webhook_body: the clocks may differ either way, up to the limit.
SignatureOk(f) == f.genuine /\ f.inTime
NonceMatches(f) == f.nonceOf = f.id
Accepted(f) ==
  SignatureOk(f) /\ NonceMatches(f) /\ StatusOf(log, f.id) = "pending"

\* A form that is refused, and --dry-run, change nothing.
VerifyCallback(o) ==
  /\ opc[o] = "idle"
  /\ Len(log) < MaxLog
  /\ \E f \in Form :
       /\ Accepted(f)
       /\ cmd' = [cmd EXCEPT ![o] = [id |-> f.id, verdict |-> f.verdict, picto |-> None]]
  /\ Ogoto(o, "called")
  /\ UNCHANGED <<log, window, minted, trail, requester, todo, split>>

\* Faulty variant: the callback mints on what it saw when it verified.
ActAtOnce(o) ==
  /\ opc[o] = "called"
  /\ cmd[o].verdict = "approved" => Cardinality(minted) < MaxPictos
  /\ Ogoto(o, IF cmd[o].verdict = "approved" THEN "mint" ELSE "resolve")
  /\ UNCHANGED <<log, window, minted, trail, requester, cmd, todo, split>>

\* Then it is approve_request or deny_request, which look again.
ActOnCallback(o) ==
  /\ opc[o] = "called"
  /\ \/ Look(o, cmd[o].id, cmd[o].verdict) /\ UNCHANGED todo
     \/ /\ cmd[o].verdict = "approved" /\ StatusOf(log, cmd[o].id) # "pending"
        /\ Quit(o) /\ UNCHANGED split
  /\ UNCHANGED <<log, window, minted, trail, requester>>

Stale == {id \in PendingIn(log) : window - BornOf(log, id) >= OlderThan}

\* deny-stale lists once, oldest first and maybe truncated, then denies one by
\* one.
StartSweep(o) ==
  /\ opc[o] = "idle"
  /\ Len(log) < MaxLog
  /\ \E S \in SUBSET Stale \ {{}} :
       /\ \A id \in S, other \in Stale \ S : BornOf(log, id) <= BornOf(log, other)
       /\ todo' = [todo EXCEPT ![o] = S]
  /\ Ogoto(o, "next")
  /\ UNCHANGED <<log, window, minted, trail, requester, cmd, split>>

\* The oldest of what is left.
SweepNext(o) ==
  /\ opc[o] = "next"
  /\ \E id \in todo[o] :
       /\ \A other \in todo[o] : BornOf(log, id) <= BornOf(log, other)
       /\ todo' = [todo EXCEPT ![o] = @ \ {id}]
       /\ cmd' = [cmd EXCEPT ![o] = [id |-> id, verdict |-> "denied", picto |-> None]]
  /\ Ogoto(o, "resolve")
  /\ UNCHANGED <<log, window, minted, trail, requester, split>>

\* Faulty variant: the picto is announced and never stored.
MintNothing(o) ==
  /\ opc[o] = "mint"
  /\ cmd' = [cmd EXCEPT ![o].picto = Cardinality(minted) + 1]
  /\ Ogoto(o, "resolve")
  /\ UNCHANGED <<log, window, minted, trail, requester, todo, split>>

\* PictoStore::create or create_for_input: active at once.
Mint(o) ==
  /\ opc[o] = "mint"
  /\ LET n == Cardinality(minted) + 1 IN
       /\ minted' = minted \union {[picto |-> n, id |-> cmd[o].id]}
       /\ cmd' = [cmd EXCEPT ![o].picto = n]
  /\ Ogoto(o, "resolve")
  /\ UNCHANGED <<log, window, trail, requester, todo, split>>

\* Faulty variant: resolve appends whatever the status is.
ResolveAnyway(o) ==
  /\ opc[o] = "resolve"
  /\ Ogoto(o, "append") /\ Cross(o, cmd[o].id)
  /\ UNCHANGED <<log, window, minted, trail, requester, cmd, todo>>

\* resolve: replay again, and fail unless the request is still pending.  A
\* failure ends the command, and ends a sweep with what it had left to do.
CheckPending(o) ==
  /\ opc[o] = "resolve"
  /\ IF StatusOf(log, cmd[o].id) = "pending"
       THEN Ogoto(o, "append") /\ Cross(o, cmd[o].id) /\ UNCHANGED <<cmd, todo>>
       ELSE Quit(o) /\ UNCHANGED split
  /\ UNCHANGED <<log, window, minted, trail, requester>>

ResolutionEvent(c) == [kind |-> c.verdict, id |-> c.id]

\* Faulty variant: the event is written before the record.
AppendResolutionAuditFirst(o) ==
  /\ opc[o] = "append"
  /\ Len(log) < MaxLog
  /\ trail' = trail \union {ResolutionEvent(cmd[o])}
  /\ Ogoto(o, "announce")
  /\ UNCHANGED <<log, window, minted, requester, cmd, todo, split>>

AppendResolution(o) ==
  /\ opc[o] = "append"
  /\ Len(log) < MaxLog
  /\ log' = Append(log, Resolved(cmd[o].id, cmd[o].verdict, cmd[o].picto))
  /\ Ogoto(o, IF cmd[o].picto = None THEN "announce" ELSE "created")
  /\ UNCHANGED <<window, minted, trail, requester, cmd, todo, split>>

\* An approval announces its picto (PictoCreated) before its verdict.
AuditCreated(o) ==
  /\ opc[o] = "created"
  /\ trail' = trail \union
       {[kind |-> "created", id |-> cmd[o].id, picto |-> cmd[o].picto]}
  /\ Ogoto(o, "announce")
  /\ UNCHANGED <<log, window, minted, requester, cmd, todo, split>>

\* ApprovalResolved; then the command ends, or the sweep goes on.
AuditResolution(o) ==
  /\ opc[o] = "announce"
  /\ trail' = trail \union {ResolutionEvent(cmd[o])}
  /\ Ogoto(o, IF todo[o] = {} THEN "idle" ELSE "next")
  /\ cmd' = [cmd EXCEPT ![o] = None]
  /\ UNCHANGED <<log, window, minted, requester, todo, split>>

\* Killed, or a step failed: an approval may have minted its picto already.
CrashOperator(o) ==
  /\ opc[o] # "idle"
  /\ Quit(o)
  /\ split' = split \union
       {id \in Known(log) : /\ opc[o] \in {"resolve", "append"}
                            /\ cmd[o].id = id /\ cmd[o].picto # None}
  /\ UNCHANGED <<log, window, minted, trail, requester>>

---------------------------------------------------------------------------
Tick ==
  /\ window < LastWindow
  /\ window' = window + 1
  /\ UNCHANGED <<log, minted, trail, requester, operator>>

Request(p) ==
  Ask(p) \/ RecordRequest(p) \/ AppendRequest(p) \/ RecordAsk(p) \/ CrashRequester(p)

Operate(o) ==
  \/ \E id \in Known(log), verdict \in Verdicts : Start(o, id, verdict)
  \/ VerifyCallback(o) \/ ActOnCallback(o)
  \/ StartSweep(o) \/ SweepNext(o) \/ Mint(o) \/ CheckPending(o)
  \/ AppendResolution(o) \/ AuditCreated(o) \/ AuditResolution(o)
  \/ CrashOperator(o)

Next ==
  \/ \E p \in Requesters : Request(p)
  \/ \E o \in Operators : Operate(o)
  \/ Tick

Spec == Init /\ [][Next]_vars

---------------------------------------------------------------------------
(* Properties *)

\* "instead of reviving resolved state": no append of anybody makes a resolved
\* request pending again, even one that repeats the id of that request.
ResolvedStaysResolved ==
  [][\A id \in Known(log) :
       StatusOf(log, id) # "pending" => StatusOf(log', id) # "pending"]_vars

\* A request that reads approved names a picto that was made for it: approve
\* mints before it resolves, so a crash between the two never leaves an
\* approval with nothing behind it.
ApprovedHasPicto ==
  \A i \in DOMAIN log :
    log[i].type = "resolved" /\ log[i].status = "approved" =>
      [picto |-> log[i].picto, id |-> log[i].id] \in minted

\* The audit log reports a resolution only if the inbox holds it.
AuditBacked ==
  \A e \in trail : e.kind \in Verdicts =>
    \E i \in DOMAIN log :
      log[i].type = "resolved" /\ log[i].id = e.id /\ log[i].status = e.kind

\* What a sweep is about to deny is older than the threshold, also when other
\* processes file the same id again while the sweep runs.
SweepSparesFresh ==
  \A o \in Operators : \A id \in todo[o] : window - BornOf(log, id) >= OlderThan

PictosFor(id) == {m \in minted : m.id = id}

\* A request is answered once: whoever approves, denies, sweeps or hands in the
\* same callback again, it has one resolution and one picto at most, and a picto
\* only with its approval.  Two answers that look before either has appended can
\* still leave two pictos, or one beside a denial; so can one that breaks off.
AnsweredOnce ==
  \A id \in Ids \ split :
    /\ \A i, j \in ResolutionsOf(log, id) : i = j
    /\ \A m, n \in PictosFor(id) : m = n
    /\ PictosFor(id) # {} =>
         \/ StatusOf(log, id) = "approved"
         \/ \E o \in Operators : Engaged(o, id) /\ cmd[o].verdict = "approved"
=============================================================================
