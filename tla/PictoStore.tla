----------------------------- MODULE PictoStore -----------------------------
(***************************************************************************)
(* The picto store (gommage-core/src/picto.rs) under everyone who uses it: *)
(* deciders that look a picto up and consume it (the daemon, and every     *)
(* hook or CLI process that decides in-process), the operator's one-shot   *)
(* commands that grant, confirm and revoke, and the clock.                 *)
(*                                                                         *)
(* All of them share one SQLite file in WAL mode.  A consume is a deferred *)
(* transaction: SELECT takes a snapshot, UPDATE takes the write lock and   *)
(* fails if the lock is held or anybody has committed since the snapshot,  *)
(* COMMIT publishes.  Single statements outside a transaction wait for the *)
(* lock and then act on the newest data.                                   *)
(***************************************************************************)
EXTENDS Integers, FiniteSets

CONSTANTS
  Ids,        \* primary keys of the pictos table
  Deciders,   \* processes that run decide
  Scopes,     \* required_scope values
  Inputs,     \* canonical ToolCall input hashes
  NoInput,    \* SQL NULL in the input_hash column: a scope-only picto
  MaxUses,    \* bound on max_uses of a grant
  MaxTtl,     \* longest ttl create accepts (86400 in the code)
  Horizon,    \* bound on the clock
  None        \* no row, no call, no lock holder

ASSUME BoundsAssumption ==
  MaxUses \in Nat \ {0} /\ MaxTtl \in Nat \ {0} /\ Horizon \in Nat

ASSUME NoInputAssumption == NoInput \notin Inputs

Status == {"active", "pending_confirmation", "spent", "revoked", "expired"}
Terminal == {"spent", "revoked", "expired"}

\* A row of the table; "signed" says whether signature_b64 verifies under the
\* key the deciders loaded (a row signed by a replaced key does not).
Row == [status: Status, uses: 0..MaxUses, maxUses: 1..MaxUses,
        created: Nat, expires: Nat, scope: Scopes,
        input: Inputs \union {NoInput}, signed: BOOLEAN]

\* What a decider carries: the scope and binding of the ask_picto rule and the
\* one `now` it reads for both the lookup and the consume.
Call == [scope: Scopes, input: Inputs \union {NoInput}, at: Nat]

ASSUME NoneAssumption ==
  None \notin Row /\ None \notin Call /\ None \notin Ids /\ None \notin Deciders

\* Signed audit events about a picto; n is the `uses` a PictoConsumed reports.
Event == [kind: {"created", "confirmed", "revoked", "consumed", "rejected"},
          id: Ids, n: 0..MaxUses]

VARIABLES
  db,        \* committed table: Ids -> Row or None
  now,       \* unix seconds
  lock,      \* holder of the WAL write lock
  stale,     \* deciders whose open snapshot is older than the last commit
  pc, call, pick, snap,    \* a decider's step, call, picto and snapshot row
  trail,     \* audit events in the log
  owed,      \* lifecycle events a CLI command has yet to append
  answered   \* <<id, n>>: an Allow that rested on the n-th use of id

session == <<call, pick, snap>>
store == <<db, now>>
logs == <<trail, owed, answered>>
vars == <<db, now, lock, stale, pc, call, pick, snap, trail, owed, answered>>

Init ==
  /\ db = [id \in Ids |-> None]
  /\ now = 0
  /\ lock = None
  /\ stale = {}
  /\ pc = [p \in Deciders |-> "idle"]
  /\ call = [p \in Deciders |-> None]
  /\ pick = [p \in Deciders |-> None]
  /\ snap = [p \in Deciders |-> None]
  /\ trail = {} /\ owed = {} /\ answered = {}

Goto(p, step) == pc' = [pc EXCEPT ![p] = step]

\* The decision is over (or the process is): its locals are gone.
Leave(p) ==
  /\ Goto(p, "idle")
  /\ call' = [call EXCEPT ![p] = None]
  /\ pick' = [pick EXCEPT ![p] = None]
  /\ snap' = [snap EXCEPT ![p] = None]

\* A commit that changed a row outdates every snapshot still open for reading.
Publish(table) ==
  /\ db' = table
  /\ stale' = stale \union {q \in Deciders : pc[q] = "write"}

WithStatus(r, status) == [r EXCEPT !.status = status]
WithUses(r, uses, status) == [r EXCEPT !.uses = uses, !.status = status]

\* The WHERE clause shared by the lookup and the consume, scope aside.
Usable(id, c) ==
  /\ db[id] # None
  /\ db[id].status = "active"
  /\ db[id].uses < db[id].maxUses
  /\ db[id].expires > c.at
  /\ db[id].input = c.input

\* Faulty variant: the lookup forgets "WHERE scope = ?1".
CandidatesOfAnyScope(c) == {id \in Ids : Usable(id, c)}

Candidates(c) == {id \in Ids : Usable(id, c) /\ db[id].scope = c.scope}

\* ORDER BY created_at DESC LIMIT 1; created_at has whole seconds, ties are open.
Newest(S) == {id \in S : \A other \in S : db[other].created <= db[id].created}

---------------------------------------------------------------------------
(* A decider: decide_and_audit of the daemon, decide_with_pictos elsewhere *)

\* The policy asked for a picto; `now` is read here and never again.
Ask(p) ==
  /\ pc[p] = "idle"
  /\ \E s \in Scopes, i \in Inputs \union {NoInput} :
       call' = [call EXCEPT ![p] = [scope |-> s, input |-> i, at |-> now]]
  /\ Goto(p, "find")
  /\ UNCHANGED <<store, lock, stale, pick, snap, logs>>

\* find_verified_match: the newest candidate alone is verified.
Find(p) ==
  /\ pc[p] = "find"
  /\ \/ /\ Candidates(call[p]) = {}
        /\ Goto(p, "ask")
        /\ UNCHANGED pick
     \/ \E id \in Newest(Candidates(call[p])) :
          /\ pick' = [pick EXCEPT ![p] = id]
          /\ Goto(p, IF db[id].signed THEN "check" ELSE "reject")
  /\ UNCHANGED <<store, lock, stale, call, snap, logs>>

\* Faulty variant: the consume trusts the lookup and reads the row by id alone.
BeginConsumeUnchecked(p) ==
  /\ pc[p] = "check"
  /\ stale' = stale \ {p}
  /\ snap' = [snap EXCEPT ![p] = db[pick[p]]]
  /\ Goto(p, "write")
  /\ UNCHANGED <<store, lock, call, pick, logs>>

\* consume_verified, BEGIN DEFERRED and SELECT: the lookup's conditions again.
BeginConsume(p) ==
  /\ pc[p] = "check"
  /\ stale' = stale \ {p}
  /\ IF Usable(pick[p], call[p])
       THEN /\ snap' = [snap EXCEPT ![p] = db[pick[p]]]
            /\ Goto(p, IF db[pick[p]].signed THEN "write" ELSE "reject")
       ELSE Goto(p, "ask") /\ UNCHANGED snap
  /\ UNCHANGED <<store, lock, call, pick, logs>>

\* Faulty variant: SELECT and UPDATE are separate statements, not a transaction.
WriteOutsideTransaction(p) ==
  /\ pc[p] = "write"
  /\ lock = None
  /\ lock' = p
  /\ Goto(p, "commit")
  /\ UNCHANGED <<store, stale, session, logs>>

\* Faulty variant: SQLITE_BUSY is retried inside the same transaction, whose
\* snapshot never gets any younger.
WriteRetrying(p) ==
  /\ pc[p] = "write"
  /\ lock = None /\ p \notin stale
  /\ lock' = p
  /\ Goto(p, "commit")
  /\ UNCHANGED <<store, stale, session, logs>>

\* consume_verified, UPDATE: the reader becomes the writer, or `?` returns the
\* database error (SQLITE_BUSY, SQLITE_BUSY_SNAPSHOT) and the transaction drops.
Write(p) ==
  /\ pc[p] = "write"
  /\ IF lock = None /\ p \notin stale
       THEN lock' = p /\ Goto(p, "commit")
       ELSE Goto(p, "error") /\ UNCHANGED lock
  /\ UNCHANGED <<store, stale, session, logs>>

StatusAfter(uses, max) == IF uses >= max THEN "spent" ELSE "active"

\* The UPDATE writes what the SELECT saw plus one, whatever the row holds now.
Commit(p) ==
  /\ pc[p] = "commit"
  /\ Publish([db EXCEPT ![pick[p]] =
       WithUses(@, snap[p].uses + 1, StatusAfter(snap[p].uses + 1, snap[p].maxUses))])
  /\ lock' = None
  /\ Goto(p, "event")
  /\ UNCHANGED <<now, session, logs>>

\* Faulty variant: a failed append of PictoConsumed is ignored.
RecordConsumedBestEffort(p) ==
  /\ pc[p] = "event"
  /\ \/ trail' = trail \union
            {[kind |-> "consumed", id |-> pick[p], n |-> snap[p].uses + 1]}
     \/ UNCHANGED trail
  /\ Goto(p, "allow")
  /\ UNCHANGED <<store, lock, stale, session, owed, answered>>

\* The event comes before the decision, the decision before the answer.
RecordConsumed(p) ==
  /\ pc[p] = "event"
  /\ trail' = trail \union
       {[kind |-> "consumed", id |-> pick[p], n |-> snap[p].uses + 1]}
  /\ Goto(p, "allow")
  /\ UNCHANGED <<store, lock, stale, session, owed, answered>>

RecordRejected(p) ==
  /\ pc[p] = "reject"
  /\ trail' = trail \union {[kind |-> "rejected", id |-> pick[p], n |-> 0]}
  /\ Goto(p, "ask")
  /\ UNCHANGED <<store, lock, stale, session, owed, answered>>

AnswerAllow(p) ==
  /\ pc[p] = "allow"
  /\ answered' = answered \union {<<pick[p], snap[p].uses + 1>>}
  /\ Leave(p)
  /\ UNCHANGED <<store, lock, stale, trail, owed>>

\* The ask stands, or the decision failed: no picto authority either way.
AnswerOther(p) ==
  /\ pc[p] \in {"ask", "error"}
  /\ Leave(p)
  /\ UNCHANGED <<store, lock, stale, logs>>

\* The process is killed, or an audit append fails and `?` abandons the
\* decision: SQLite rolls an open transaction back, committed uses stay burned.
Crash(p) ==
  /\ pc[p] # "idle"
  /\ lock' = IF lock = p THEN None ELSE lock
  /\ Leave(p)
  /\ UNCHANGED <<store, stale, logs>>

---------------------------------------------------------------------------
(* The operator's commands and the library's sweep *)

Owe(kind, id) == owed' = owed \union {[kind |-> kind, id |-> id, n |-> 0]}

\* gommage grant (and approve): create_with_input_hash, then the event is due.
Grant(id, uses, ttl, s, i, confirm, signed) ==
  /\ uses # 0
  /\ ttl \in 1..MaxTtl
  /\ lock = None
  /\ db[id] = None
  /\ Publish([db EXCEPT ![id] =
       [status |-> IF confirm THEN "pending_confirmation" ELSE "active",
        uses |-> 0, maxUses |-> uses, created |-> now, expires |-> now + ttl,
        scope |-> s, input |-> i, signed |-> signed]])
  /\ Owe("created", id)
  /\ UNCHANGED <<now, lock, pc, session, trail, answered>>

SetStatus(ids, status) ==
  Publish([id \in Ids |-> IF id \in ids THEN WithStatus(db[id], status)
                                        ELSE db[id]])

\* Faulty variant: confirm forgets "AND status = 'pending_confirmation'".
ConfirmAnyStatus(id) ==
  /\ lock = None
  /\ db[id] # None
  /\ SetStatus({id}, "active")
  /\ Owe("confirmed", id)
  /\ UNCHANGED <<now, lock, pc, session, trail, answered>>

Confirm(id) ==
  /\ lock = None
  /\ db[id] # None
  /\ db[id].status = "pending_confirmation"
  /\ SetStatus({id}, "active")
  /\ Owe("confirmed", id)
  /\ UNCHANGED <<now, lock, pc, session, trail, answered>>

Revoke(id) ==
  /\ lock = None
  /\ db[id] # None
  /\ db[id].status \in {"active", "pending_confirmation"}
  /\ SetStatus({id}, "revoked")
  /\ Owe("revoked", id)
  /\ UNCHANGED <<now, lock, pc, session, trail, answered>>

Lapsed == {id \in Ids : /\ db[id] # None
                        /\ db[id].status \in {"active", "pending_confirmation"}
                        /\ db[id].expires <= now}

\* sweep_expired: a library call, no command of the workspace makes it.
Sweep ==
  /\ lock = None
  /\ Lapsed # {}
  /\ SetStatus(Lapsed, "expired")
  /\ UNCHANGED <<now, lock, pc, session, logs>>

\* The second half of a command: AuditWriter::append_event, or it dies first.
RecordLifecycle(e) ==
  /\ owed' = owed \ {e}
  /\ trail' = trail \union {e}
  /\ UNCHANGED <<store, lock, stale, pc, session, answered>>

LoseLifecycle(e) ==
  /\ owed' = owed \ {e}
  /\ UNCHANGED <<store, lock, stale, pc, session, trail, answered>>

Tick ==
  /\ now < Horizon
  /\ now' = now + 1
  /\ UNCHANGED <<db, lock, stale, pc, session, logs>>

---------------------------------------------------------------------------
Handler(p) ==
  \/ Find(p) \/ BeginConsume(p) \/ Write(p) \/ Commit(p)
  \/ RecordConsumed(p) \/ RecordRejected(p) \/ AnswerAllow(p) \/ AnswerOther(p)

Command ==
  \/ \E id \in Ids, uses \in 0..MaxUses, ttl \in 0..(MaxTtl + 1), s \in Scopes,
        i \in Inputs \union {NoInput}, confirm, signed \in BOOLEAN :
       Grant(id, uses, ttl, s, i, confirm, signed)
  \/ \E id \in Ids : Confirm(id) \/ Revoke(id)
  \/ \E e \in owed : RecordLifecycle(e) \/ LoseLifecycle(e)
  \/ Sweep

Next ==
  \/ \E p \in Deciders : Ask(p) \/ Handler(p) \/ Crash(p)
  \/ Command
  \/ Tick

Spec == Init /\ [][Next]_vars

\* A decision under way is run to its end: no handler step waits for anything.
FairSpec == Spec /\ \A p \in Deciders : WF_vars(Handler(p))
---------------------------------------------------------------------------
(* Properties *)

RowOrNone == Row \union {None}

\* Every variable keeps the shape the code's types give it; a grant with no
\* uses would leave the shape (max_uses is checked against zero by create).
TypeOK ==
  /\ db \in [Ids -> RowOrNone]
  /\ now \in 0..Horizon
  /\ lock \in Deciders \union {None}
  /\ stale \subseteq Deciders
  /\ pc \in [Deciders -> {"idle", "find", "check", "write", "commit", "event",
                          "allow", "reject", "ask", "error"}]
  /\ call \in [Deciders -> Call \union {None}]
  /\ pick \in [Deciders -> Ids \union {None}]
  /\ snap \in [Deciders -> RowOrNone]
  /\ trail \subseteq Event /\ owed \subseteq Event
  /\ answered \subseteq Ids \X (1..MaxUses)

\* p has burned a use and has not answered yet; Ticket(p) is which use.
Holding(p) == pc[p] \in {"event", "allow"}
Ticket(p) == <<pick[p], snap[p].uses + 1>>

\* One use lets one call through: no two decisions rest on the same use, none
\* rests on a use already answered for, and none on a use the row has not
\* counted.  With uses <= max_uses this bounds the calls a grant lets through.
OneCallPerUse ==
  /\ \A p, q \in Deciders :
       Holding(p) /\ Holding(q) /\ Ticket(p) = Ticket(q) => p = q
  /\ \A p \in Deciders : Holding(p) =>
       /\ Ticket(p) \notin answered
       /\ Ticket(p)[2] <= db[pick[p]].uses
  /\ \A t \in answered : db[t[1]] # None /\ t[2] <= db[t[1]].uses
  /\ \A id \in Ids : db[id] # None => db[id].uses <= db[id].maxUses

\* An Allow under way rests on a picto of the asked scope and binding, signed,
\* and unexpired at the instant the decision read; the lookup tests the scope
\* and the consume does not test it again.
AllowMatchesGrant ==
  \A p \in Deciders : Holding(p) =>
    LET r == db[pick[p]] IN
      /\ r.scope = call[p].scope
      /\ r.input = call[p].input
      /\ r.signed
      /\ call[p].at < r.expires

\* An Allow that was answered is in the audit log first: the decision waits
\* for append_event, so what was let through can always be traced to its use.
AllowsAreAudited ==
  \A t \in answered : [kind |-> "consumed", id |-> t[1], n |-> t[2]] \in trail

\* The log never claims what the table does not bear out: a logged revoke is
\* not undone by a consume that was reading at the time, a logged confirm is
\* not a picto still waiting, a logged use has been counted.
AuditIsTrue ==
  \A e \in trail :
    /\ db[e.id] # None
    /\ e.kind = "revoked" => db[e.id].status = "revoked"
    /\ e.kind = "confirmed" => db[e.id].status # "pending_confirmation"
    /\ e.kind = "consumed" => e.n <= db[e.id].uses

\* Spent, revoked and expired are final: no step of anybody changes such a row,
\* least of all the blind "UPDATE ... WHERE id" of a consume already begun.
TerminalIsFinal ==
  [][\A id \in Ids :
       db[id] # None /\ db[id].status \in Terminal => db'[id] = db[id]]_vars

\* A use is burned one at a time, only on an active row, and the row is spent
\* exactly when the last one goes; a picto waiting for confirmation burns none.
UsesBurnInOrder ==
  [][\A id \in Ids :
       db[id] # None /\ db'[id].uses # db[id].uses =>
         /\ db[id].status = "active"
         /\ db'[id].uses = db[id].uses + 1
         /\ (db'[id].status = "spent") <=> (db'[id].uses = db[id].maxUses)]_vars

\* Every decision under way ends, in an answer or with its process: no handler
\* step waits for a lock another process may hold on to.
DecisionEnds ==
  \A p \in Deciders : pc[p] # "idle" ~> pc[p] = "idle"

\* The store implements the ledger: a commit issues a ticket, an answer serves
\* it, and everything else about rows, snapshots and locks is invisible.
Standing(r) ==
  IF r = None THEN "absent"
  ELSE IF r.status = "pending_confirmation" THEN "pending"
  ELSE IF r.status = "active" THEN "open" ELSE "closed"

Ledger == INSTANCE PictoLedger WITH
  standing <- [id \in Ids |-> Standing(db[id])],
  limit <- [id \in Ids |-> IF db[id] = None THEN 0 ELSE db[id].maxUses],
  issued <- [id \in Ids |-> IF db[id] = None THEN 0 ELSE db[id].uses],
  served <- answered

ImplementsLedger == Ledger!Spec
=============================================================================
