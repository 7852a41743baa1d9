-------------------------- MODULE PictoStoreProofs --------------------------
(***************************************************************************)
(* Theorems about PictoStore, for any number of pictos, deciders, scopes   *)
(* and inputs and any bounds.  Type correctness comes first; the safety    *)
(* invariant then adds what a snapshot and the write lock guarantee.       *)
(***************************************************************************)
EXTENDS PictoStore, TLAPS

Picked == {"check", "write", "commit", "event", "allow", "reject"}
Read == {"write", "commit", "event", "allow"}

\* What a decider's locals hold at each of its steps.
Local(p) ==
  /\ pc[p] # "idle" => call[p] \in Call
  /\ pc[p] \in Picked => pick[p] \in Ids /\ db[pick[p]] \in Row
  /\ pc[p] \in Read => snap[p] \in Row /\ snap[p].uses < snap[p].maxUses

TypeInv == TypeOK /\ \A p \in Deciders : Local(p)

\* What the two UPDATEs do to a row: the columns they name, and no other.
LEMMA StatusUpdate ==
  ASSUME NEW r \in Row, NEW s \in Status
  PROVE  /\ WithStatus(r, s) \in Row
         /\ WithStatus(r, s) = [status |-> s, uses |-> r.uses, maxUses |-> r.maxUses,
              created |-> r.created, expires |-> r.expires, scope |-> r.scope,
              input |-> r.input, signed |-> r.signed]
  BY DEF WithStatus, Row

\* The consume's UPDATE: uses and status move, the other columns stay.
LEMMA UsesUpdate ==
  ASSUME NEW r \in Row, NEW s \in Status, NEW n \in 0..MaxUses
  PROVE  /\ WithUses(r, n, s) \in Row
         /\ WithUses(r, n, s) = [status |-> s, uses |-> n, maxUses |-> r.maxUses,
              created |-> r.created, expires |-> r.expires, scope |-> r.scope,
              input |-> r.input, signed |-> r.signed]
<1> DEFINE q == [r EXCEPT !.uses = n]
<1>1. q \in Row /\ q = [status |-> r.status, uses |-> n, maxUses |-> r.maxUses,
         created |-> r.created, expires |-> r.expires, scope |-> r.scope,
         input |-> r.input, signed |-> r.signed]
  BY DEF Row
<1>2. WithUses(r, n, s) = WithStatus(q, s)
  BY DEF WithUses, WithStatus
<1> HIDE DEF q
<1>3. QED
  BY <1>1, <1>2, StatusUpdate

\* The state before anything happened is well typed.
LEMMA TypeInit == Init => TypeInv
  BY BoundsAssumption DEF Init, TypeInv, TypeOK, Local, RowOrNone, Picked, Read

\* Every step keeps the typing and what the locals hold.
LEMMA TypeStep == TypeInv /\ [Next]_vars => TypeInv'
<1> SUFFICES ASSUME TypeInv, [Next]_vars PROVE TypeInv'
  OBVIOUS
<1> USE DEF TypeInv, TypeOK, Local, RowOrNone, Picked, Read
<1>1. ASSUME NEW p \in Deciders, Ask(p) PROVE TypeInv'
  <2>1. call' \in [Deciders -> Call \union {None}] /\ call'[p] \in Call
    BY <1>1 DEF Ask, Call, store
  <2>2. QED
    BY <1>1, <2>1 DEF Ask, Goto, store, logs
<1>2. ASSUME NEW p \in Deciders, Find(p) PROVE TypeInv'
  <2>1. CASE Goto(p, "ask") /\ UNCHANGED pick
    BY <1>2, <2>1 DEF Find, Goto, store, logs
  <2>2. ASSUME NEW id \in Newest(Candidates(call[p])),
               pick' = [pick EXCEPT ![p] = id],
               Goto(p, IF db[id].signed THEN "check" ELSE "reject")
        PROVE  TypeInv'
    <3>1. id \in Ids /\ db[id] \in Row
      BY <2>2 DEF Newest, Candidates, Usable
    <3>2. QED
      BY <1>2, <2>2, <3>1 DEF Find, Goto, store, logs
  <2>3. QED
    BY <1>2, <2>1, <2>2 DEF Find
<1>3. ASSUME NEW p \in Deciders, BeginConsume(p) PROVE TypeInv'
  BY <1>3 DEF BeginConsume, Usable, Goto, store, logs
<1>4. ASSUME NEW p \in Deciders, Write(p) PROVE TypeInv'
  BY <1>4 DEF Write, Goto, store, session, logs
<1>5. ASSUME NEW p \in Deciders, Commit(p) PROVE TypeInv'
  <2> DEFINE n == snap[p].uses + 1
             row == WithUses(db[pick[p]], n, StatusAfter(n, snap[p].maxUses))
  <2>1. row \in Row
    <3>1. n \in 0..MaxUses
      BY <1>5, BoundsAssumption DEF Commit, Row
    <3>2. StatusAfter(n, snap[p].maxUses) \in Status
      BY DEF StatusAfter, Status
    <3>3. db[pick[p]] \in Row
      BY <1>5 DEF Commit
    <3>4. QED
      BY <3>1, <3>2, <3>3, UsesUpdate
  <2>2. db' = [db EXCEPT ![pick[p]] = row]
    BY <1>5 DEF Commit, Publish
  <2> HIDE DEF row
  <2>3. QED
    BY <1>5, <2>1, <2>2 DEF Commit, Publish, Goto, session, logs
<1>6. ASSUME NEW p \in Deciders, RecordConsumed(p) PROVE TypeInv'
  BY <1>6, BoundsAssumption DEF RecordConsumed, Goto, store, session, Event, Row
<1>7. ASSUME NEW p \in Deciders, RecordRejected(p) PROVE TypeInv'
  BY <1>7, BoundsAssumption DEF RecordRejected, Goto, store, session, Event
<1>8. ASSUME NEW p \in Deciders, AnswerAllow(p) PROVE TypeInv'
  BY <1>8, BoundsAssumption DEF AnswerAllow, Leave, Goto, store, Row
<1>9. ASSUME NEW p \in Deciders, AnswerOther(p) PROVE TypeInv'
  BY <1>9 DEF AnswerOther, Leave, Goto, store, logs
<1>10. ASSUME NEW p \in Deciders, Crash(p) PROVE TypeInv'
  BY <1>10 DEF Crash, Leave, Goto, store, logs
<1>11. ASSUME NEW id \in Ids, NEW uses \in 0..MaxUses, NEW ttl \in 0..(MaxTtl + 1),
              NEW s \in Scopes, NEW i \in Inputs \union {NoInput},
              NEW confirm \in BOOLEAN, NEW signed \in BOOLEAN,
              Grant(id, uses, ttl, s, i, confirm, signed)
       PROVE  TypeInv'
  BY <1>11, BoundsAssumption, NoneAssumption
     DEF Grant, Publish, Owe, session, Row, Status, Event
<1>12. ASSUME NEW id \in Ids, Confirm(id) PROVE TypeInv'
  <2>1. db[id] \in Row /\ WithStatus(db[id], "active") \in Row
    BY <1>12, StatusUpdate DEF Confirm, Status
  <2>2. QED
    BY <1>12, <2>1, BoundsAssumption DEF Confirm, SetStatus, Publish, Owe, session, Event
<1>13. ASSUME NEW id \in Ids, Revoke(id) PROVE TypeInv'
  <2>1. db[id] \in Row /\ WithStatus(db[id], "revoked") \in Row
    BY <1>13, StatusUpdate DEF Revoke, Status
  <2>2. QED
    BY <1>13, <2>1, BoundsAssumption DEF Revoke, SetStatus, Publish, Owe, session, Event
<1>14. ASSUME NEW e \in owed, RecordLifecycle(e) \/ LoseLifecycle(e) PROVE TypeInv'
  BY <1>14 DEF RecordLifecycle, LoseLifecycle, store, session
<1>15. ASSUME Sweep PROVE TypeInv'
  <2>1. \A id \in Lapsed : db[id] \in Row /\ WithStatus(db[id], "expired") \in Row
    BY StatusUpdate DEF Lapsed, Status
  <2>2. QED
    BY <1>15, <2>1 DEF Sweep, SetStatus, Publish, session, logs
<1>16. ASSUME Tick PROVE TypeInv'
  BY <1>16, BoundsAssumption DEF Tick, session, logs
<1>17. ASSUME UNCHANGED vars PROVE TypeInv'
  BY <1>17 DEF vars
<1> HIDE DEF TypeInv, TypeOK, Local, RowOrNone, Picked, Read
<1>18. ASSUME Command PROVE TypeInv'
  BY <1>11, <1>12, <1>13, <1>14, <1>15, <1>18 DEF Command
<1>19. ASSUME NEW p \in Deciders, Handler(p) PROVE TypeInv'
  BY <1>2, <1>3, <1>4, <1>5, <1>6, <1>7, <1>8, <1>9, <1>19 DEF Handler
<1>20. QED
  BY <1>1, <1>10, <1>16, <1>17, <1>18, <1>19 DEF Next

\* The code's types hold in every reachable state: in particular no row ever
\* counts more uses than the type of the column allows.
THEOREM TypeCorrect == Spec => []TypeOK
<1>1. TypeInv => TypeOK
  BY DEF TypeInv
<1>2. QED
  BY TypeInit, TypeStep, <1>1, PTL DEF Spec
---------------------------------------------------------------------------
(* Snapshots and the write lock *)

\* The lock holder is exactly the decider between its UPDATE and its COMMIT,
\* and a decider about to write or commit over a current snapshot sees the row
\* as it is.  This is what SQLite's conflict check buys the consume.
Fresh(p) == (pc[p] = "write" /\ p \notin stale) \/ pc[p] = "commit"

SyncInv ==
  /\ \A p \in Deciders : pc[p] = "commit" <=> lock = p
  /\ \A p \in Deciders : Fresh(p) => snap[p] = db[pick[p]] /\ snap[p].status = "active"

\* The picto a decider has settled on was made for the call.
Matched(p) ==
  LET r == db[pick[p]] IN
    /\ r.scope = call[p].scope /\ r.input = call[p].input
    /\ r.signed /\ call[p].at < r.expires

MatchInv ==
  \A p \in Deciders :
    pc[p] \in {"check", "write", "commit", "event", "allow"} => Matched(p)

\* What the log will say is true as well as what it says.
TrueOf(e) ==
  /\ db[e.id] # None
  /\ e.kind = "revoked" => db[e.id].status = "revoked"
  /\ e.kind = "confirmed" => db[e.id].status # "pending_confirmation"
  /\ e.kind = "consumed" => e.n <= db[e.id].uses

Consumed(p) == [kind |-> "consumed", id |-> pick[p], n |-> snap[p].uses + 1]

AuditInv ==
  /\ \A e \in trail \union owed : TrueOf(e)
  /\ \A p \in Deciders : pc[p] = "allow" => Consumed(p) \in trail
  /\ AllowsAreAudited

\* The lock and the snapshots stay in step with the table.
LEMMA SyncStep == TypeInv /\ SyncInv /\ [Next]_vars => SyncInv'
<1> SUFFICES ASSUME TypeInv, SyncInv, [Next]_vars PROVE SyncInv'
  OBVIOUS
<1> USE NoneAssumption DEF TypeInv, TypeOK, Local, RowOrNone, Picked, Read, SyncInv, Fresh
<1>1. ASSUME NEW p \in Deciders, Ask(p) PROVE SyncInv'
  BY <1>1 DEF Ask, Goto, store, logs
<1>2. ASSUME NEW p \in Deciders, Find(p) PROVE SyncInv'
  BY <1>2 DEF Find, Goto, store, logs
<1>3. ASSUME NEW p \in Deciders, BeginConsume(p) PROVE SyncInv'
  BY <1>3 DEF BeginConsume, Usable, Goto, store, logs
<1>4. ASSUME NEW p \in Deciders, Write(p) PROVE SyncInv'
  BY <1>4 DEF Write, Goto, store, session, logs
<1>5. ASSUME NEW p \in Deciders, Commit(p) PROVE SyncInv'
  BY <1>5 DEF Commit, Publish, Goto, session, logs
<1>6. ASSUME NEW p \in Deciders,
             RecordConsumed(p) \/ RecordRejected(p) \/ AnswerAllow(p) \/ AnswerOther(p)
      PROVE  SyncInv'
  BY <1>6 DEF RecordConsumed, RecordRejected, AnswerAllow, AnswerOther, Leave, Goto,
     store, session, logs
<1>7. ASSUME NEW p \in Deciders, Crash(p) PROVE SyncInv'
  BY <1>7 DEF Crash, Leave, Goto, store, logs
<1>8. ASSUME lock = None, stale' = stale \union {q \in Deciders : pc[q] = "write"},
             UNCHANGED <<lock, pc, session>>
      PROVE  SyncInv'
  BY <1>8 DEF session
<1>9. ASSUME Command PROVE SyncInv'
  <2>1. ASSUME NEW id \in Ids, NEW uses \in 0..MaxUses, NEW ttl \in 0..(MaxTtl + 1),
               NEW s \in Scopes, NEW i \in Inputs \union {NoInput},
               NEW confirm \in BOOLEAN, NEW signed \in BOOLEAN,
               Grant(id, uses, ttl, s, i, confirm, signed)
        PROVE  SyncInv'
    BY <1>8, <2>1 DEF Grant, Publish
  <2>2. ASSUME NEW id \in Ids, Confirm(id) \/ Revoke(id) PROVE SyncInv'
    BY <1>8, <2>2 DEF Confirm, Revoke, SetStatus, Publish
  <2>3. CASE Sweep
    BY <1>8, <2>3 DEF Sweep, SetStatus, Publish
  <2>4. ASSUME NEW e \in owed, RecordLifecycle(e) \/ LoseLifecycle(e) PROVE SyncInv'
    BY <2>4 DEF RecordLifecycle, LoseLifecycle, store, session
  <2> HIDE DEF TypeInv, TypeOK, Local, RowOrNone, SyncInv, Fresh
  <2>5. QED
    BY <1>9, <2>1, <2>2, <2>3, <2>4 DEF Command
<1>10. CASE Tick \/ UNCHANGED vars
  BY <1>10 DEF Tick, vars, session, logs
<1> HIDE DEF TypeInv, TypeOK, Local, RowOrNone, Picked, Read, SyncInv, Fresh
<1>11. QED
  BY <1>1, <1>2, <1>3, <1>4, <1>5, <1>6, <1>7, <1>9, <1>10 DEF Next, Handler
\* All that can happen to a stored row in one step: nothing, a confirmation,
\* a closing, or one use burned on top of the uses it really has.
Burn(r) == WithUses(r, r.uses + 1, StatusAfter(r.uses + 1, r.maxUses))

Moved(r, q) ==
  \/ q = r
  \/ r.status = "pending_confirmation" /\ q = WithStatus(r, "active")
  \/ /\ r.status \in {"active", "pending_confirmation"}
     /\ \E s \in {"revoked", "expired"} : q = WithStatus(r, s)
  \/ r.status = "active" /\ r.uses < r.maxUses /\ q = Burn(r)

\* What any step may do to a stored row: nothing, a command's status change,
\* or one use burned by a commit.
LEMMA RowMoves ==
  ASSUME TypeInv, SyncInv, [Next]_vars, NEW k \in Ids, db[k] \in Row
  PROVE  Moved(db[k], db'[k])
<1> USE DEF TypeInv, TypeOK, RowOrNone
<1>1. CASE UNCHANGED db
  BY <1>1 DEF Moved
<1>2. ASSUME NEW p \in Deciders, Commit(p) PROVE Moved(db[k], db'[k])
  <2>1. pick[p] \in Ids /\ db[pick[p]] \in Row /\ snap[p] = db[pick[p]]
        /\ snap[p].status = "active" /\ snap[p].uses < snap[p].maxUses
    BY <1>2 DEF Commit, Local, Picked, Read, SyncInv, Fresh
  <2>2. db' = [db EXCEPT ![pick[p]] = Burn(db[pick[p]])]
    BY <1>2, <2>1 DEF Commit, Publish, Burn
  <2>3. QED
    BY <2>1, <2>2 DEF Moved
<1>3. ASSUME NEW id \in Ids, NEW uses \in 0..MaxUses, NEW ttl \in 0..(MaxTtl + 1),
             NEW s \in Scopes, NEW i \in Inputs \union {NoInput},
             NEW confirm \in BOOLEAN, NEW signed \in BOOLEAN,
             Grant(id, uses, ttl, s, i, confirm, signed)
      PROVE  Moved(db[k], db'[k])
  <2>1. id # k
    BY <1>3, NoneAssumption DEF Grant
  <2>2. QED
    BY <1>3, <2>1 DEF Grant, Publish, Moved
<1>4. ASSUME NEW id \in Ids, Confirm(id) \/ Revoke(id) PROVE Moved(db[k], db'[k])
  BY <1>4 DEF Confirm, Revoke, SetStatus, Publish, Moved
<1>5. CASE Sweep
  BY <1>5 DEF Sweep, SetStatus, Publish, Lapsed, Moved
<1>6. ASSUME NEW e \in owed, RecordLifecycle(e) \/ LoseLifecycle(e)
      PROVE  Moved(db[k], db'[k])
  BY <1>1, <1>6 DEF RecordLifecycle, LoseLifecycle, store
<1> HIDE DEF TypeInv, TypeOK, RowOrNone
<1>7. ASSUME Command PROVE Moved(db[k], db'[k])
  BY <1>3, <1>4, <1>5, <1>6, <1>7 DEF Command
<1>8. ASSUME NEW p \in Deciders, Ask(p) \/ Handler(p) \/ Crash(p)
      PROVE  Moved(db[k], db'[k])
  <2>1. CASE Commit(p)
    BY <1>2, <2>1
  <2>2. CASE ~Commit(p)
    BY <1>1, <1>8, <2>2 DEF Ask, Handler, Crash, Find, BeginConsume, Write,
       RecordConsumed, RecordRejected, AnswerAllow, AnswerOther, store
  <2>3. QED
    BY <2>1, <2>2
<1>9. QED
  BY <1>1, <1>7, <1>8 DEF Next, Tick, vars

\* A burned row is the old one with one use more, spent exactly at its limit.
LEMMA BurnedRow ==
  ASSUME NEW r \in Row, r.uses < r.maxUses
  PROVE  /\ Burn(r) \in Row
         /\ Burn(r).uses = r.uses + 1 /\ Burn(r).maxUses = r.maxUses
         /\ Burn(r).expires = r.expires /\ Burn(r).scope = r.scope
         /\ Burn(r).input = r.input /\ Burn(r).signed = r.signed
         /\ Burn(r).status \in {"active", "spent"}
         /\ Burn(r).status = "spent" <=> r.uses + 1 = r.maxUses
<1> DEFINE s == StatusAfter(r.uses + 1, r.maxUses)
<1>1. s \in Status /\ r.uses + 1 \in 0..MaxUses
  BY BoundsAssumption DEF StatusAfter, Status, Row
<1>2. s \in {"active", "spent"} /\ (s = "spent" <=> r.uses + 1 = r.maxUses)
  BY DEF StatusAfter, Row
<1>3. Burn(r) = WithUses(r, r.uses + 1, s)
  BY DEF Burn
<1> HIDE DEF s
<1>4. QED
  BY <1>1, <1>2, <1>3, UsesUpdate

\* Hence what a grant is for never changes, and its uses never go down.
Kept(r, q) ==
  /\ q \in Row /\ r.uses <= q.uses
  /\ q.maxUses = r.maxUses /\ q.expires = r.expires
  /\ q.scope = r.scope /\ q.input = r.input /\ q.signed = r.signed
  /\ r.uses <= r.maxUses => q.uses <= q.maxUses
  /\ r.status = "revoked" => q.status = "revoked"
  /\ r.status # "pending_confirmation" => q.status # "pending_confirmation"

\* Every move keeps the grant's terms and loses neither uses nor finality.
LEMMA MovedIsKept ==
  ASSUME NEW r \in Row, NEW q, Moved(r, q) PROVE Kept(r, q)
<1>1. CASE q = r
  BY <1>1 DEF Kept, Row
<1>2. ASSUME NEW s \in {"active", "revoked", "expired"}, q = WithStatus(r, s),
             r.status \in {"active", "pending_confirmation"}
      PROVE  Kept(r, q)
  <2>1. q \in Row /\ q = [status |-> s, uses |-> r.uses, maxUses |-> r.maxUses,
           created |-> r.created, expires |-> r.expires, scope |-> r.scope,
           input |-> r.input, signed |-> r.signed]
    BY <1>2, StatusUpdate DEF Status
  <2>2. QED
    BY <1>2, <2>1 DEF Kept, Row
<1>3. CASE r.status = "active" /\ r.uses < r.maxUses /\ q = Burn(r)
  BY <1>3, BurnedRow DEF Kept, Row
<1>4. QED
  BY <1>1, <1>2, <1>3 DEF Moved

\* No command deletes a row.
LEMMA RowsKept ==
  ASSUME TypeInv, SyncInv, [Next]_vars, NEW k \in Ids, db[k] \in Row
  PROVE  Kept(db[k], db'[k])
  BY RowMoves, MovedIsKept
---------------------------------------------------------------------------
(* Tickets *)

\* A decider not taking a step keeps its locals and its place; one that holds
\* a ticket got it by committing, or held it already.
LEMMA HoldingMoves ==
  ASSUME TypeInv, [Next]_vars, NEW q \in Deciders, Holding(q)', ~Commit(q)
  PROVE  Holding(q) /\ Ticket(q)' = Ticket(q) /\ UNCHANGED <<pick[q], snap[q], call[q]>>
<1> USE DEF TypeInv, TypeOK, Holding, Ticket
<1>1. ASSUME NEW p \in Deciders, Ask(p) \/ Crash(p)
      PROVE  Holding(q) /\ Ticket(q)' = Ticket(q) /\ UNCHANGED <<pick[q], snap[q], call[q]>>
  BY <1>1 DEF Ask, Crash, Leave, Goto
<1>2. ASSUME NEW p \in Deciders, Handler(p)
      PROVE  Holding(q) /\ Ticket(q)' = Ticket(q) /\ UNCHANGED <<pick[q], snap[q], call[q]>>
  <2>1. CASE Commit(p) \/ RecordConsumed(p) \/ RecordRejected(p)
    BY <1>2, <2>1 DEF Commit, RecordConsumed, RecordRejected, Goto, session
  <2>2. CASE AnswerAllow(p) \/ AnswerOther(p)
    BY <1>2, <2>2 DEF AnswerAllow, AnswerOther, Leave, Goto
  <2>3. CASE Write(p) \/ BeginConsume(p)
    BY <1>2, <2>3 DEF Write, BeginConsume, Goto, session
  <2>4. CASE Find(p)
    BY <1>2, <2>4 DEF Find, Goto
  <2>5. QED
    BY <1>2, <2>1, <2>2, <2>3, <2>4 DEF Handler
<1>3. CASE Command \/ Tick \/ UNCHANGED vars
  BY <1>3 DEF Command, Grant, Confirm, Revoke, RecordLifecycle, LoseLifecycle, Sweep,
     Tick, vars, session
<1>4. QED
  BY <1>1, <1>2, <1>3 DEF Next

\* A commit hands out the ticket the row had not counted yet.
LEMMA CommitTicket ==
  ASSUME TypeInv, SyncInv, NEW p \in Deciders, Commit(p)
  PROVE  /\ pick[p] \in Ids /\ db[pick[p]] \in Row
         /\ Ticket(p)' = <<pick[p], db[pick[p]].uses + 1>>
         /\ db'[pick[p]] \in Row
         /\ db'[pick[p]].uses = db[pick[p]].uses + 1
         /\ UNCHANGED <<answered, trail, owed, now>>
<1>1. pick[p] \in Ids /\ db[pick[p]] \in Row /\ snap[p] = db[pick[p]]
      /\ snap[p].uses < snap[p].maxUses
  BY DEF TypeInv, Commit, Local, Picked, Read, SyncInv, Fresh
<1> DEFINE n == db[pick[p]].uses + 1
           s == StatusAfter(n, snap[p].maxUses)
<1>2. n \in 0..MaxUses /\ s \in Status
  BY <1>1, BoundsAssumption DEF Row, StatusAfter, Status
<1>3. db'[pick[p]] = WithUses(db[pick[p]], n, s)
  BY <1>1 DEF Commit, Publish, TypeInv, TypeOK
<1> HIDE DEF n, s
<1>4. db'[pick[p]] \in Row /\ db'[pick[p]].uses = n
  BY <1>1, <1>2, <1>3, UsesUpdate
<1>5. QED
  BY <1>1, <1>4 DEF Commit, session, logs, Ticket, n

\* A row that appears has spent nothing.
LEMMA NewRow ==
  ASSUME TypeInv, [Next]_vars, NEW k \in Ids, db[k] = None, db'[k] # None
  PROVE  db'[k].uses <= db'[k].maxUses
<1> USE DEF TypeInv, TypeOK, RowOrNone
<1>1. db' # db
  OBVIOUS
<1>2. ASSUME NEW id \in Ids, NEW uses \in 0..MaxUses, NEW ttl \in 0..(MaxTtl + 1),
             NEW s \in Scopes, NEW i \in Inputs \union {NoInput},
             NEW confirm \in BOOLEAN, NEW signed \in BOOLEAN,
             Grant(id, uses, ttl, s, i, confirm, signed)
      PROVE  db'[k].uses <= db'[k].maxUses
  BY <1>2 DEF Grant, Publish
<1>3. ASSUME NEW p \in Deciders, Handler(p) PROVE FALSE
  BY <1>1, <1>3, NoneAssumption DEF Handler, Find, BeginConsume, Write, Commit, Publish,
     RecordConsumed, RecordRejected, AnswerAllow, AnswerOther, store, Local, Picked
<1>4. ASSUME NEW id \in Ids, Confirm(id) \/ Revoke(id) PROVE FALSE
  BY <1>1, <1>4 DEF Confirm, Revoke, SetStatus, Publish
<1>5. CASE Sweep
  BY <1>5 DEF Sweep, SetStatus, Publish, Lapsed
<1> HIDE DEF TypeInv, TypeOK, RowOrNone
<1>6. QED
  BY <1>1, <1>2, <1>3, <1>4, <1>5 DEF Next, Command, Ask, Crash, RecordLifecycle,
     LoseLifecycle, Tick, vars, store

\* No step hands one use to two calls.
LEMMA TicketStep ==
  TypeInv /\ SyncInv /\ OneCallPerUse /\ [Next]_vars => OneCallPerUse'
<1> SUFFICES ASSUME TypeInv, SyncInv, OneCallPerUse, [Next]_vars PROVE OneCallPerUse'
  OBVIOUS
<1>1. \A k \in Ids : db[k] # None => db[k] \in Row
  BY DEF TypeInv, TypeOK, RowOrNone
<1>2. \A k \in Ids : db[k] \in Row => Kept(db[k], db'[k])
  BY RowsKept
<1>3. \A q \in Deciders : Holding(q) => pick[q] \in Ids /\ db[pick[q]] \in Row
  BY DEF TypeInv, Local, Picked, Holding
<1>4. ASSUME NEW q \in Deciders, Holding(q)', ~Commit(q)
      PROVE  Ticket(q)' \notin answered'
  <2>1. Holding(q) /\ Ticket(q)' = Ticket(q) /\ Ticket(q) \notin answered
    BY <1>4, HoldingMoves DEF OneCallPerUse
  <2>2. CASE answered' = answered
    BY <2>1, <2>2
  <2>3. ASSUME NEW p \in Deciders, AnswerAllow(p) PROVE Ticket(q)' \notin answered'
    <3>1. Holding(p) /\ ~Holding(p)' /\ answered' = answered \union {Ticket(p)}
      BY <2>3 DEF AnswerAllow, Holding, Ticket, Leave, Goto, TypeInv, TypeOK
    <3>2. QED
      BY <1>4, <2>1, <3>1 DEF OneCallPerUse
  <2>4. QED
    BY <2>2, <2>3 DEF Next, Handler, Command, Ask, Crash, Find, BeginConsume, Write,
       Commit, RecordConsumed, RecordRejected, AnswerOther, Grant, Confirm, Revoke,
       RecordLifecycle, LoseLifecycle, Sweep, Tick, vars, logs
<1>5. ASSUME NEW q \in Deciders, Holding(q)', ~Commit(q)
      PROVE  Ticket(q)'[2] <= db'[pick'[q]].uses
  <2>1. Holding(q) /\ Ticket(q)' = Ticket(q) /\ pick'[q] = pick[q]
    BY <1>5, HoldingMoves
  <2>2. Ticket(q)[2] <= db[pick[q]].uses /\ pick[q] \in Ids /\ db[pick[q]] \in Row
    BY <1>3, <2>1 DEF OneCallPerUse
  <2>3. db[pick[q]].uses <= db'[pick[q]].uses /\ db'[pick[q]] \in Row
    BY <1>2, <2>2 DEF Kept
  <2>4. snap[q] \in Row
    BY <2>1 DEF TypeInv, Local, Read, Holding
  <2>5. QED
    BY <2>1, <2>2, <2>3, <2>4 DEF Ticket, Row
<1>6. ASSUME NEW t \in answered' PROVE db'[t[1]] # None /\ t[2] <= db'[t[1]].uses
  <2>1. CASE t \in answered
    <3>1. t[1] \in Ids /\ t[2] \in Nat /\ db[t[1]] \in Row /\ t[2] <= db[t[1]].uses
      BY <1>1, <2>1, BoundsAssumption DEF TypeInv, TypeOK, OneCallPerUse
    <3>2. QED
      BY <1>2, <3>1, NoneAssumption DEF Kept, Row
  <2>2. ASSUME NEW p \in Deciders, AnswerAllow(p), t = Ticket(p)
        PROVE  db'[t[1]] # None /\ t[2] <= db'[t[1]].uses
    <3>1. Holding(p) /\ db' = db
      BY <2>2 DEF AnswerAllow, Holding, store
    <3>2. t[1] = pick[p] /\ t[2] <= db[pick[p]].uses /\ db[pick[p]] # None
      BY <1>3, <2>2, <3>1, NoneAssumption DEF OneCallPerUse, Ticket
    <3>3. QED
      BY <3>1, <3>2
  <2>3. QED
    BY <1>6, <2>1, <2>2 DEF Next, Handler, Command, Ask, Crash, Find, BeginConsume,
       Write, Commit, RecordConsumed, RecordRejected, AnswerAllow, AnswerOther, Grant,
       Confirm, Revoke, RecordLifecycle, LoseLifecycle, Sweep, Tick, vars, logs, Ticket
<1>7. ASSUME NEW k \in Ids, db'[k] # None PROVE db'[k].uses <= db'[k].maxUses
  <2>1. CASE db[k] # None
    BY <1>1, <1>2, <2>1 DEF OneCallPerUse, Kept
  <2>2. CASE db[k] = None
    BY <1>7, <2>2, NewRow
  <2>3. QED
    BY <2>1, <2>2
<1>8. ASSUME NEW p \in Deciders, Commit(p) PROVE OneCallPerUse'
  <2>1. \A q \in Deciders : Commit(q) => q = p
    BY <1>8 DEF Commit, SyncInv
  <2>2. Ticket(p)' = <<pick[p], db[pick[p]].uses + 1>> /\ pick' = pick
        /\ pick[p] \in Ids /\ db[pick[p]] \in Row /\ db'[pick[p]].uses = db[pick[p]].uses + 1
        /\ answered' = answered /\ db'[pick[p]] \in Row
    BY <1>8, CommitTicket DEF Commit, session
  <2>3. Ticket(p)' \notin answered' /\ Ticket(p)'[2] <= db'[pick'[p]].uses
    BY <2>2 DEF OneCallPerUse, Row
  <2>4. ASSUME NEW q \in Deciders, q # p, Holding(q)' PROVE Ticket(q)' # Ticket(p)'
    <3>1. Holding(q) /\ Ticket(q)' = Ticket(q)
      BY <2>1, <2>4, HoldingMoves
    <3>2. Ticket(q)[1] = pick[q] /\ Ticket(q)[2] <= db[pick[q]].uses
      BY <3>1 DEF OneCallPerUse, Ticket
    <3>3. QED
      BY <2>2, <3>1, <3>2 DEF Row
  <2>5. ASSUME NEW q \in Deciders, NEW r \in Deciders, Holding(q)', Holding(r)',
               Ticket(q)' = Ticket(r)'
        PROVE  q = r
    <3>1. CASE q # p /\ r # p
      BY <2>1, <2>5, <3>1, HoldingMoves DEF OneCallPerUse
    <3>2. QED
      BY <2>4, <2>5, <3>1
  <2>6. QED
    BY <1>4, <1>5, <1>6, <1>7, <2>1, <2>3, <2>5 DEF OneCallPerUse
<1>9. CASE \A p \in Deciders : ~Commit(p)
  <2>1. ASSUME NEW q \in Deciders, NEW r \in Deciders, Holding(q)', Holding(r)',
               Ticket(q)' = Ticket(r)'
        PROVE  q = r
    BY <1>9, <2>1, HoldingMoves DEF OneCallPerUse
  <2>2. QED
    BY <1>4, <1>5, <1>6, <1>7, <1>9, <2>1 DEF OneCallPerUse
<1>10. QED
  BY <1>8, <1>9
---------------------------------------------------------------------------
(* What an Allow rests on, and what the log says of it *)

\* No step changes what an Allow under way rests on.
LEMMA MatchStep ==
  TypeInv /\ SyncInv /\ MatchInv /\ [Next]_vars => MatchInv'
<1> DEFINE S == {"check", "write", "commit", "event", "allow"}
<1> SUFFICES ASSUME TypeInv, SyncInv, MatchInv, [Next]_vars,
                    NEW q \in Deciders, pc'[q] \in S
             PROVE  Matched(q)'
  BY DEF MatchInv
<1>1. CASE Find(q)
  <2>1. PICK id \in Newest(Candidates(call[q])) :
          pick' = [pick EXCEPT ![q] = id]
          /\ Goto(q, IF db[id].signed THEN "check" ELSE "reject")
    BY <1>1 DEF Find, Goto, TypeInv, TypeOK
  <2>2. id \in Ids /\ Usable(id, call[q]) /\ db[id].scope = call[q].scope
    BY <2>1 DEF Newest, Candidates
  <2>3. db[id].signed
    BY <2>1 DEF Goto, TypeInv, TypeOK
  <2>4. call' = call /\ db' = db /\ pick'[q] = id
    BY <1>1, <2>1 DEF Find, store, TypeInv, TypeOK
  <2>5. QED
    BY <2>2, <2>3, <2>4 DEF Usable, Matched
<1>2. CASE pc[q] \in S /\ pick'[q] = pick[q] /\ call'[q] = call[q]
  <2>1. pick[q] \in Ids /\ db[pick[q]] \in Row /\ Matched(q)
    BY <1>2 DEF TypeInv, Local, Picked, MatchInv
  <2>2. Kept(db[pick[q]], db'[pick[q]])
    BY <2>1, RowsKept
  <2>3. QED
    BY <1>2, <2>1, <2>2 DEF Matched, Kept
<1>3. CASE ~Find(q)
  <2> USE DEF TypeInv, TypeOK, Goto, session
  <2>1. ASSUME NEW p \in Deciders, Ask(p) \/ Crash(p) PROVE Matched(q)'
    BY <1>2, <2>1 DEF Ask, Crash, Leave
  <2>2. ASSUME NEW p \in Deciders, Handler(p) PROVE Matched(q)'
    <3>1. CASE Find(p)
      <4>1. p # q
        BY <1>3, <3>1
      <4>2. pc'[q] = pc[q] /\ pick'[q] = pick[q] /\ call'[q] = call[q]
        BY <3>1, <4>1 DEF Find
      <4>3. QED
        BY <1>2, <4>2
    <3>2. CASE BeginConsume(p) \/ Write(p) \/ Commit(p)
      BY <1>2, <3>2 DEF BeginConsume, Write, Commit
    <3>3. CASE RecordConsumed(p) \/ RecordRejected(p)
      BY <1>2, <3>3 DEF RecordConsumed, RecordRejected
    <3>4. CASE AnswerAllow(p) \/ AnswerOther(p)
      BY <1>2, <3>4 DEF AnswerAllow, AnswerOther, Leave
    <3>5. QED
      BY <2>2, <3>1, <3>2, <3>3, <3>4 DEF Handler
  <2>3. CASE Command \/ Tick \/ UNCHANGED vars
    BY <1>2, <2>3 DEF Command, Grant, Confirm, Revoke, RecordLifecycle, LoseLifecycle,
       Sweep, Tick, vars
  <2>4. QED
    BY <2>1, <2>2, <2>3 DEF Next
<1>4. QED
  BY <1>1, <1>3

\* No step makes the log say more than happened, or an Allow outrun the log.
LEMMA AuditStep ==
  TypeInv /\ TypeInv' /\ SyncInv /\ OneCallPerUse /\ AuditInv /\ [Next]_vars => AuditInv'
<1> SUFFICES ASSUME TypeInv, TypeInv', SyncInv, OneCallPerUse, AuditInv, [Next]_vars
             PROVE  AuditInv'
  OBVIOUS
<1>1. ASSUME NEW e \in trail \union owed PROVE TrueOf(e)'
  <2>1. e.id \in Ids /\ db[e.id] \in Row /\ e.n \in Nat /\ TrueOf(e)
    BY <1>1, BoundsAssumption DEF TypeInv, TypeOK, RowOrNone, AuditInv, TrueOf, Event
  <2>2. Kept(db[e.id], db'[e.id])
    BY <2>1, RowsKept
  <2>3. QED
    BY <2>1, <2>2, NoneAssumption DEF TrueOf, Kept, Row
<1>2. ASSUME NEW p \in Deciders, Ask(p) \/ Crash(p) PROVE AuditInv'
  BY <1>1, <1>2 DEF Ask, Crash, Leave, Goto, logs, AuditInv, AllowsAreAudited, Consumed,
     TypeInv, TypeOK
<1>3. ASSUME NEW p \in Deciders, Find(p) \/ BeginConsume(p) \/ Write(p) PROVE AuditInv'
  BY <1>1, <1>3 DEF Find, BeginConsume, Write, Goto, logs, session, AuditInv,
     AllowsAreAudited, Consumed, TypeInv, TypeOK
<1>4. ASSUME NEW p \in Deciders, Commit(p) PROVE AuditInv'
  BY <1>1, <1>4 DEF Commit, Goto, logs, session, AuditInv, AllowsAreAudited, Consumed,
     TypeInv, TypeOK
<1>5. ASSUME NEW p \in Deciders, RecordConsumed(p) PROVE AuditInv'
  <2>1. db'[pick[p]] # None /\ snap[p].uses + 1 <= db'[pick[p]].uses
    <3>1. pick[p] \in Ids /\ db[pick[p]] \in Row
      BY <1>5 DEF RecordConsumed, TypeInv, Local, Picked
    <3>2. snap[p].uses + 1 <= db[pick[p]].uses /\ db' = db
      BY <1>5 DEF RecordConsumed, store, OneCallPerUse, Holding, Ticket
    <3>3. QED
      BY <3>1, <3>2, NoneAssumption
  <2>2. trail' = trail \union {Consumed(p)} /\ owed' = owed /\ answered' = answered
    BY <1>5 DEF RecordConsumed, Consumed
  <2>3. ASSUME NEW e \in trail' \union owed' PROVE TrueOf(e)'
    <3>1. CASE e \in trail \union owed
      BY <1>1, <3>1
    <3>2. CASE e = [kind |-> "consumed", id |-> pick[p], n |-> snap[p].uses + 1]
      BY <2>1, <3>2 DEF TrueOf
    <3>3. QED
      BY <2>2, <2>3, <3>1, <3>2 DEF Consumed
  <2>4. \A q \in Deciders : pc'[q] = "allow" => Consumed(q)' \in trail'
    BY <1>5, <2>2 DEF RecordConsumed, Goto, session, Consumed, AuditInv, TypeInv, TypeOK
  <2>5. QED
    BY <2>2, <2>3, <2>4 DEF AuditInv, AllowsAreAudited
<1>6. ASSUME NEW p \in Deciders, RecordRejected(p) PROVE AuditInv'
  <2> DEFINE e == [kind |-> "rejected", id |-> pick[p], n |-> 0]
  <2>1. db'[e.id] # None
    BY <1>6, NoneAssumption DEF RecordRejected, store, TypeInv, Local, Picked
  <2>2. TrueOf(e)'
    BY <1>6, <2>1 DEF TrueOf, RecordRejected, store, session
  <2>3. QED
    BY <1>1, <1>6, <2>1 DEF RecordRejected, Goto, session, AuditInv, AllowsAreAudited,
       Consumed, TrueOf, TypeInv, TypeOK
<1>7. ASSUME NEW p \in Deciders, AnswerAllow(p) PROVE AuditInv'
  BY <1>1, <1>7 DEF AnswerAllow, Leave, Goto, AuditInv, AllowsAreAudited, Consumed,
     TypeInv, TypeOK
<1>8. ASSUME NEW p \in Deciders, AnswerOther(p) PROVE AuditInv'
  BY <1>1, <1>8 DEF AnswerOther, Leave, Goto, logs, AuditInv, AllowsAreAudited, Consumed,
     TypeInv, TypeOK
<1>9. ASSUME UNCHANGED <<pc, session, trail, answered>>,
             \A e \in owed' : e \in owed \/ TrueOf(e)'
      PROVE  AuditInv'
  BY <1>1, <1>9 DEF session, AuditInv, AllowsAreAudited, Consumed
<1>10. ASSUME Command PROVE AuditInv'
  <2>1. ASSUME NEW id \in Ids, NEW uses \in 0..MaxUses, NEW ttl \in 0..(MaxTtl + 1),
               NEW s \in Scopes, NEW i \in Inputs \union {NoInput},
               NEW confirm \in BOOLEAN, NEW signed \in BOOLEAN,
               Grant(id, uses, ttl, s, i, confirm, signed)
        PROVE  AuditInv'
    <3>1. db'[id] # None
      BY <2>1, NoneAssumption, BoundsAssumption
         DEF Grant, Publish, TypeInv, TypeOK, RowOrNone, Row, Status
    <3>2. TrueOf([kind |-> "created", id |-> id, n |-> 0])'
      BY <3>1 DEF TrueOf
    <3>3. QED
      BY <1>9, <2>1, <3>2 DEF Grant, Owe
  <2>2. ASSUME NEW id \in Ids, Confirm(id) PROVE AuditInv'
    <3>1. db[id] \in Row /\ db'[id] = WithStatus(db[id], "active")
      BY <2>2 DEF Confirm, SetStatus, Publish, TypeInv, TypeOK, RowOrNone
    <3> "active" \in Status
      BY DEF Status
    <3>2. db'[id] # None /\ db'[id].status = "active"
      BY <3>1, StatusUpdate, NoneAssumption
    <3>3. TrueOf([kind |-> "confirmed", id |-> id, n |-> 0])'
      BY <3>2 DEF TrueOf
    <3>4. QED
      BY <1>9, <2>2, <3>3 DEF Confirm, Owe
  <2>3. ASSUME NEW id \in Ids, Revoke(id) PROVE AuditInv'
    <3>1. db[id] \in Row /\ db'[id] = WithStatus(db[id], "revoked")
      BY <2>3 DEF Revoke, SetStatus, Publish, TypeInv, TypeOK, RowOrNone
    <3> "revoked" \in Status
      BY DEF Status
    <3>2. db'[id] # None /\ db'[id].status = "revoked"
      BY <3>1, StatusUpdate, NoneAssumption
    <3>3. TrueOf([kind |-> "revoked", id |-> id, n |-> 0])'
      BY <3>2 DEF TrueOf
    <3>4. QED
      BY <1>9, <2>3, <3>3 DEF Revoke, Owe
  <2>4. ASSUME NEW e \in owed, RecordLifecycle(e) \/ LoseLifecycle(e) PROVE AuditInv'
    BY <1>1, <2>4 DEF RecordLifecycle, LoseLifecycle, session, AuditInv, AllowsAreAudited,
       Consumed
  <2>5. CASE Sweep
    BY <1>9, <2>5 DEF Sweep, logs
  <2>6. QED
    BY <1>10, <2>1, <2>2, <2>3, <2>4, <2>5 DEF Command
<1>11. CASE Tick \/ UNCHANGED vars
  BY <1>9, <1>11 DEF Tick, vars, logs, session
<1>12. QED
  BY <1>2, <1>3, <1>4, <1>5, <1>6, <1>7, <1>8, <1>10, <1>11 DEF Next, Handler
---------------------------------------------------------------------------
(* The inductive invariant and what follows from it *)

IInv == TypeInv /\ SyncInv /\ MatchInv /\ OneCallPerUse /\ AuditInv

\* The inductive invariant holds of an empty store.
LEMMA InvInit == Init => IInv
<1> SUFFICES ASSUME Init PROVE IInv
  OBVIOUS
<1>1. TypeInv
  BY TypeInit
<1>2. SyncInv
  BY NoneAssumption DEF Init, SyncInv, Fresh
<1>3. MatchInv /\ OneCallPerUse
  BY DEF Init, MatchInv, OneCallPerUse, Holding
<1>4. AuditInv
  BY DEF Init, AuditInv, AllowsAreAudited
<1>5. QED
  BY <1>1, <1>2, <1>3, <1>4 DEF IInv

\* Every step keeps the inductive invariant.
LEMMA InvStep == IInv /\ [Next]_vars => IInv'
  BY TypeStep, SyncStep, MatchStep, TicketStep, AuditStep DEF IInv

\* The inductive invariant holds in every reachable state.
LEMMA Invariance == Spec => []IInv
  BY InvInit, InvStep, PTL DEF Spec

\* No double spend, for any number of deciders racing over any number of
\* pictos: the snapshot conflict of the consume transaction is what makes it so.
THEOREM NoDoubleSpend == Spec => []OneCallPerUse
<1>1. IInv => OneCallPerUse
  BY DEF IInv
<1>2. QED
  BY Invariance, <1>1, PTL

\* Whatever a call is let through on was granted for that call.
THEOREM AllowsMatch == Spec => []AllowMatchesGrant
<1>1. IInv => AllowMatchesGrant
  BY DEF IInv, MatchInv, Matched, AllowMatchesGrant, Holding
<1>2. QED
  BY Invariance, <1>1, PTL

\* Every answered Allow can be found in the log, whatever crashed on the way.
THEOREM AuditIsComplete == Spec => []AllowsAreAudited
<1>1. IInv => AllowsAreAudited
  BY DEF IInv, AuditInv
<1>2. QED
  BY Invariance, <1>1, PTL

\* The log tells the truth: what it says was consumed was.
THEOREM AuditIsSound == Spec => []AuditIsTrue
<1>1. IInv => AuditIsTrue
  BY DEF IInv, AuditInv, TrueOf, AuditIsTrue
<1>2. QED
  BY Invariance, <1>1, PTL

\* No step of anybody touches a spent, revoked or expired row.
THEOREM TerminalRowsAreFinal == Spec => TerminalIsFinal
<1> DEFINE Final == \A id \in Ids :
             db[id] # None /\ db[id].status \in Terminal => db'[id] = db[id]
<1>1. IInv /\ [Next]_vars => [Final]_vars
  <2> SUFFICES ASSUME IInv, [Next]_vars, NEW id \in Ids, db[id] # None,
                      db[id].status \in Terminal
               PROVE  db'[id] = db[id]
    OBVIOUS
  <2>1. Moved(db[id], db'[id])
    BY RowMoves DEF IInv, TypeInv, TypeOK, RowOrNone
  <2>2. QED
    BY <2>1 DEF Moved, Terminal
<1> HIDE DEF Final
<1>2. Spec => [][Final]_vars
  BY Invariance, <1>1, PTL DEF Spec
<1>3. QED
  BY <1>2 DEF TerminalIsFinal, Final

\* Uses go up one at a time, on active rows only, to spent at the limit.
THEOREM UsesAreBurnedInOrder == Spec => UsesBurnInOrder
<1> DEFINE Ordered == \A id \in Ids :
       db[id] # None /\ db'[id].uses # db[id].uses =>
         /\ db[id].status = "active"
         /\ db'[id].uses = db[id].uses + 1
         /\ (db'[id].status = "spent") <=> (db'[id].uses = db[id].maxUses)
<1>1. IInv /\ [Next]_vars => [Ordered]_vars
  <2> SUFFICES ASSUME IInv, [Next]_vars, NEW id \in Ids, db[id] # None,
                      db'[id].uses # db[id].uses
               PROVE  /\ db[id].status = "active"
                      /\ db'[id].uses = db[id].uses + 1
                      /\ (db'[id].status = "spent") <=> (db'[id].uses = db[id].maxUses)
    OBVIOUS
  <2>1. db[id] \in Row /\ Moved(db[id], db'[id])
    BY RowMoves DEF IInv, TypeInv, TypeOK, RowOrNone
  <2>2. \A s \in Status : WithStatus(db[id], s).uses = db[id].uses
    BY <2>1, StatusUpdate
  <2>3. db[id].status = "active" /\ db[id].uses < db[id].maxUses /\ db'[id] = Burn(db[id])
    BY <2>1, <2>2 DEF Moved, Status
  <2>4. QED
    BY <2>1, <2>3, BurnedRow
<1> HIDE DEF Ordered
<1>2. Spec => [][Ordered]_vars
  BY Invariance, <1>1, PTL DEF Spec
<1>3. QED
  BY <1>2 DEF UsesBurnInOrder, Ordered
---------------------------------------------------------------------------
(* The store implements the ledger *)

Standings == [id \in Ids |-> Standing(db[id])]
Limits == [id \in Ids |-> IF db[id] = None THEN 0 ELSE db[id].maxUses]
Issued == [id \in Ids |-> IF db[id] = None THEN 0 ELSE db[id].uses]

\* An empty store is an empty ledger.
LEMMA LedgerInit == Init => Ledger!Init
  BY DEF Init, Ledger!Init, Standing

\* A step that leaves the table and the answers alone is invisible.
LEMMA LedgerStutter ==
  ASSUME db' = db, answered' = answered PROVE UNCHANGED Ledger!ledger
  BY DEF Ledger!ledger, Standing

\* Storing a new row is Mint.
LEMMA LedgerMint ==
  ASSUME TypeInv, NEW id \in Ids, NEW uses \in 0..MaxUses, NEW ttl \in 0..(MaxTtl + 1),
         NEW s \in Scopes, NEW i \in Inputs \union {NoInput},
         NEW confirm \in BOOLEAN, NEW signed \in BOOLEAN,
         Grant(id, uses, ttl, s, i, confirm, signed)
  PROVE  Ledger!Mint(id)
<1> DEFINE row == [status |-> IF confirm THEN "pending_confirmation" ELSE "active",
        uses |-> 0, maxUses |-> uses, created |-> now, expires |-> now + ttl,
        scope |-> s, input |-> i, signed |-> signed]
<1>1. db[id] = None /\ db' = [db EXCEPT ![id] = row] /\ uses \in 1..MaxUses
      /\ answered' = answered
  BY BoundsAssumption DEF Grant, Publish
<1>2. row \in Row
  BY <1>1, BoundsAssumption DEF Grant, TypeInv, TypeOK, Row, Status
<1>3. row # None /\ Standing(row) \in {"pending", "open"} /\ row.uses = 0
      /\ row.maxUses = uses
  BY <1>2, NoneAssumption DEF Standing
<1> HIDE DEF row
<1>4. db'[id] = row /\ \A k \in Ids : k # id => db'[k] = db[k]
  BY <1>1 DEF TypeInv, TypeOK
<1>5. Standings' = [Standings EXCEPT ![id] = Standing(row)]
      /\ Limits' = [Limits EXCEPT ![id] = uses]
  BY <1>3, <1>4 DEF Standings, Limits
<1>6. Issued' = Issued /\ Standings[id] = "absent"
  BY <1>1, <1>3, <1>4 DEF Issued, Standings, Standing
<1>7. QED
  BY <1>1, <1>3, <1>5, <1>6 DEF Ledger!Mint, Standings, Limits, Issued

\* Changing the status of stored rows moves their standing and nothing else.
LEMMA LedgerStatus ==
  ASSUME TypeInv, NEW G \in SUBSET Ids, NEW s \in Status, SetStatus(G, s),
         \A k \in G : db[k] \in Row
  PROVE  /\ Standings' = [k \in Ids |->
              IF k \in G THEN IF s = "pending_confirmation" THEN "pending"
                             ELSE IF s = "active" THEN "open" ELSE "closed"
                        ELSE Standings[k]]
         /\ Limits' = Limits /\ Issued' = Issued
<1>1. \A k \in Ids : db'[k] = IF k \in G THEN WithStatus(db[k], s) ELSE db[k]
  BY DEF SetStatus, Publish
<1>2. \A k \in G : /\ WithStatus(db[k], s) # None
                   /\ WithStatus(db[k], s).status = s
                   /\ WithStatus(db[k], s).uses = db[k].uses
                   /\ WithStatus(db[k], s).maxUses = db[k].maxUses
  BY StatusUpdate, NoneAssumption
<1>3. QED
  BY <1>1, <1>2, NoneAssumption DEF Standings, Limits, Issued, Standing

\* Committing a consume is Issue.
LEMMA LedgerIssue ==
  ASSUME TypeInv, SyncInv, NEW p \in Deciders, Commit(p), NEW k \in Ids, k = pick[p]
  PROVE  Ledger!Issue(k)
<1>1. k \in Ids /\ db[k] \in Row /\ snap[p] = db[k]
      /\ db[k].status = "active" /\ db[k].uses < db[k].maxUses
  BY DEF TypeInv, Commit, Local, Picked, Read, SyncInv, Fresh
<1>2. db' = [db EXCEPT ![k] = Burn(db[k])] /\ answered' = answered
  BY <1>1 DEF Commit, Publish, Burn, logs
<1>3. Burn(db[k]) \in Row /\ Burn(db[k]).uses = db[k].uses + 1
      /\ Burn(db[k]).maxUses = db[k].maxUses /\ Burn(db[k]).status \in {"active", "spent"}
      /\ (Burn(db[k]).status = "spent" <=> db[k].uses + 1 = db[k].maxUses)
  BY <1>1, BurnedRow
<1>4. db'[k] = Burn(db[k]) /\ \A j \in Ids : j # k => db'[j] = db[j]
  BY <1>1, <1>2 DEF TypeInv, TypeOK
<1>5. Issued' = [Issued EXCEPT ![k] = @ + 1] /\ Limits' = Limits
  BY <1>1, <1>3, <1>4, NoneAssumption DEF Issued, Limits
<1>6. Standings' = [Standings EXCEPT ![k] =
        IF Issued[k] + 1 = Limits[k] THEN "closed" ELSE "open"]
  <2>1. Issued[k] = db[k].uses /\ Limits[k] = db[k].maxUses
    BY <1>1, NoneAssumption DEF Issued, Limits
  <2>2. Standing(Burn(db[k])) = IF Issued[k] + 1 = Limits[k] THEN "closed" ELSE "open"
    BY <1>3, <2>1, NoneAssumption DEF Standing
  <2>3. Standings' = [Standings EXCEPT ![k] = Standing(Burn(db[k]))]
    BY <1>4 DEF Standings
  <2>4. QED
    BY <2>2, <2>3
<1>7. Standings[k] = "open" /\ Issued[k] < Limits[k]
  BY <1>1, NoneAssumption DEF Issued, Limits, Standings, Standing
<1>8. QED
  BY <1>2, <1>5, <1>6, <1>7 DEF Ledger!Issue, Standings, Limits, Issued

\* Answering Allow is Serve.
LEMMA LedgerServe ==
  ASSUME TypeInv, OneCallPerUse, NEW p \in Deciders, AnswerAllow(p)
  PROVE  Ledger!Serve(pick[p], snap[p].uses + 1)
<1>1. pick[p] \in Ids /\ db[pick[p]] \in Row /\ snap[p] \in Row
  BY DEF TypeInv, AnswerAllow, Local, Picked, Read
<1>2. snap[p].uses + 1 \in 1..db[pick[p]].uses
      /\ <<pick[p], snap[p].uses + 1>> \notin answered
  BY <1>1, BoundsAssumption DEF OneCallPerUse, AnswerAllow, Holding, Ticket, Row
<1>3. db' = db /\ answered' = answered \union {<<pick[p], snap[p].uses + 1>>}
  BY DEF AnswerAllow, store
<1>4. QED
  BY <1>1, <1>2, <1>3, NoneAssumption DEF Ledger!Serve, Standing

\* Every step of the store is a step of the ledger, or invisible in it.
LEMMA LedgerStep == IInv /\ [Next]_vars => [Ledger!Next]_(Ledger!ledger)
<1> SUFFICES ASSUME IInv, [Next]_vars PROVE [Ledger!Next]_(Ledger!ledger)
  OBVIOUS
<1> USE DEF IInv
<1>1. CASE db' = db /\ answered' = answered
  BY <1>1, LedgerStutter
<1>2. ASSUME NEW p \in Deciders, Commit(p) PROVE Ledger!Next
  <2>1. pick[p] \in Ids
    BY <1>2 DEF Commit, TypeInv, Local, Picked
  <2>2. PICK k \in Ids : k = pick[p]
    BY <2>1
  <2>3. Ledger!Issue(k)
    BY <1>2, <2>2, LedgerIssue
  <2>4. QED
    BY <2>3 DEF Ledger!Next
<1>3. ASSUME NEW p \in Deciders, AnswerAllow(p) PROVE Ledger!Next
  <2>1. pick[p] \in Ids /\ snap[p].uses + 1 \in 1..MaxUses
    BY <1>3, BoundsAssumption DEF AnswerAllow, TypeInv, Local, Picked, Read, Row
  <2>2. QED
    BY <1>3, <2>1, LedgerServe DEF Ledger!Next
<1>4. ASSUME NEW id \in Ids, NEW uses \in 0..MaxUses, NEW ttl \in 0..(MaxTtl + 1),
             NEW s \in Scopes, NEW i \in Inputs \union {NoInput},
             NEW confirm \in BOOLEAN, NEW signed \in BOOLEAN,
             Grant(id, uses, ttl, s, i, confirm, signed)
      PROVE  Ledger!Next
  BY <1>4, LedgerMint DEF Ledger!Next
<1>5. ASSUME NEW id \in Ids, Confirm(id) PROVE Ledger!Next
  <2>1. db[id] \in Row /\ db[id].status = "pending_confirmation" /\ "active" \in Status
        /\ SetStatus({id}, "active") /\ answered' = answered
    BY <1>5 DEF Confirm, TypeInv, TypeOK, RowOrNone, Status
  <2>2. Standings[id] = "pending"
    BY <2>1, NoneAssumption DEF Standings, Standing
  <2>3. Standings' = [Standings EXCEPT ![id] = "open"]
        /\ Limits' = Limits /\ Issued' = Issued
    <3>1. /\ Standings' = [k \in Ids |-> IF k \in {id} THEN "open" ELSE Standings[k]]
          /\ Limits' = Limits /\ Issued' = Issued
      BY <2>1, LedgerStatus
    <3>2. QED
      BY <3>1 DEF Standings
  <2>4. Ledger!Confirm(id)
    BY <2>1, <2>2, <2>3 DEF Ledger!Confirm, Standings, Limits, Issued
  <2>5. QED
    BY <2>4 DEF Ledger!Next
<1>6. ASSUME NEW G \in SUBSET Ids, NEW s \in {"revoked", "expired"}, SetStatus(G, s),
             answered' = answered,
             \A k \in G : db[k] # None /\ db[k].status \in {"active", "pending_confirmation"}
      PROVE  Ledger!Next
  <2>1. s \in Status /\ \A k \in G : db[k] \in Row
    BY <1>6 DEF TypeInv, TypeOK, RowOrNone, Status
  <2>2. \A k \in G : Standings[k] \in {"pending", "open"}
    BY <1>6, <2>1, NoneAssumption DEF Standings, Standing
  <2>3. Standings' = [k \in Ids |-> IF k \in G THEN "closed" ELSE Standings[k]]
        /\ Limits' = Limits /\ Issued' = Issued
    BY <1>6, <2>1, LedgerStatus
  <2>4. Ledger!Close(G)
    BY <1>6, <2>2, <2>3 DEF Ledger!Close, Standings, Limits, Issued
  <2>5. QED
    BY <2>4 DEF Ledger!Next
<1>7. ASSUME NEW id \in Ids, Revoke(id) PROVE Ledger!Next
  BY <1>6, <1>7 DEF Revoke
<1>8. CASE Sweep
  BY <1>6, <1>8 DEF Sweep, Lapsed, logs
<1> HIDE DEF IInv
<1>9. CASE Command
  <2>1. ASSUME NEW e \in owed, RecordLifecycle(e) \/ LoseLifecycle(e)
        PROVE  db' = db /\ answered' = answered
    BY <2>1 DEF RecordLifecycle, LoseLifecycle, store
  <2>2. QED
    BY <1>1, <1>4, <1>5, <1>7, <1>8, <1>9, <2>1 DEF Command
<1>10. ASSUME NEW p \in Deciders, Ask(p) \/ Handler(p) \/ Crash(p)
       PROVE  [Ledger!Next]_(Ledger!ledger)
  <2>1. CASE Commit(p) \/ AnswerAllow(p)
    BY <1>2, <1>3, <2>1
  <2>2. CASE ~Commit(p) /\ ~AnswerAllow(p)
    BY <1>1, <1>10, <2>2 DEF Ask, Handler, Crash, Find, BeginConsume, Write,
       RecordConsumed, RecordRejected, AnswerOther, store, logs
  <2>3. QED
    BY <2>1, <2>2
<1>11. QED
  BY <1>1, <1>9, <1>10 DEF Next, Tick, vars, logs

\* The store, with all its transactions, crashes and races, is the ledger: it
\* issues no ticket beyond a grant's limit and serves none twice.
THEOREM StoreImplementsLedger == Spec => ImplementsLedger
<1>1. Spec => [][Ledger!Next]_(Ledger!ledger)
  BY Invariance, LedgerStep, PTL DEF Spec
<1>2. QED
  BY <1>1, LedgerInit, PTL DEF Spec, Ledger!Spec, ImplementsLedger
=============================================================================
