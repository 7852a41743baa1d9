------------------------ MODULE ApprovalInboxProofs ------------------------
(***************************************************************************)
(* Theorems about ApprovalInbox, for any number of requests, processes and *)
(* operators and any bounds.  The file only grows; what replay makes of a  *)
(* longer file is related, lemma by lemma, to what it made of the shorter. *)
(***************************************************************************)
EXTENDS ApprovalInbox, FiniteSetTheorems, TLAPS

Record ==
  [type : {"requested"}, id : Ids, born : Nat]
    \union [type : {"resolved"}, id : Ids, status : Verdicts, picto : Nat \union {None}]
Request1 == [id : Ids, born : Nat]
Command == [id : Ids, verdict : Verdicts, picto : Nat \union {None}]

Filing == {"replay", "append", "event"}
Minted == {"resolve", "append", "created", "announce"}
Answering == {"called", "mint"} \union Minted

TypeInv ==
  /\ log \in Seq(Record)
  /\ window \in 0..LastWindow
  /\ IsFiniteSet(minted)
  /\ pc \in [Requesters -> {"idle"} \union Filing]
  /\ req \in [Requesters -> Request1 \union {None}]
  /\ opc \in [Operators -> {"idle", "next"} \union Answering]
  /\ cmd \in [Operators -> Command \union {None}]
  /\ todo \in [Operators -> SUBSET Ids]
  /\ \A p \in Requesters : pc[p] \in Filing => req[p] \in Request1
  /\ \A o \in Operators : opc[o] \in Answering => cmd[o] \in Command

\* Every request has a first record, and a last resolution if it has one at all.
HasFirst(l, id) ==
  RequestsOf(l, id) # {} => \E m \in RequestsOf(l, id) : \A j \in RequestsOf(l, id) : m <= j
HasLast(l, id) ==
  ResolutionsOf(l, id) # {} =>
    \E m \in ResolutionsOf(l, id) : \A j \in ResolutionsOf(l, id) : j <= m
EndsInv == \A id \in Ids : HasFirst(log, id) /\ HasLast(log, id)

---------------------------------------------------------------------------
(* What an append does to replay *)

\* The positions replay looks at, after one more record.
LEMMA PositionsAfter ==
  ASSUME NEW l \in Seq(Record), NEW r \in Record, NEW id \in Ids
  PROVE  /\ RequestsOf(l, id) \subseteq 1..Len(l)
         /\ ResolutionsOf(l, id) \subseteq 1..Len(l)
         /\ RequestsOf(Append(l, r), id) =
              RequestsOf(l, id) \union
                (IF r.type = "requested" /\ r.id = id THEN {Len(l) + 1} ELSE {})
         /\ \/ ResolutionsOf(Append(l, r), id) = ResolutionsOf(l, id)
            \/ /\ ResolutionsOf(Append(l, r), id) =
                    ResolutionsOf(l, id) \union {Len(l) + 1}
               /\ r.type = "resolved"
         /\ ResolutionsOf(Append(l, r), id) =
              ResolutionsOf(l, id) \union
                (IF r.type = "resolved" /\ r.id = id /\ RequestsOf(l, id) # {}
                   THEN {Len(l) + 1} ELSE {})
<1> DEFINE k == Append(l, r)
<1>1. /\ Len(k) = Len(l) + 1 /\ Len(l) \in Nat
      /\ DOMAIN k = 1..(Len(l) + 1) /\ DOMAIN l = 1..Len(l)
      /\ \A i \in 1..Len(l) : k[i] = l[i]
      /\ k[Len(l) + 1] = r
  OBVIOUS
<1> HIDE DEF k
<1>2. RequestsOf(l, id) \subseteq 1..Len(l) /\ ResolutionsOf(l, id) \subseteq 1..Len(l)
  BY <1>1 DEF RequestsOf, ResolutionsOf
<1>3. ASSUME NEW i
      PROVE  i \in RequestsOf(k, id) <=>
               \/ i \in RequestsOf(l, id)
               \/ i = Len(l) + 1 /\ r.type = "requested" /\ r.id = id
  BY <1>1 DEF RequestsOf
<1>4. ASSUME NEW i
      PROVE  i \in ResolutionsOf(k, id) <=>
               \/ i \in ResolutionsOf(l, id)
               \/ /\ i = Len(l) + 1 /\ r.type = "resolved" /\ r.id = id
                  /\ RequestsOf(l, id) # {}
  <2>1. CASE i \in 1..Len(l)
    <3>1. (\E j \in RequestsOf(k, id) : j < i) <=> (\E j \in RequestsOf(l, id) : j < i)
      BY <1>1, <1>2, <1>3, <2>1
    <3>2. QED
      BY <1>1, <2>1, <3>1 DEF ResolutionsOf
  <2>2. CASE i = Len(l) + 1
    <3>1. r.type = "resolved" =>
            ((\E j \in RequestsOf(k, id) : j < i) <=> RequestsOf(l, id) # {})
      BY <1>1, <1>2, <1>3, <2>2
    <3>2. i \notin ResolutionsOf(l, id)
      BY <1>1, <1>2, <2>2
    <3>3. QED
      BY <1>1, <2>2, <3>1, <3>2 DEF ResolutionsOf
  <2>3. CASE i \notin 1..(Len(l) + 1)
    BY <1>1, <1>2, <2>3 DEF ResolutionsOf
  <2>4. QED
    BY <1>1, <2>1, <2>2, <2>3
<1>5. RequestsOf(k, id) = RequestsOf(l, id) \union
             (IF r.type = "requested" /\ r.id = id THEN {Len(l) + 1} ELSE {})
  BY <1>3
<1>6. \/ ResolutionsOf(k, id) = ResolutionsOf(l, id)
      \/ /\ ResolutionsOf(k, id) = ResolutionsOf(l, id) \union {Len(l) + 1}
         /\ r.type = "resolved"
  <2>1. CASE r.type = "resolved" /\ r.id = id /\ RequestsOf(l, id) # {}
    BY <1>4, <2>1
  <2>2. CASE ~ (r.type = "resolved" /\ r.id = id /\ RequestsOf(l, id) # {})
    BY <1>4, <2>2
  <2>3. QED
    BY <2>1, <2>2
<1>7. ResolutionsOf(k, id) = ResolutionsOf(l, id) \union
             (IF r.type = "resolved" /\ r.id = id /\ RequestsOf(l, id) # {}
                THEN {Len(l) + 1} ELSE {})
  BY <1>4
<1>8. QED
  BY <1>2, <1>5, <1>6, <1>7 DEF k

\* First and last records stay, or are the new one.
LEMMA EndsAfter ==
  ASSUME NEW l \in Seq(Record), NEW r \in Record, NEW id \in Ids,
         HasFirst(l, id), HasLast(l, id)
  PROVE  HasFirst(Append(l, r), id) /\ HasLast(Append(l, r), id)
<1>1. Len(l) \in Nat
  OBVIOUS
<1>2. HasFirst(Append(l, r), id)
  <2>1. CASE RequestsOf(l, id) = {}
    BY <1>1, <2>1, PositionsAfter DEF HasFirst
  <2>2. CASE RequestsOf(l, id) # {}
    <3>1. PICK m \in RequestsOf(l, id) : \A j \in RequestsOf(l, id) : m <= j
      BY <2>2 DEF HasFirst
    <3>2. \A j \in RequestsOf(Append(l, r), id) : m <= j
      BY <1>1, <3>1, PositionsAfter
    <3>3. QED
      BY <3>1, <3>2, PositionsAfter DEF HasFirst
  <2>3. QED
    BY <2>1, <2>2
<1>3. HasLast(Append(l, r), id)
  <2>1. CASE ResolutionsOf(Append(l, r), id) = ResolutionsOf(l, id)
    BY <2>1 DEF HasLast
  <2>2. CASE ResolutionsOf(Append(l, r), id) = ResolutionsOf(l, id) \union {Len(l) + 1}
    <3>1. \A j \in ResolutionsOf(Append(l, r), id) : j <= Len(l) + 1
      BY <1>1, <2>2, PositionsAfter
    <3>2. QED
      BY <2>2, <3>1 DEF HasLast
  <2>3. QED
    BY <2>1, <2>2, PositionsAfter
<1>4. QED
  BY <1>2, <1>3

\* A request keeps its age, whatever is appended.
LEMMA BornAfter ==
  ASSUME NEW l \in Seq(Record), NEW r \in Record, NEW id \in Ids,
         HasFirst(l, id), RequestsOf(l, id) # {}
  PROVE  /\ RequestsOf(Append(l, r), id) # {}
         /\ BornOf(Append(l, r), id) = BornOf(l, id)
<1>1. PICK m \in RequestsOf(l, id) : \A j \in RequestsOf(l, id) : m <= j
  BY DEF HasFirst
<1>2. m \in 1..Len(l) /\ Len(l) \in Nat
  BY PositionsAfter
<1>3. First(RequestsOf(l, id)) = m
  <2>1. \A i \in RequestsOf(l, id) : (\A j \in RequestsOf(l, id) : i <= j) => i = m
    BY <1>1, <1>2, PositionsAfter
  <2>2. QED
    BY <1>1, <2>1 DEF First
<1>4. First(RequestsOf(Append(l, r), id)) = m
  <2>1. /\ m \in RequestsOf(Append(l, r), id)
        /\ \A j \in RequestsOf(Append(l, r), id) : m <= j
    BY <1>1, <1>2, PositionsAfter
  <2>2. RequestsOf(Append(l, r), id) \subseteq Int
    BY <1>2, PositionsAfter
  <2>3. \A i \in RequestsOf(Append(l, r), id) :
          (\A j \in RequestsOf(Append(l, r), id) : i <= j) => i = m
    BY <1>2, <2>1, <2>2
  <2>4. QED
    BY <2>1, <2>3 DEF First
<1>5. Append(l, r)[m] = l[m]
  BY <1>2
<1>6. QED
  BY <1>1, <1>3, <1>4, <1>5, PositionsAfter DEF BornOf

\* The last resolution counts: none makes a resolved request pending.
LEMMA StatusAfter ==
  ASSUME NEW l \in Seq(Record), NEW r \in Record, NEW id \in Ids,
         HasLast(l, id), StatusOf(l, id) # "pending"
  PROVE  StatusOf(Append(l, r), id) # "pending"
<1>1. ResolutionsOf(l, id) # {} /\ StatusOf(l, id) = l[Last(ResolutionsOf(l, id))].status
  BY DEF StatusOf
<1>2. PICK m \in ResolutionsOf(l, id) : \A j \in ResolutionsOf(l, id) : j <= m
  BY <1>1 DEF HasLast
<1>3. m \in 1..Len(l) /\ Len(l) \in Nat
  BY PositionsAfter
<1>4. CASE ResolutionsOf(Append(l, r), id) = ResolutionsOf(l, id)
  <2>1. Last(ResolutionsOf(l, id)) = m
    <3>1. \A i \in ResolutionsOf(l, id) : (\A j \in ResolutionsOf(l, id) : j <= i) => i = m
      BY <1>2, <1>3, PositionsAfter
    <3>2. QED
      BY <1>2, <3>1 DEF Last
  <2>2. Append(l, r)[m] = l[m]
    BY <1>3
  <2>3. QED
    BY <1>1, <1>4, <2>1, <2>2 DEF StatusOf
<1>5. CASE /\ ResolutionsOf(Append(l, r), id) = ResolutionsOf(l, id) \union {Len(l) + 1}
           /\ r.type = "resolved"
  <2> DEFINE S == ResolutionsOf(Append(l, r), id)
  <2>1. S \subseteq Int /\ Len(l) + 1 \in S /\ \A j \in S : j <= Len(l) + 1
    BY <1>3, <1>5, PositionsAfter
  <2>2. Last(S) = Len(l) + 1
    <3>1. \A i \in S : (\A j \in S : j <= i) => i = Len(l) + 1
      BY <1>3, <2>1
    <3>2. QED
      BY <2>1, <3>1 DEF Last
  <2>3. Append(l, r)[Len(l) + 1] = r
    OBVIOUS
  <2>4. r.status \in Verdicts
    BY <1>5 DEF Record
  <2>5. S # {}
    BY <2>1
  <2>6. QED
    BY <2>2, <2>3, <2>4, <2>5 DEF StatusOf, Verdicts
<1>6. QED
  BY <1>4, <1>5, PositionsAfter

\* The age of a known request is a moment of the clock.
LEMMA BornIsNat ==
  ASSUME NEW l \in Seq(Record), NEW id \in Ids,
         HasFirst(l, id), RequestsOf(l, id) # {}
  PROVE  BornOf(l, id) \in Nat
<1>1. First(RequestsOf(l, id)) \in RequestsOf(l, id)
  BY DEF HasFirst, First
<1>2. l[First(RequestsOf(l, id))] \in Record /\ l[First(RequestsOf(l, id))].type = "requested"
  BY <1>1 DEF RequestsOf
<1>3. QED
  BY <1>2 DEF BornOf, Record

---------------------------------------------------------------------------
(* Types, and the ends of the file *)

\* Initially nothing is filed, minted or under way.
LEMMA InitType == Init => TypeInv /\ EndsInv
<1> SUFFICES ASSUME Init PROVE TypeInv /\ EndsInv
  OBVIOUS
<1>1. IsFiniteSet(minted)
  BY FS_EmptySet DEF Init
<1>2. TypeInv
  BY <1>1, InboxBounds DEF Init, TypeInv, Filing, Answering, Minted
<1>3. EndsInv
  BY DEF Init, EndsInv, HasFirst, HasLast, RequestsOf, ResolutionsOf
<1>4. QED
  BY <1>2, <1>3

\* A requester's step keeps the types.
LEMMA RequestType ==
  ASSUME TypeInv, EndsInv, NEW p \in Requesters, Request(p)
  PROVE  TypeInv'
<1> USE DEF requester, operator, Filing
<1>1. CASE Ask(p)
  <2>1. PICK t \in Tuples : req' = [req EXCEPT ![p] = [id |-> Base(t), born |-> window]]
    BY <1>1 DEF Ask
  <2>2. [id |-> Base(t), born |-> window] \in Request1
    BY InboxBounds DEF TypeInv, Request1, Base, Ids
  <2>3. QED
    BY <1>1, <2>1, <2>2 DEF Ask, TypeInv
<1>2. CASE RecordRequest(p)
  <2>1. req[p] \in Request1 /\ pc' \in [Requesters -> {"idle"} \union Filing]
    BY <1>2 DEF RecordRequest, TypeInv
  <2>2. CASE \E id \in PendingIn(log) :
               /\ req' = [req EXCEPT ![p] = [id |-> id, born |-> BornOf(log, id)]]
               /\ pc' = [pc EXCEPT ![p] = "event"]
    <3>1. PICK id \in PendingIn(log) :
            req' = [req EXCEPT ![p] = [id |-> id, born |-> BornOf(log, id)]]
      BY <2>2
    <3>2. id \in Ids /\ RequestsOf(log, id) # {}
      BY DEF PendingIn, Known
    <3>3. [id |-> id, born |-> BornOf(log, id)] \in Request1
      BY <3>2, BornIsNat DEF TypeInv, EndsInv, Request1
    <3>4. QED
      BY <1>2, <2>1, <3>1, <3>3 DEF RecordRequest, TypeInv
  <2>3. CASE req' = [req EXCEPT ![p].id =
                       IF Base(req[p].id[1]) \in Known(log)
                         THEN Reopened(req[p].id[1]) ELSE @]
    <3>1. Reopened(req[p].id[1]) \in Ids
      BY <2>1, InboxBounds DEF Reopened, Ids, Request1, TypeInv
    <3>2. req'[p] \in Request1 /\ req' \in [Requesters -> Request1 \union {None}]
      BY <2>1, <2>3, <3>1 DEF Request1, TypeInv
    <3>3. \A q \in Requesters : q # p => req'[q] = req[q] /\ pc'[q] = pc[q]
      BY <1>2, <2>3 DEF RecordRequest, TypeInv
    <3>4. QED
      BY <1>2, <2>1, <3>2, <3>3 DEF RecordRequest, TypeInv
  <2>4. QED
    BY <1>2, <2>2, <2>3 DEF RecordRequest
<1>3. CASE AppendRequest(p)
  <2>1. Requested(req[p].id, req[p].born) \in Record
    BY <1>3 DEF AppendRequest, TypeInv, Requested, Record, Request1
  <2>2. log' \in Seq(Record)
    BY <1>3, <2>1 DEF AppendRequest, TypeInv
  <2>3. QED
    BY <1>3, <2>2 DEF AppendRequest, TypeInv
<1>4. CASE RecordAsk(p)
  BY <1>4 DEF RecordAsk, TypeInv
<1>5. CASE CrashRequester(p)
  BY <1>5 DEF CrashRequester, TypeInv
<1>6. QED
  BY <1>1, <1>2, <1>3, <1>4, <1>5 DEF Request

\* An operator's step keeps the types.
LEMMA OperateType ==
  ASSUME TypeInv, NEW o \in Operators, Operate(o)
  PROVE  TypeInv'
<1> USE DEF requester, operator, Answering, Minted, Ogoto, Verdicts
<1>1. CASE \E id \in Known(log), verdict \in Verdicts : Start(o, id, verdict)
  <2>1. PICK id \in Known(log), verdict \in Verdicts : Start(o, id, verdict)
    BY <1>1
  <2>2. [id |-> id, verdict |-> verdict, picto |-> None] \in Command
    BY DEF Known, Command
  <2>3. QED
    BY <2>1, <2>2 DEF Start, Look, TypeInv
<1>2. CASE StartSweep(o)
  <2>1. PICK S \in SUBSET Stale : todo' = [todo EXCEPT ![o] = S]
    BY <1>2 DEF StartSweep
  <2>2. S \in SUBSET Ids
    BY DEF Stale, PendingIn, Known
  <2>3. QED
    BY <1>2, <2>1, <2>2 DEF StartSweep, TypeInv
<1>3. CASE SweepNext(o)
  <2>1. PICK id \in todo[o] :
          /\ todo' = [todo EXCEPT ![o] = @ \ {id}]
          /\ cmd' = [cmd EXCEPT ![o] = [id |-> id, verdict |-> "denied", picto |-> None]]
    BY <1>3 DEF SweepNext
  <2>2. [id |-> id, verdict |-> "denied", picto |-> None] \in Command
    BY DEF TypeInv, Command
  <2>3. QED
    BY <1>3, <2>1, <2>2 DEF SweepNext, TypeInv
<1>4. CASE Mint(o)
  <2>1. Cardinality(minted) \in Nat
    BY FS_CardinalityType DEF TypeInv
  <2>2. IsFiniteSet(minted')
    <3>1. minted' = minted \union {[picto |-> Cardinality(minted) + 1, id |-> cmd[o].id]}
      BY <1>4 DEF Mint
    <3>2. IsFiniteSet(minted)
      BY DEF TypeInv
    <3>3. QED
      BY <3>1, <3>2, FS_AddElement
  <2>3. cmd[o] \in Command
    BY <1>4 DEF Mint, TypeInv
  <2>4. [cmd[o] EXCEPT !.picto = Cardinality(minted) + 1] \in Command
    BY <2>1, <2>3 DEF Command
  <2>5. cmd' = [cmd EXCEPT ![o] = [cmd[o] EXCEPT !.picto = Cardinality(minted) + 1]]
    BY <1>4, <2>3 DEF Mint, TypeInv, Command
  <2>6. QED
    BY <1>4, <2>2, <2>4, <2>5 DEF Mint, TypeInv
<1>5. CASE CheckPending(o)
  BY <1>5 DEF CheckPending, Quit, TypeInv
<1>6. CASE AppendResolution(o)
  <2>1. Resolved(cmd[o].id, cmd[o].verdict, cmd[o].picto) \in Record
    BY <1>6 DEF AppendResolution, TypeInv, Resolved, Record, Command
  <2>2. log' \in Seq(Record)
    BY <1>6, <2>1 DEF AppendResolution, TypeInv
  <2>3. QED
    BY <1>6, <2>2 DEF AppendResolution, TypeInv
<1>7. CASE AuditCreated(o)
  BY <1>7 DEF AuditCreated, TypeInv
<1>8. CASE AuditResolution(o)
  BY <1>8 DEF AuditResolution, TypeInv
<1>9. CASE CrashOperator(o)
  BY <1>9 DEF CrashOperator, Quit, TypeInv
<1>10. CASE VerifyCallback(o)
  <2>1. PICK f \in Form :
          cmd' = [cmd EXCEPT ![o] = [id |-> f.id, verdict |-> f.verdict, picto |-> None]]
    BY <1>10 DEF VerifyCallback
  <2>2. [id |-> f.id, verdict |-> f.verdict, picto |-> None] \in Command
    BY DEF Form, Known, Command
  <2>3. QED
    BY <1>10, <2>1, <2>2 DEF VerifyCallback, TypeInv
<1>11. CASE ActOnCallback(o)
  <2>1. cmd[o] \in Command
    BY <1>11 DEF ActOnCallback, TypeInv
  <2>2. CASE Look(o, cmd[o].id, cmd[o].verdict) /\ UNCHANGED todo
    <3>1. [id |-> cmd[o].id, verdict |-> cmd[o].verdict, picto |-> None] \in Command
      BY <2>1 DEF Command
    <3>2. QED
      BY <1>11, <2>2, <3>1 DEF ActOnCallback, Look, TypeInv
  <2>3. CASE Quit(o)
    BY <1>11, <2>3 DEF ActOnCallback, Quit, TypeInv
  <2>4. QED
    BY <1>11, <2>2, <2>3 DEF ActOnCallback
<1>12. QED
  BY <1>1, <1>2, <1>3, <1>4, <1>5, <1>6, <1>7, <1>8, <1>9, <1>10, <1>11 DEF Operate

\* The file is left alone or grows by one well-formed record.
LEMMA LogGrows ==
  ASSUME TypeInv, [Next]_vars
  PROVE  log' = log \/ \E r \in Record : log' = Append(log, r)
<1>1. ASSUME NEW p \in Requesters, Request(p)
      PROVE  log' = log \/ \E r \in Record : log' = Append(log, r)
  <2>1. CASE AppendRequest(p)
    <3>1. Requested(req[p].id, req[p].born) \in Record
      BY <2>1 DEF AppendRequest, TypeInv, Filing, Requested, Record, Request1
    <3>2. QED
      BY <2>1, <3>1 DEF AppendRequest
  <2>2. CASE ~ AppendRequest(p)
    BY <1>1, <2>2 DEF Request, Ask, RecordRequest, RecordAsk, CrashRequester
  <2>3. QED
    BY <2>1, <2>2
<1>2. ASSUME NEW o \in Operators, Operate(o)
      PROVE  log' = log \/ \E r \in Record : log' = Append(log, r)
  <2>1. CASE AppendResolution(o)
    <3>1. Resolved(cmd[o].id, cmd[o].verdict, cmd[o].picto) \in Record
      BY <2>1 DEF AppendResolution, TypeInv, Answering, Minted, Resolved, Record, Command
    <3>2. QED
      BY <2>1, <3>1 DEF AppendResolution
  <2>2. CASE ~ AppendResolution(o)
    BY <1>2, <2>2 DEF Operate, Start, VerifyCallback,
       ActOnCallback, StartSweep, SweepNext, Mint, CheckPending,
       AuditCreated, AuditResolution, CrashOperator
  <2>3. QED
    BY <2>1, <2>2
<1>3. QED
  BY <1>1, <1>2 DEF Next, Tick, vars

\* An operator's step leaves the others where they are.
LEMMA OthersWait ==
  ASSUME TypeInv, NEW o \in Operators, NEW x \in Operators, Operate(x), x # o
  PROVE  opc'[o] = opc[o] /\ cmd'[o] = cmd[o] /\ todo'[o] = todo[o]
<1> USE DEF TypeInv, Ogoto, Quit
<1>1. CASE \/ \E id \in Known(log), verdict \in Verdicts : Start(x, id, verdict)
           \/ VerifyCallback(x) \/ ActOnCallback(x) \/ StartSweep(x)
  BY <1>1 DEF Start, Look, VerifyCallback, ActOnCallback, StartSweep
<1>2. CASE SweepNext(x) \/ Mint(x) \/ CheckPending(x) \/ AppendResolution(x)
  BY <1>2 DEF SweepNext, Mint, CheckPending, AppendResolution
<1>3. CASE AuditCreated(x) \/ AuditResolution(x) \/ CrashOperator(x)
  BY <1>3 DEF AuditCreated, AuditResolution, CrashOperator
<1>4. QED
  BY <1>1, <1>2, <1>3 DEF Operate

\* Both together are inductive.
LEMMA NextType ==
  ASSUME TypeInv, EndsInv, [Next]_vars
  PROVE  TypeInv' /\ EndsInv'
<1>1. TypeInv'
  <2>1. CASE Tick
    BY <2>1, InboxBounds DEF Tick, TypeInv, requester, operator
  <2>2. CASE UNCHANGED vars
    BY <2>2 DEF vars, TypeInv
  <2>3. QED
    BY <2>1, <2>2, RequestType, OperateType DEF Next
<1>2. EndsInv'
  <2>1. CASE log' = log
    BY <2>1 DEF EndsInv
  <2>2. CASE \E r \in Record : log' = Append(log, r)
    BY <2>2, EndsAfter DEF EndsInv, TypeInv
  <2>3. QED
    BY <2>1, <2>2, LogGrows
<1>3. QED
  BY <1>1, <1>2

\* The inbox has these types in every state.
THEOREM InboxTypes == Spec => [](TypeInv /\ EndsInv)
<1>1. TypeInv /\ EndsInv /\ [Next]_vars => (TypeInv /\ EndsInv)'
  BY NextType
<1>2. QED
  BY InitType, <1>1, PTL DEF Spec

---------------------------------------------------------------------------
(* A resolved request *)

\* record_request and resolve only append: nothing that anybody appends makes a
\* resolved request pending again.
THEOREM ResolvedForGood == Spec => ResolvedStaysResolved
<1>1. TypeInv /\ EndsInv /\ [Next]_vars =>
        [\A id \in Known(log) :
           StatusOf(log, id) # "pending" => StatusOf(log', id) # "pending"]_vars
  <2> SUFFICES ASSUME TypeInv, EndsInv, [Next]_vars,
                      NEW id \in Known(log), StatusOf(log, id) # "pending"
               PROVE  StatusOf(log', id) # "pending"
    OBVIOUS
  <2>1. id \in Ids /\ HasLast(log, id) /\ log \in Seq(Record)
    BY DEF Known, EndsInv, TypeInv
  <2>2. CASE \E r \in Record : log' = Append(log, r)
    BY <2>1, <2>2, StatusAfter
  <2>3. QED
    BY <2>2, LogGrows
<1>2. QED
  BY InboxTypes, <1>1, PTL DEF Spec, ResolvedStaysResolved

---------------------------------------------------------------------------
(* An approval has a picto *)

Named(o) == [picto |-> cmd[o].picto, id |-> cmd[o].id]

\* The picto exists from Mint on, before the record that names it is appended.
PictoInv ==
  /\ ApprovedHasPicto
  /\ \A o \in Operators :
       opc[o] \in Minted /\ cmd[o].verdict = "approved" => Named(o) \in minted

\* Every step keeps the picto of each approval, filed or under way.
LEMMA NextPicto ==
  ASSUME TypeInv, PictoInv, [Next]_vars
  PROVE  PictoInv'
<1>1. minted \subseteq minted'
  BY DEF Next, Request, Operate, Ask, RecordRequest, AppendRequest, RecordAsk,
     CrashRequester, Start, VerifyCallback,
       ActOnCallback, StartSweep, SweepNext, Mint, CheckPending,
     AppendResolution, AuditCreated, AuditResolution, CrashOperator, Tick, vars
<1>2. ApprovedHasPicto'
  <2>1. CASE log' = log
    BY <1>1, <2>1 DEF PictoInv, ApprovedHasPicto
  <2>2. ASSUME NEW p \in Requesters, AppendRequest(p)
        PROVE  ApprovedHasPicto'
    BY <1>1, <2>2 DEF AppendRequest, Requested, PictoInv, ApprovedHasPicto, TypeInv
  <2>3. ASSUME NEW o \in Operators, AppendResolution(o)
        PROVE  ApprovedHasPicto'
    <3>1. cmd[o].verdict = "approved" => Named(o) \in minted
      BY <2>3 DEF AppendResolution, PictoInv, Minted
    <3>2. /\ log' = Append(log, Resolved(cmd[o].id, cmd[o].verdict, cmd[o].picto))
          /\ minted' = minted
      BY <2>3 DEF AppendResolution
    <3>3. QED
      BY <3>1, <3>2 DEF Resolved, Named, PictoInv, ApprovedHasPicto, TypeInv
  <2>4. QED
    BY <2>1, <2>2, <2>3 DEF Next, Request, Operate, Ask, RecordRequest, RecordAsk,
       CrashRequester, Start, VerifyCallback,
       ActOnCallback, StartSweep, SweepNext, Mint, CheckPending,
       AuditCreated, AuditResolution, CrashOperator, Tick, vars
<1>3. ASSUME NEW o \in Operators, opc'[o] \in Minted, cmd'[o].verdict = "approved"
      PROVE  Named(o)' \in minted'
  <2>1. CASE opc'[o] = opc[o] /\ cmd'[o] = cmd[o]
    BY <1>1, <1>3, <2>1 DEF PictoInv, Named
  <2>2. ASSUME NEW x \in Operators, Operate(x), x # o
        PROVE  opc'[o] = opc[o] /\ cmd'[o] = cmd[o]
    BY <2>2, OthersWait
  <2>3. CASE Operate(o)
    <3>1. CASE \E id \in Known(log), verdict \in Verdicts : Start(o, id, verdict)
      BY <1>3, <3>1 DEF Start, Look, Ogoto, TypeInv, Minted, Verdicts
    <3>8. CASE VerifyCallback(o) \/ ActOnCallback(o)
      BY <1>3, <3>8 DEF VerifyCallback, ActOnCallback, Look, Ogoto, Quit, TypeInv, Minted,
         Verdicts
    <3>2. CASE SweepNext(o)
      BY <1>3, <3>2 DEF SweepNext, TypeInv
    <3>3. CASE Mint(o)
      <4>1. cmd[o] \in Command
        BY <3>3 DEF Mint, TypeInv, Answering
      <4>2. /\ cmd'[o].picto = Cardinality(minted) + 1
            /\ cmd'[o].id = cmd[o].id
        BY <3>3, <4>1 DEF Mint, TypeInv, Command
      <4>3. QED
        BY <3>3, <4>2 DEF Mint, Named
    <3>4. CASE CheckPending(o)
      BY <1>1, <1>3, <3>4 DEF CheckPending, Ogoto, Quit, PictoInv, Named, TypeInv, Minted
    <3>5. CASE AppendResolution(o) \/ AuditCreated(o)
      BY <1>1, <1>3, <3>5 DEF AppendResolution, AuditCreated, Ogoto, PictoInv, Named,
         TypeInv, Minted
    <3>6. CASE StartSweep(o) \/ AuditResolution(o) \/ CrashOperator(o)
      BY <1>3, <3>6 DEF StartSweep, AuditResolution, CrashOperator, Ogoto, Quit,
         TypeInv, Minted
    <3>7. QED
      BY <2>3, <3>1, <3>2, <3>3, <3>4, <3>5, <3>6, <3>8 DEF Operate
  <2>4. CASE (\E p \in Requesters : Request(p)) \/ Tick \/ UNCHANGED vars
    BY <2>1, <2>4 DEF Request, Ask, RecordRequest, AppendRequest, RecordAsk,
       CrashRequester, Tick, operator, vars
  <2>5. QED
    BY <2>1, <2>2, <2>3, <2>4 DEF Next
<1>4. QED
  BY <1>2, <1>3 DEF PictoInv

\* approve_request mints before it resolves, and nothing is unminted: an
\* approval in the file names a picto that was made for that request.
THEOREM ApprovalsHavePictos == Spec => []ApprovedHasPicto
<1>1. Init => PictoInv
  BY DEF Init, PictoInv, ApprovedHasPicto, Minted
<1>2. TypeInv /\ PictoInv /\ [Next]_vars => PictoInv'
  BY NextPicto
<1>3. PictoInv => ApprovedHasPicto
  BY DEF PictoInv
<1>4. QED
  BY InboxTypes, <1>1, <1>2, <1>3, PTL DEF Spec

---------------------------------------------------------------------------
(* The trail reports what the file holds *)

Holds(l, id, verdict) ==
  \E i \in DOMAIN l : l[i].type = "resolved" /\ l[i].id = id /\ l[i].status = verdict

\* Between the record and its event the command knows what it appended.
BackedInv ==
  /\ \A e \in trail : e.kind \in Verdicts => Holds(log, e.id, e.kind)
  /\ \A o \in Operators :
       opc[o] \in {"created", "announce"} => Holds(log, cmd[o].id, cmd[o].verdict)

\* What the file holds it goes on holding.
LEMMA HoldsAfter ==
  ASSUME NEW l \in Seq(Record), NEW r \in Record, NEW id, NEW verdict, Holds(l, id, verdict)
  PROVE  Holds(Append(l, r), id, verdict)
<1>1. PICK i \in DOMAIN l : l[i].type = "resolved" /\ l[i].id = id /\ l[i].status = verdict
  BY DEF Holds
<1>2. i \in DOMAIN Append(l, r) /\ Append(l, r)[i] = l[i]
  OBVIOUS
<1>3. QED
  BY <1>1, <1>2 DEF Holds

\* Every step keeps a record behind each verdict told, or about to be.
LEMMA NextBacked ==
  ASSUME TypeInv, BackedInv, [Next]_vars
  PROVE  BackedInv'
<1>1. \A id, verdict : Holds(log, id, verdict) => Holds(log', id, verdict)
  <2>1. CASE \E r \in Record : log' = Append(log, r)
    BY <2>1, HoldsAfter DEF TypeInv
  <2>2. QED
    BY <2>1, LogGrows
<1>2. ASSUME NEW e \in trail', e.kind \in Verdicts
      PROVE  Holds(log', e.id, e.kind)
  <2>1. CASE e \in trail
    BY <1>1, <1>2, <2>1 DEF BackedInv
  <2>2. ASSUME NEW o \in Operators, AuditResolution(o), e \notin trail
        PROVE  Holds(log', e.id, e.kind)
    BY <1>1, <2>2 DEF AuditResolution, ResolutionEvent, BackedInv
  <2>3. ASSUME NEW o \in Operators, AuditCreated(o), e \notin trail
        PROVE  FALSE
    BY <1>2, <2>3 DEF AuditCreated, Verdicts
  <2>4. ASSUME NEW p \in Requesters, RecordAsk(p), e \notin trail
        PROVE  FALSE
    BY <1>2, <2>4 DEF RecordAsk, Verdicts
  <2>5. QED
    BY <2>1, <2>2, <2>3, <2>4 DEF Next, Request, Operate, Ask, RecordRequest,
       AppendRequest, CrashRequester, Start, VerifyCallback,
       ActOnCallback, StartSweep, SweepNext, Mint, CheckPending,
       AppendResolution, CrashOperator, Tick, vars
<1>3. ASSUME NEW o \in Operators, opc'[o] \in {"created", "announce"}
      PROVE  Holds(log', cmd'[o].id, cmd'[o].verdict)
  <2>1. CASE opc'[o] = opc[o] /\ cmd'[o] = cmd[o]
    BY <1>1, <1>3, <2>1 DEF BackedInv
  <2>2. ASSUME NEW x \in Operators, Operate(x), x # o
        PROVE  opc'[o] = opc[o] /\ cmd'[o] = cmd[o]
    BY <2>2, OthersWait
  <2>3. CASE AppendResolution(o)
    <3>1. /\ log' = Append(log, Resolved(cmd[o].id, cmd[o].verdict, cmd[o].picto))
          /\ cmd' = cmd
      BY <2>3 DEF AppendResolution
    <3>2. /\ Len(log) + 1 \in DOMAIN log'
          /\ log'[Len(log) + 1] = Resolved(cmd[o].id, cmd[o].verdict, cmd[o].picto)
      BY <3>1 DEF TypeInv
    <3>3. QED
      BY <3>1, <3>2 DEF Resolved, Holds
  <2>4. CASE AuditCreated(o)
    BY <1>1, <2>4 DEF AuditCreated, BackedInv
  <2>5. CASE \/ \E id \in Known(log), verdict \in Verdicts : Start(o, id, verdict)
             \/ VerifyCallback(o) \/ ActOnCallback(o)
             \/ StartSweep(o) \/ SweepNext(o) \/ Mint(o) \/ CheckPending(o)
             \/ AuditResolution(o) \/ CrashOperator(o)
    BY <1>3, <2>5 DEF TypeInv, Start, Look, VerifyCallback, ActOnCallback, StartSweep,
       SweepNext, Mint, CheckPending, AuditResolution, CrashOperator, Ogoto, Quit
  <2>6. CASE (\E p \in Requesters : Request(p)) \/ Tick \/ UNCHANGED vars
    BY <2>1, <2>6 DEF Request, Ask, RecordRequest, AppendRequest, RecordAsk,
       CrashRequester, Tick, operator, vars
  <2>7. QED
    BY <2>1, <2>2, <2>3, <2>4, <2>5, <2>6 DEF Next, Operate
<1>4. QED
  BY <1>2, <1>3 DEF BackedInv

\* approve and deny write their event after the record: the audit log never
\* reports a resolution that approvals.jsonl does not hold.
THEOREM ResolutionsAreBacked == Spec => []AuditBacked
<1>1. Init => BackedInv
  BY DEF Init, BackedInv
<1>2. TypeInv /\ BackedInv /\ [Next]_vars => BackedInv'
  BY NextBacked
<1>3. BackedInv => AuditBacked
  BY DEF BackedInv, Holds, AuditBacked
<1>4. QED
  BY InboxTypes, <1>1, <1>2, <1>3, PTL DEF Spec

---------------------------------------------------------------------------
(* A sweep denies only what was old when it listed *)

Old(id) == RequestsOf(log, id) # {} /\ window - BornOf(log, id) >= OlderThan
SweepInv == \A o \in Operators : \A id \in todo[o] : Old(id)

\* What is old stays old: the clock only moves on, and an append keeps the age.
LEMMA OldStays ==
  ASSUME TypeInv, EndsInv, [Next]_vars, NEW id \in Ids, Old(id)
  PROVE  Old(id)'
<1>1. HasFirst(log, id) /\ RequestsOf(log, id) # {} /\ log \in Seq(Record)
  BY DEF EndsInv, Old, TypeInv
<1>2. /\ RequestsOf(log', id) # {}
      /\ BornOf(log', id) = BornOf(log, id)
  <2>1. CASE \E r \in Record : log' = Append(log, r)
    BY <1>1, <2>1, BornAfter
  <2>2. QED
    BY <1>1, <2>1, LogGrows
<1>3. window' = window \/ window' = window + 1
  BY DEF Next, Request, Operate, Ask, RecordRequest, AppendRequest, RecordAsk,
     CrashRequester, Start, VerifyCallback,
       ActOnCallback, StartSweep, SweepNext, Mint, CheckPending,
     AppendResolution, AuditCreated, AuditResolution, CrashOperator, Tick, vars
<1>4. BornOf(log, id) \in Nat /\ window \in Int /\ OlderThan \in Nat
  BY <1>1, BornIsNat, InboxBounds DEF TypeInv
<1>5. QED
  BY <1>2, <1>3, <1>4 DEF Old

\* deny-stale lists once and then replays a file that others append to: what it
\* still has to deny is past the threshold, also after a repeated record.
THEOREM SweepsSpareFresh == Spec => []SweepSparesFresh
<1>1. Init => SweepInv
  BY DEF Init, SweepInv
<1>2. TypeInv /\ EndsInv /\ SweepInv /\ [Next]_vars => SweepInv'
  <2> SUFFICES ASSUME TypeInv, EndsInv, SweepInv, [Next]_vars,
                      NEW o \in Operators, NEW id \in todo'[o]
               PROVE  Old(id)'
    BY DEF SweepInv
  <2>1. id \in Ids /\ Old(id)
    <3>1. CASE id \in todo[o]
      BY <3>1 DEF TypeInv, SweepInv
    <3>2. ASSUME NEW x \in Operators, StartSweep(x), id \notin todo[o]
          PROVE  id \in Stale
      BY <3>2 DEF StartSweep, TypeInv
    <3>3. CASE id \in Stale
      BY <3>3 DEF Stale, PendingIn, Known, Old
    <3>4. CASE todo' = todo
      BY <3>1, <3>4
    <3>5. ASSUME NEW x \in Operators,
                 ActOnCallback(x) \/ SweepNext(x) \/ CheckPending(x) \/ CrashOperator(x)
          PROVE  id \in todo[o]
      BY <3>5 DEF ActOnCallback, SweepNext, CheckPending, CrashOperator, Quit, TypeInv
    <3>6. QED
      BY <3>1, <3>2, <3>3, <3>4, <3>5 DEF Next, Request, Operate, Ask, RecordRequest,
         AppendRequest, RecordAsk, CrashRequester, Start, VerifyCallback, ActOnCallback,
         Mint, AppendResolution, AuditCreated, AuditResolution, Tick, operator, vars
  <2>2. QED
    BY <2>1, OldStays
<1>3. SweepInv => SweepSparesFresh
  BY DEF SweepInv, Old, SweepSparesFresh
<1>4. QED
  BY InboxTypes, <1>1, <1>2, <1>3, PTL DEF Spec
----------------------------------------------------------------
---------------------------------------------------------------------------
(* A request is answered once *)

\* What is known stays known, and so do the ids of a sweep and of a command.
KnownInv ==
  \A o \in Operators :
    /\ \A id \in todo[o] : RequestsOf(log, id) # {}
    /\ opc[o] \in Answering => RequestsOf(log, cmd[o].id) # {}

\* A command that has minted holds the picto; a denial holds none.
HeldInv ==
  \A o \in Operators :
    /\ opc[o] = "mint" => cmd[o].verdict = "approved"
    /\ opc[o] \in {"resolve", "append"} =>
         (cmd[o].verdict = "approved" <=> cmd[o].picto # None)

\* What replay and the store have for a request nobody has crossed on: nothing
\* while it is being answered but the picto of the one who answers it.
Answer(id) ==
  /\ \A x, y \in Operators : Engaged(x, id) /\ Engaged(y, id) => x = y
  /\ \A i, j \in ResolutionsOf(log, id) : i = j
  /\ \A m, n \in PictosFor(id) : m = n
  /\ \A o \in Operators : Engaged(o, id) =>
       /\ ResolutionsOf(log, id) = {}
       /\ opc[o] = "mint" \/ cmd[o].verdict = "denied" => PictosFor(id) = {}
  /\ PictosFor(id) # {} =>
       StatusOf(log, id) = "approved" \/ \E o \in Operators : Engaged(o, id)

AnswerInv == KnownInv /\ HeldInv /\ \A id \in Ids \ split : Answer(id)

\* Nothing of what Answer speaks of has changed.
Untouched(id) ==
  /\ ResolutionsOf(log', id) = ResolutionsOf(log, id)
  /\ StatusOf(log', id) = StatusOf(log, id)
  /\ PictosFor(id)' = PictosFor(id)
Steady(o, id) ==
  /\ Engaged(o, id)' <=> Engaged(o, id)
  /\ Engaged(o, id) => cmd'[o].verdict = cmd[o].verdict /\ (opc'[o] = "mint" => opc[o] = "mint")

\* An answer that is not touched stays as it is.
LEMMA AnswerStays ==
  ASSUME NEW id, Answer(id), Untouched(id), \A o \in Operators : Steady(o, id)
  PROVE  Answer(id)'
BY DEF Answer, Untouched, Steady

\* What an append leaves as it was.
LEMMA AppendLeaves ==
  ASSUME NEW l \in Seq(Record), NEW r \in Record, NEW id \in Ids, HasLast(l, id),
         ~ (r.type = "resolved" /\ r.id = id)
  PROVE  /\ ResolutionsOf(Append(l, r), id) = ResolutionsOf(l, id)
         /\ StatusOf(Append(l, r), id) = StatusOf(l, id)
<1>1. ResolutionsOf(Append(l, r), id) = ResolutionsOf(l, id)
  BY SMTT(20), PositionsAfter
<1>2. CASE ResolutionsOf(l, id) # {}
  <2>1. Last(ResolutionsOf(l, id)) \in ResolutionsOf(l, id)
    BY <1>2 DEF HasLast, Last
  <2>2. Append(l, r)[Last(ResolutionsOf(l, id))] = l[Last(ResolutionsOf(l, id))]
    BY <2>1, PositionsAfter
  <2>3. QED
    BY <1>1, <2>2 DEF StatusOf
<1>3. QED
  BY <1>1, <1>2 DEF StatusOf

\* The first answer a request gets.
LEMMA AppendAnswers ==
  ASSUME NEW l \in Seq(Record), NEW r \in Record, r.type = "resolved",
         RequestsOf(l, r.id) # {}, ResolutionsOf(l, r.id) = {}
  PROVE  /\ ResolutionsOf(Append(l, r), r.id) = {Len(l) + 1}
         /\ StatusOf(Append(l, r), r.id) = r.status
<1>1. r.id \in Ids
  BY DEF Record
<1>2. ResolutionsOf(Append(l, r), r.id) = {Len(l) + 1}
  BY <1>1, PositionsAfter
<1>3. Last({Len(l) + 1}) = Len(l) + 1
  BY DEF Last
<1>4. Append(l, r)[Len(l) + 1] = r
  OBVIOUS
<1>5. QED
  BY <1>2, <1>3, <1>4 DEF StatusOf

\* A pending request has no resolution.
LEMMA PendingIsBare ==
  ASSUME TypeInv, EndsInv, NEW id \in Ids
  PROVE  StatusOf(log, id) = "pending" <=> ResolutionsOf(log, id) = {}
<1>1. ASSUME ResolutionsOf(log, id) # {} PROVE StatusOf(log, id) \in Verdicts
  <2>1. Last(ResolutionsOf(log, id)) \in ResolutionsOf(log, id)
    BY <1>1 DEF EndsInv, HasLast, Last
  <2>2. /\ log[Last(ResolutionsOf(log, id))] \in Record
        /\ log[Last(ResolutionsOf(log, id))].type = "resolved"
    BY <2>1 DEF ResolutionsOf, TypeInv
  <2>3. QED
    BY <1>1, <2>2 DEF StatusOf, Record
<1>2. QED
  BY <1>1 DEF StatusOf, Verdicts

\* The known stay known.
LEMMA NextKnown ==
  ASSUME TypeInv, EndsInv, KnownInv, [Next]_vars
  PROVE  KnownInv'
<1>1. \A id \in Ids : RequestsOf(log, id) # {} => RequestsOf(log', id) # {}
  <2>1. ASSUME NEW r \in Record, log' = Append(log, r), NEW id \in Ids,
               RequestsOf(log, id) # {}
        PROVE  RequestsOf(log', id) # {}
    BY <2>1, PositionsAfter DEF TypeInv
  <2>2. QED
    BY <2>1, LogGrows
<1>2. ASSUME NEW o \in Operators, NEW id \in todo'[o] PROVE id \in Ids /\ RequestsOf(log, id) # {}
  <2>1. CASE id \in todo[o]
    BY <2>1 DEF KnownInv, TypeInv
  <2>2. ASSUME NEW x \in Operators, StartSweep(x), id \notin todo[o]
        PROVE  id \in Stale
    BY <2>2 DEF StartSweep, TypeInv
  <2>3. CASE id \in Stale
    BY <2>3 DEF Stale, PendingIn, Known
  <2>4. ASSUME NEW x \in Operators,
               ActOnCallback(x) \/ SweepNext(x) \/ CheckPending(x) \/ CrashOperator(x)
        PROVE  id \in todo[o]
    BY <2>4 DEF ActOnCallback, SweepNext, CheckPending, CrashOperator, Quit, TypeInv
  <2>5. CASE todo' = todo
    BY <2>1, <2>5
  <2>6. QED
    BY <2>1, <2>2, <2>3, <2>4, <2>5 DEF Next, Request, Operate, Ask, RecordRequest,
       AppendRequest, RecordAsk, CrashRequester, Start, VerifyCallback, Mint,
       AppendResolution, AuditCreated, AuditResolution, Tick, operator, vars
<1>3. ASSUME NEW o \in Operators, opc'[o] \in Answering
      PROVE  cmd'[o].id \in Ids /\ RequestsOf(log, cmd'[o].id) # {}
  <2>1. CASE opc[o] \in Answering /\ cmd'[o] = cmd[o]
    BY <2>1 DEF KnownInv, TypeInv, Command
  <2>2. CASE opc'[o] = opc[o] /\ cmd'[o] = cmd[o]
    BY <1>3, <2>1, <2>2
  <2>3. CASE Operate(o)
    <3>1. CASE \E id \in Known(log), verdict \in Verdicts : Start(o, id, verdict)
      BY <3>1 DEF Start, Look, Known, TypeInv
    <3>2. CASE VerifyCallback(o)
      <4>1. PICK f \in Form :
              cmd' = [cmd EXCEPT ![o] = [id |-> f.id, verdict |-> f.verdict, picto |-> None]]
        BY <3>2 DEF VerifyCallback
      <4>2. QED
        BY <4>1 DEF Form, Known, TypeInv
    <3>3. CASE ActOnCallback(o)
      <4>1. opc[o] \in Answering /\ cmd[o] \in Command
        BY <3>3 DEF ActOnCallback, Answering, TypeInv
      <4>2. CASE Look(o, cmd[o].id, cmd[o].verdict)
        BY <4>1, <4>2 DEF Look, KnownInv, Command, TypeInv
      <4>3. CASE Quit(o)
        BY <1>3, <4>3 DEF Quit, Ogoto, TypeInv, Answering, Minted
      <4>4. QED
        BY <3>3, <4>2, <4>3 DEF ActOnCallback
    <3>4. CASE SweepNext(o)
      <4>1. PICK id \in todo[o] :
              cmd' = [cmd EXCEPT ![o] = [id |-> id, verdict |-> "denied", picto |-> None]]
        BY <3>4 DEF SweepNext
      <4>2. QED
        BY <4>1 DEF KnownInv, TypeInv
    <3>5. CASE Mint(o)
      <4>1. cmd[o] \in Command /\ opc[o] \in Answering
        BY <3>5 DEF Mint, Answering, TypeInv
      <4>2. cmd'[o].id = cmd[o].id
        BY <3>5, <4>1 DEF Mint, TypeInv, Command
      <4>3. QED
        BY <4>1, <4>2 DEF KnownInv, Command
    <3>6. CASE CheckPending(o)
      BY <1>3, <2>1, <3>6 DEF CheckPending, Quit, Ogoto, TypeInv, Answering, Minted
    <3>7. CASE AppendResolution(o) \/ AuditCreated(o)
      BY <2>1, <3>7 DEF AppendResolution, AuditCreated, Answering, Minted
    <3>8. CASE StartSweep(o) \/ AuditResolution(o) \/ CrashOperator(o)
      BY <1>3, <3>8 DEF StartSweep, AuditResolution, CrashOperator, Quit, Ogoto, TypeInv,
         Answering, Minted
    <3>9. QED
      BY <2>3, <3>1, <3>2, <3>3, <3>4, <3>5, <3>6, <3>7, <3>8 DEF Operate
  <2>4. CASE (\E p \in Requesters : Request(p)) \/ Tick \/ UNCHANGED vars
    BY <2>2, <2>4 DEF Request, Ask, RecordRequest, AppendRequest, RecordAsk,
       CrashRequester, Tick, operator, vars
  <2>5. QED
    BY <2>2, <2>3, <2>4, OthersWait DEF Next
<1>4. QED
  BY <1>1, <1>2, <1>3 DEF KnownInv

\* A command keeps in mind whether it has minted.
LEMMA NextHeld ==
  ASSUME TypeInv, HeldInv, [Next]_vars
  PROVE  HeldInv'
<1> USE DEF Ogoto
<1> DEFINE Held(o) ==
      /\ opc[o] = "mint" => cmd[o].verdict = "approved"
      /\ opc[o] \in {"resolve", "append"} =>
           (cmd[o].verdict = "approved" <=> cmd[o].picto # None)
<1>1. \A o \in Operators : opc'[o] = opc[o] /\ cmd'[o] = cmd[o] => Held(o)'
  BY DEF HeldInv
<1>2. ASSUME NEW o \in Operators, Operate(o) PROVE Held(o)'
  <2>1. ASSUME NEW id, NEW verdict \in Verdicts, Look(o, id, verdict)
        PROVE  Held(o)'
    BY <2>1 DEF Look, TypeInv, Verdicts
  <2>2. CASE \E id \in Known(log), verdict \in Verdicts : Start(o, id, verdict)
    BY <2>1, <2>2 DEF Start
  <2>3. CASE ActOnCallback(o)
    <3>1. cmd[o].verdict \in Verdicts
      BY <2>3 DEF ActOnCallback, TypeInv, Answering, Command
    <3>2. CASE Quit(o)
      BY <3>2 DEF Quit, TypeInv
    <3>3. QED
      BY <2>1, <2>3, <3>1, <3>2 DEF ActOnCallback
  <2>4. CASE SweepNext(o)
    <3>1. cmd'[o].verdict = "denied" /\ cmd'[o].picto = None /\ opc'[o] = "resolve"
      BY <2>4 DEF SweepNext, TypeInv
    <3>2. QED
      BY <3>1
  <2>5. CASE Mint(o)
    <3>1. cmd[o] \in Command /\ cmd[o].verdict = "approved"
      BY <2>5 DEF Mint, TypeInv, Answering, HeldInv
    <3>2. Cardinality(minted) \in Nat
      BY FS_CardinalityType DEF TypeInv
    <3>3. cmd'[o].picto = Cardinality(minted) + 1 /\ cmd'[o].verdict = "approved"
      BY <2>5, <3>1 DEF Mint, TypeInv, Command
    <3>4. opc'[o] = "resolve"
      BY <2>5 DEF Mint, TypeInv
    <3>5. QED
      BY <3>2, <3>3, <3>4, NoneIsNoNumber
  <2>6. CASE CheckPending(o)
    BY <2>6 DEF CheckPending, Quit, TypeInv, HeldInv
  <2>7. CASE \/ VerifyCallback(o) \/ StartSweep(o) \/ AppendResolution(o)
             \/ AuditCreated(o) \/ AuditResolution(o) \/ CrashOperator(o)
    <3>1. opc'[o] \in {"called", "next", "created", "announce", "idle"}
      BY <2>7 DEF VerifyCallback, StartSweep, AppendResolution, AuditCreated,
         AuditResolution, CrashOperator, Quit, TypeInv
    <3>2. QED
      BY <3>1
  <2>8. QED
    BY <1>2, <2>2, <2>3, <2>4, <2>5, <2>6, <2>7 DEF Operate
<1>3. ASSUME NEW o \in Operators PROVE Held(o)'
  <2>1. CASE (\E p \in Requesters : Request(p)) \/ Tick \/ UNCHANGED vars
    <3>1. opc' = opc /\ cmd' = cmd
      BY <2>1 DEF Request, Ask, RecordRequest, AppendRequest, RecordAsk,
         CrashRequester, Tick, operator, vars
    <3>2. QED
      BY <1>1, <3>1
  <2>2. CASE \E x \in Operators \ {o} : Operate(x)
    <3>1. opc'[o] = opc[o] /\ cmd'[o] = cmd[o]
      BY <2>2, OthersWait
    <3>2. QED
      BY <1>1, <3>1
  <2>3. CASE Operate(o)
    BY <1>2, <2>3
  <2>4. QED
    BY <2>1, <2>2, <2>3 DEF Next
<1>4. QED
  BY <1>3 DEF HeldInv

\* A crossing stays on record.
LEMMA SplitGrows ==
  ASSUME [Next]_vars
  PROVE  split \subseteq split'
BY DEF Next, Request, Operate, Ask, RecordRequest, AppendRequest, RecordAsk, CrashRequester,
   Start, Look, Cross, VerifyCallback, ActOnCallback, StartSweep, SweepNext, Mint,
   CheckPending, AppendResolution, AuditCreated, AuditResolution, CrashOperator, Tick,
   operator, vars

\* The look of an approval finds a request that nobody is answering, or crosses.
LEMMA LookAnswers ==
  ASSUME TypeInv, EndsInv, NEW o \in Operators, NEW id \in Ids \ split',
         NEW target \in Ids, NEW verdict \in Verdicts, Answer(id),
         opc[o] \in {"idle", "called"}, Look(o, target, verdict), UNCHANGED <<log, minted>>,
         \A x \in Operators \ {o} : opc'[x] = opc[x] /\ cmd'[x] = cmd[x]
  PROVE  Answer(id)'
<1>1. \A x \in Operators \ {o} : Steady(x, id)
  BY DEF Steady, Engaged
<1>2. Untouched(id) /\ ~Engaged(o, id)
  BY DEF Untouched, PictosFor, Engaged
<1>3. /\ cmd'[o] = [id |-> target, verdict |-> verdict, picto |-> None]
      /\ opc'[o] = IF verdict = "approved" THEN "mint" ELSE "resolve"
  BY DEF Look, Ogoto, TypeInv
<1>4. CASE verdict = "approved" /\ target = id
  <2>1. StatusOf(log, id) = "pending" /\ \A x \in Operators \ {o} : ~Engaged(x, id)
    BY <1>4 DEF Look, Cross
  <2>2. ResolutionsOf(log, id) = {} /\ PictosFor(id) = {}
    BY <1>2, <2>1, PendingIsBare DEF Answer
  <2>3. Engaged(o, id)' /\ \A x \in Operators \ {o} : ~Engaged(x, id)'
    BY <1>1, <1>3, <1>4, <2>1 DEF Steady, Engaged
  <2>4. ResolutionsOf(log', id) = {} /\ PictosFor(id)' = {}
    BY <1>2, <2>2 DEF Untouched
  <2>5. QED
    BY <2>3, <2>4 DEF Answer
<1>5. CASE ~ (verdict = "approved" /\ target = id)
  <2>1. ~Engaged(o, id)'
    BY <1>3, <1>5 DEF Engaged
  <2>2. QED
    BY <1>1, <1>2, <2>1, AnswerStays DEF Steady
<1>6. QED
  BY <1>4, <1>5

\* An operator's step keeps what Answer says of a request.
LEMMA OperateAnswers ==
  ASSUME TypeInv, EndsInv, AnswerInv, NEW o \in Operators, Operate(o), [Next]_vars,
         NEW id \in Ids \ split'
  PROVE  Answer(id)'
<1> USE DEF Ogoto
<1>0. id \in Ids /\ id \notin split /\ Answer(id) /\ KnownInv /\ HeldInv
  BY SplitGrows DEF AnswerInv
<1>1. \A x \in Operators \ {o} : opc'[x] = opc[x] /\ cmd'[x] = cmd[x]
  BY OthersWait
<1>2. \A x \in Operators \ {o} : Steady(x, id)
  BY <1>1 DEF Steady, Engaged
<1>3. UNCHANGED <<log, minted>> => Untouched(id)
  BY DEF Untouched, PictosFor
<1>4. CASE \E target \in Known(log), verdict \in Verdicts : Start(o, target, verdict)
  <2>1. PICK target \in Known(log), verdict \in Verdicts : Start(o, target, verdict)
    BY <1>4
  <2>2. opc[o] = "idle" /\ Look(o, target, verdict) /\ UNCHANGED <<log, minted>>
    BY <2>1 DEF Start
  <2>3. target \in Ids
    BY DEF Known
  <2>4. QED
    BY <1>0, <1>1, <2>2, <2>3, LookAnswers
<1>5. CASE ActOnCallback(o)
  <2>1. /\ opc[o] = "called" /\ UNCHANGED <<log, minted>>
        /\ cmd[o].id \in Ids /\ cmd[o].verdict \in Verdicts
    BY <1>5 DEF ActOnCallback, TypeInv, Answering, Command
  <2>2. CASE Look(o, cmd[o].id, cmd[o].verdict)
    BY <1>0, <1>1, <2>1, <2>2, LookAnswers
  <2>3. CASE Quit(o)
    <3>1. opc'[o] = "idle"
      BY <2>3 DEF Quit, TypeInv
    <3>2. ~Engaged(o, id) /\ ~Engaged(o, id)'
      BY <2>1, <3>1 DEF Engaged
    <3>3. QED
      BY <1>0, <1>2, <1>3, <2>1, <3>2, AnswerStays DEF Steady
  <2>4. QED
    BY <1>5, <2>2, <2>3 DEF ActOnCallback
<1>6. CASE VerifyCallback(o) \/ StartSweep(o) \/ SweepNext(o)
  <2>1. /\ opc[o] \in {"idle", "next"} /\ UNCHANGED <<log, minted>>
        /\ \/ opc'[o] \in {"called", "next"}
           \/ opc'[o] = "resolve" /\ cmd'[o].verdict = "denied"
    BY <1>6 DEF VerifyCallback, StartSweep, SweepNext, TypeInv
  <2>2. ~Engaged(o, id) /\ ~Engaged(o, id)'
    BY <2>1 DEF Engaged
  <2>3. QED
    BY <1>0, <1>2, <1>3, <2>1, <2>2, AnswerStays DEF Steady
<1>7. CASE Mint(o)
  <2>1. /\ opc[o] = "mint" /\ opc'[o] = "resolve" /\ log' = log
        /\ cmd[o].verdict = "approved" /\ cmd[o] \in Command
        /\ minted' = minted \union {[picto |-> Cardinality(minted) + 1, id |-> cmd[o].id]}
    BY <1>0, <1>7 DEF Mint, TypeInv, Answering, HeldInv
  <2>2. cmd'[o].id = cmd[o].id /\ cmd'[o].verdict = "approved"
    BY <1>7, <2>1 DEF Mint, TypeInv, Command
  <2>3. Engaged(o, id) <=> cmd[o].id = id
    BY <2>1 DEF Engaged
  <2>4. Steady(o, id)
    BY <2>1, <2>2 DEF Steady, Engaged
  <2>5. CASE cmd[o].id # id
    <3>1. PictosFor(id)' = PictosFor(id)
      BY <2>1, <2>5 DEF PictosFor
    <3>2. QED
      BY <1>0, <1>2, <2>1, <2>4, <3>1, AnswerStays DEF Untouched
  <2>6. CASE cmd[o].id = id
    <3>1. PictosFor(id) = {} /\ ResolutionsOf(log, id) = {}
          /\ \A x \in Operators : Engaged(x, id) => x = o
      BY <1>0, <2>1, <2>3, <2>6 DEF Answer
    <3>2. PictosFor(id)' = {[picto |-> Cardinality(minted) + 1, id |-> id]}
      BY <2>1, <2>6, <3>1 DEF PictosFor
    <3>3. \A x \in Operators : Engaged(x, id)' <=> x = o
      BY <1>2, <2>3, <2>4, <2>6, <3>1 DEF Steady
    <3>4. QED
      BY <2>1, <2>2, <3>1, <3>2, <3>3 DEF Answer
  <2>7. QED
    BY <2>5, <2>6
<1>8. CASE CheckPending(o)
  <2>1. opc[o] = "resolve" /\ UNCHANGED <<log, minted>> /\ cmd[o] \in Command
    BY <1>8 DEF CheckPending, TypeInv, Answering, Minted
  <2>2. CASE StatusOf(log, cmd[o].id) = "pending"
    <3>1. opc'[o] = "append" /\ cmd' = cmd /\ Cross(o, cmd[o].id)
      BY <1>8, <2>2 DEF CheckPending, TypeInv
    <3>2. CASE cmd[o].verdict = "approved" \/ cmd[o].id # id
      <4>1. Steady(o, id)
        BY <2>1, <3>1, <3>2 DEF Steady, Engaged
      <4>2. QED
        BY <1>0, <1>2, <1>3, <2>1, <4>1, AnswerStays
    <3>3. CASE cmd[o].verdict = "denied" /\ cmd[o].id = id
      <4>1. \A x \in Operators \ {o} : ~Engaged(x, id)
        BY <3>1, <3>3 DEF Cross
      <4>2. ~Engaged(o, id) /\ Engaged(o, id)'
        BY <2>1, <3>1, <3>3 DEF Engaged
      <4>3. ResolutionsOf(log, id) = {} /\ PictosFor(id) = {}
        BY <1>0, <2>2, <3>3, <4>1, <4>2, PendingIsBare DEF Answer
      <4>4. ResolutionsOf(log', id) = {} /\ PictosFor(id)' = {}
        BY <1>3, <2>1, <4>3 DEF Untouched
      <4>5. \A x \in Operators : Engaged(x, id)' <=> x = o
        BY <1>2, <4>1, <4>2 DEF Steady
      <4>6. QED
        BY <4>4, <4>5 DEF Answer
    <3>4. QED
      BY <2>1, <3>2, <3>3 DEF Command, Verdicts
  <2>3. CASE StatusOf(log, cmd[o].id) # "pending"
    <3>1. opc'[o] = "idle"
      BY <1>8, <2>3 DEF CheckPending, Quit, TypeInv
    <3>2. ~Engaged(o, id)
      <4>1. SUFFICES ASSUME Engaged(o, id) PROVE FALSE
        OBVIOUS
      <4>2. cmd[o].id = id /\ ResolutionsOf(log, id) = {}
        BY <1>0, <4>1 DEF Answer, Engaged
      <4>3. QED
        BY <1>0, <2>3, <4>2, PendingIsBare
    <3>3. ~Engaged(o, id)'
      BY <3>1 DEF Engaged
    <3>4. QED
      BY <1>0, <1>2, <1>3, <2>1, <3>2, <3>3, AnswerStays DEF Steady
  <2>4. QED
    BY <2>2, <2>3
<1>9. CASE AppendResolution(o)
  <2> DEFINE r == Resolved(cmd[o].id, cmd[o].verdict, cmd[o].picto)
  <2>1. /\ opc[o] = "append" /\ opc'[o] \in {"announce", "created"} /\ minted' = minted
        /\ cmd' = cmd /\ cmd[o] \in Command /\ log' = Append(log, r)
    BY <1>9 DEF AppendResolution, TypeInv, Answering, Minted
  <2>2. r \in Record /\ r.type = "resolved" /\ r.id = cmd[o].id /\ r.status = cmd[o].verdict
    BY <2>1 DEF Resolved, Record, Command
  <2> HIDE DEF r
  <2>3. ~Engaged(o, id)' /\ PictosFor(id)' = PictosFor(id)
    BY <2>1 DEF Engaged, PictosFor
  <2>4. CASE cmd[o].id # id
    <3>1. Untouched(id)
      BY <1>0, <2>1, <2>2, <2>3, <2>4, AppendLeaves DEF Untouched, EndsInv, TypeInv
    <3>2. ~Engaged(o, id)
      BY <2>4 DEF Engaged
    <3>3. QED
      BY <1>0, <1>2, <2>3, <3>1, <3>2, AnswerStays DEF Steady
  <2>5. CASE cmd[o].id = id
    <3>1. Engaged(o, id) /\ RequestsOf(log, id) # {}
      BY <1>0, <2>1, <2>5 DEF Engaged, KnownInv, Answering, Minted
    <3>2. /\ ResolutionsOf(log, id) = {} /\ \A x \in Operators : Engaged(x, id) => x = o
          /\ cmd[o].verdict = "denied" => PictosFor(id) = {}
      BY <1>0, <3>1 DEF Answer
    <3>3. /\ ResolutionsOf(log', id) = {Len(log) + 1}
          /\ StatusOf(log', id) = cmd[o].verdict
      BY <2>1, <2>2, <2>5, <3>1, <3>2, AppendAnswers DEF TypeInv
    <3>4. \A x \in Operators : ~Engaged(x, id)'
      BY <1>2, <2>3, <3>2 DEF Steady
    <3>5. cmd[o].verdict \in {"approved", "denied"}
      BY <2>1 DEF Command, Verdicts
    <3>6. \A m, n \in PictosFor(id)' : m = n
      BY <1>0, <2>3 DEF Answer
    <3>7. QED
      BY <2>3, <3>2, <3>3, <3>4, <3>5, <3>6 DEF Answer
  <2>6. QED
    BY <2>4, <2>5
<1>10. CASE AuditCreated(o) \/ AuditResolution(o)
  <2>1. /\ opc[o] \in {"created", "announce"} /\ opc'[o] \in {"announce", "idle", "next"}
        /\ UNCHANGED <<log, minted>>
    BY <1>10 DEF AuditCreated, AuditResolution, TypeInv
  <2>2. ~Engaged(o, id) /\ ~Engaged(o, id)'
    BY <2>1 DEF Engaged
  <2>3. QED
    BY <1>0, <1>2, <1>3, <2>1, <2>2, AnswerStays DEF Steady
<1>11. CASE CrashOperator(o)
  <2>1. opc'[o] = "idle" /\ UNCHANGED <<log, minted>>
    BY <1>11 DEF CrashOperator, Quit, TypeInv
  <2>2. ~Engaged(o, id)' /\ Untouched(id)
    BY <1>3, <2>1 DEF Engaged
  <2>3. CASE Engaged(o, id)
    <3>1. cmd[o].id = id /\ opc[o] \in {"mint", "resolve", "append"}
      BY <2>3 DEF Engaged
    <3>2. RequestsOf(log, id) # {} /\ cmd[o].verdict \in {"approved", "denied"}
      BY <1>0, <3>1 DEF KnownInv, Answering, Minted, TypeInv, Command, Verdicts
    <3>3. opc[o] = "mint" \/ cmd[o].picto = None
      BY <1>11, <3>1, <3>2 DEF CrashOperator, Known
    <3>4. opc[o] = "mint" \/ cmd[o].verdict = "denied"
      BY <1>0, <3>1, <3>2, <3>3 DEF HeldInv
    <3>5. ResolutionsOf(log, id) = {} /\ PictosFor(id) = {}
          /\ \A x \in Operators : Engaged(x, id) => x = o
      BY <1>0, <2>3, <3>4 DEF Answer
    <3>6. \A x \in Operators : ~Engaged(x, id)'
      BY <1>2, <2>2, <3>5 DEF Steady
    <3>7. ResolutionsOf(log', id) = {} /\ PictosFor(id)' = {}
      BY <2>2, <3>5 DEF Untouched
    <3>8. QED
      BY <3>6, <3>7 DEF Answer
  <2>4. CASE ~Engaged(o, id)
    BY <1>0, <1>2, <2>2, <2>4, AnswerStays DEF Steady
  <2>5. QED
    BY <2>3, <2>4
<1>12. QED
  BY <1>4, <1>5, <1>6, <1>7, <1>8, <1>9, <1>10, <1>11 DEF Operate

\* Every step keeps the answers.
LEMMA NextAnswer ==
  ASSUME TypeInv, EndsInv, AnswerInv, [Next]_vars
  PROVE  AnswerInv'
<1>1. KnownInv' /\ HeldInv'
  BY NextKnown, NextHeld DEF AnswerInv
<1>2. ASSUME NEW id \in Ids \ split' PROVE Answer(id)'
  <2>1. CASE \E o \in Operators : Operate(o)
    BY <2>1, OperateAnswers
  <2>2. CASE (\E p \in Requesters : Request(p)) \/ Tick \/ UNCHANGED vars
    <3>1. UNCHANGED <<opc, cmd, split, minted>>
      BY <2>2 DEF Request, Ask, RecordRequest, AppendRequest, RecordAsk, CrashRequester,
         Tick, operator, vars
    <3>2. log' = log \/ \E r \in Record : r.type = "requested" /\ log' = Append(log, r)
      <4>1. ASSUME NEW p \in Requesters, AppendRequest(p)
            PROVE  \E r \in Record : r.type = "requested" /\ log' = Append(log, r)
        BY <4>1 DEF AppendRequest, TypeInv, Filing, Requested, Record, Request1
      <4>2. QED
        BY <2>2, <4>1 DEF Request, Ask, RecordRequest, RecordAsk, CrashRequester, Tick, vars
    <3>3. Untouched(id)
      <4>1. CASE log' = log
        BY <3>1, <4>1 DEF Untouched, PictosFor
      <4>2. ASSUME NEW r \in Record, r.type = "requested", log' = Append(log, r)
            PROVE  Untouched(id)
        <5>1. HasLast(log, id) /\ log \in Seq(Record) /\ id \in Ids
          BY DEF EndsInv, TypeInv
        <5>2. /\ ResolutionsOf(log', id) = ResolutionsOf(log, id)
              /\ StatusOf(log', id) = StatusOf(log, id)
          BY <4>2, <5>1, AppendLeaves
        <5>3. QED
          BY <3>1, <5>2 DEF Untouched, PictosFor
      <4>3. QED
        BY <3>2, <4>1, <4>2
    <3>4. \A o \in Operators : Steady(o, id)
      BY <3>1 DEF Steady, Engaged
    <3>5. Answer(id)
      BY <3>1 DEF AnswerInv
    <3>6. QED
      BY <3>3, <3>4, <3>5, AnswerStays
  <2>3. QED
    BY <2>1, <2>2 DEF Next
<1>3. QED
  BY <1>1, <1>2 DEF AnswerInv

\* However many operators, sweeps and callbacks answer, and however often the same
\* callback is handed in: a request no two of them crossed on, and none broke off
\* on, has one resolution and one picto at most, and that picto its approval.
THEOREM AnswersAreSingle == Spec => []AnsweredOnce
<1>1. Init => AnswerInv
  BY DEF Init, AnswerInv, KnownInv, HeldInv, Answer, Engaged, PictosFor, ResolutionsOf,
     Answering, Minted
<1>2. TypeInv /\ EndsInv /\ AnswerInv => AnsweredOnce
  <2> SUFFICES ASSUME TypeInv, AnswerInv, NEW id \in Ids \ split, PictosFor(id) # {},
                      StatusOf(log, id) # "approved"
               PROVE  \E o \in Operators : Engaged(o, id) /\ cmd[o].verdict = "approved"
    BY DEF AnswerInv, Answer, AnsweredOnce
  <2>1. PICK o \in Operators : Engaged(o, id)
    BY DEF AnswerInv, Answer
  <2>2. cmd[o].verdict # "denied"
    BY <2>1 DEF AnswerInv, Answer
  <2>3. cmd[o].verdict \in Verdicts
    BY <2>1 DEF Engaged, TypeInv, Answering, Minted, Command
  <2>4. QED
    BY <2>1, <2>2, <2>3 DEF Verdicts
<1>3. QED
  BY InboxTypes, <1>1, <1>2, NextAnswer, PTL DEF Spec
=============================================================================
