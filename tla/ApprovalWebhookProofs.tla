------------------------ MODULE ApprovalWebhookProofs ------------------------
(***************************************************************************)
(* Theorems about ApprovalWebhook, for any number of requests, attempts and  *)
(* failures.                                                               *)
(***************************************************************************)
EXTENDS ApprovalWebhook, FiniteSetTheorems, SequenceTheorems, TLAPS

Delivering == {"post", "line", "newline", "report"}
Outcomes == {"delivered", "deadlettered", "unwritten", None}
Line == [request : Requests \union {None}, by : Senders \union {"torn", "newline"}]

TypeInv ==
  /\ status \in [Requests -> {"unfiled", "pending"}]
  /\ told \subseteq Requests
  /\ dlq \in Seq(Line)
  /\ crossed \in BOOLEAN
  /\ todo \in [Senders -> Seq(Requests)]
  /\ stage \in [Senders -> {"idle", "done", "failed"} \union Delivering]
  /\ outcome \in [Senders -> Outcomes]
  /\ verdict \in [Senders -> {"ask", "error", None}]
  /\ audited \in BOOLEAN
  /\ faults \in Nat

\* A sender at work has a request.
AtWork == \A s \in Senders : stage[s] \in Delivering => todo[s] # <<>>

Shape == TypeInv /\ AtWork

---------------------------------------------------------------------------
(* Sequences *)

\* A finite set listed has the elements of the set.
LEMMA ListedSet ==
  ASSUME NEW S, IsFiniteSet(S), S # {}
  PROVE  SetToSeq(S) \in Seq(S) /\ SetToSeq(S) # <<>>
<1>1. Cardinality(S) \in Nat /\ ExistsBijection(1..Cardinality(S), S)
  BY FS_CardinalityType
<1>2. PICK f \in [1..Cardinality(S) -> S] : IsInjective(f)
  BY <1>1 DEF ExistsBijection, Bijection, Injection, IsInjective
<1>3. SetToSeq(S) \in [1..Cardinality(S) -> S]
  BY <1>2 DEF SetToSeq
<1>4. Cardinality(S) # 0
  BY FS_EmptySet
<1>5. QED
  BY <1>1, <1>3, <1>4, IsASeq

\* What a file has after an append.
LEMMA Appended ==
  ASSUME NEW T, NEW q \in Seq(T), NEW x \in T
  PROVE  /\ Append(q, x) \in Seq(T)
         /\ ToSet(Append(q, x)) = ToSet(q) \union {x}
<1>1. /\ Append(q, x) \in Seq(T) /\ Len(Append(q, x)) = Len(q) + 1 /\ Len(q) \in Nat
      /\ \A i \in 1..Len(q) : Append(q, x)[i] = q[i]
      /\ Append(q, x)[Len(q) + 1] = x
  BY AppendProperties, LenProperties
<1>2. DOMAIN q = 1..Len(q) /\ DOMAIN Append(q, x) = 1..(Len(q) + 1)
  BY <1>1, LenProperties
<1>3. 1..(Len(q) + 1) = (1..Len(q)) \union {Len(q) + 1}
  BY <1>1
<1>4. QED
  BY <1>1, <1>2, <1>3 DEF ToSet

---------------------------------------------------------------------------
(* Shape *)

\* Nobody is at work yet.
LEMMA InitShape == Init => Shape
<1>1. <<>> \in Seq(Line) /\ <<>> \in Seq(Requests)
  BY EmptySeq
<1>2. ASSUME Init PROVE TypeInv
  <2>1. todo \in [Senders -> Seq(Requests)] /\ dlq \in Seq(Line)
    BY <1>1, <1>2 DEF Init
  <2>2. stage \in [Senders -> {"idle", "done", "failed"} \union Delivering]
        /\ outcome \in [Senders -> Outcomes] /\ verdict \in [Senders -> {"ask", "error", None}]
    BY <1>2 DEF Init, Outcomes
  <2>3. QED
    BY <1>2, <2>1, <2>2 DEF Init, TypeInv
<1>3. ASSUME Init PROVE AtWork
  BY <1>3 DEF Init, AtWork, Delivering
<1>4. QED
  BY <1>2, <1>3 DEF Shape

\* Every step keeps the shape.
LEMMA NextShape == Shape /\ [Next]_vars => Shape'
<1> SUFFICES ASSUME TypeInv, AtWork, [Next]_vars PROVE TypeInv' /\ AtWork'
  BY DEF Shape
<1> USE WebhookBounds DEF Outcomes, Delivering, Put, FaultOn, NoFault, work, file, Finish
<1>0. \A s \in Senders : stage[s] \in Delivering =>
        /\ Current(s) \in Requests /\ Tail(todo[s]) \in Seq(Requests)
        /\ Len(todo[s]) \in Nat /\ Len(Tail(todo[s])) = Len(todo[s]) - 1
        /\ Entry(s) \in Line
  <2>1. ASSUME NEW s \in Senders, stage[s] \in Delivering
        PROVE  /\ Current(s) \in Requests /\ Tail(todo[s]) \in Seq(Requests)
               /\ Len(todo[s]) \in Nat /\ Len(Tail(todo[s])) = Len(todo[s]) - 1
    BY <2>1, HeadTailProperties, LenProperties DEF TypeInv, AtWork, Current
  <2>2. QED
    BY <2>1 DEF Entry, Delivery, Line
<1>n. Newline \in Line /\ Torn \in Line
  BY DEF Newline, Torn, Line
<1>a. \A x \in Line : Append(dlq, x) \in Seq(Line)
  BY Appended DEF TypeInv
<1>1. ASSUME NEW s \in Senders, NEW r \in Requests, File(s, r) PROVE TypeInv' /\ AtWork'
  BY <1>1 DEF File, TypeInv, AtWork
<1>2. ASSUME NEW s \in Senders, Post(s) PROVE TypeInv' /\ AtWork'
  BY <1>2, <1>0 DEF Post, Settle, TypeInv, AtWork
<1>3. ASSUME NEW s \in Senders, AppendLine(s) PROVE TypeInv' /\ AtWork'
  <2>1. dlq' \in Seq(Line)
    <3>1. dlq' \in {dlq, Append(dlq, Entry(s)), Append(dlq, Torn)}
      BY <1>3 DEF AppendLine
    <3>2. Entry(s) \in Line
      BY <1>0, <1>3 DEF AppendLine
    <3> QED
      BY <3>1, <3>2, <1>n, <1>a DEF TypeInv
  <2>2. crossed' \in BOOLEAN
    BY <1>3 DEF AppendLine
  <2>3. /\ stage' \in [Senders -> {"idle", "done", "failed"} \union Delivering]
        /\ outcome' \in [Senders -> Outcomes] /\ faults' \in Nat
    <3>1. \E x \in {"newline", "report"} : stage' = [stage EXCEPT ![s] = x]
      BY <1>3 DEF AppendLine
    <3>2. outcome' \in {outcome, [outcome EXCEPT ![s] = "unwritten"]}
          /\ faults' \in {faults, faults + 1}
      BY <1>3 DEF AppendLine
    <3>3. stage' \in [Senders -> {"idle", "done", "failed"} \union Delivering]
      BY <3>1 DEF TypeInv
    <3>4. outcome' \in [Senders -> Outcomes]
      BY <3>2 DEF TypeInv
    <3>5. faults' \in Nat
      BY <3>2 DEF TypeInv
    <3>6. QED
      BY <3>3, <3>4, <3>5
  <2>4. AtWork'
    BY <1>3 DEF AppendLine, TypeInv, AtWork
  <2>5. UNCHANGED <<status, told, todo, verdict, audited>>
    BY <1>3 DEF AppendLine
  <2>6. QED
    BY <2>1, <2>2, <2>3, <2>4, <2>5 DEF TypeInv
<1>4. ASSUME NEW s \in Senders, AppendNewline(s) PROVE TypeInv' /\ AtWork'
  <2>1. dlq' \in Seq(Line)
    BY <1>4, <1>n, <1>a DEF AppendNewline, TypeInv
  <2>2. AtWork'
    BY <1>4 DEF AppendNewline, TypeInv, AtWork
  <2>3. /\ stage' \in [Senders -> {"idle", "done", "failed"} \union Delivering]
        /\ outcome' \in [Senders -> Outcomes] /\ faults' \in Nat
    <3>1. stage' = [stage EXCEPT ![s] = "report"]
      BY <1>4 DEF AppendNewline
    <3>2. outcome' \in {outcome, [outcome EXCEPT ![s] = "unwritten"]}
          /\ faults' \in {faults, faults + 1}
      BY <1>4 DEF AppendNewline
    <3>3. stage' \in [Senders -> {"idle", "done", "failed"} \union Delivering]
      BY <3>1 DEF TypeInv
    <3>4. outcome' \in [Senders -> Outcomes]
      BY <3>2 DEF TypeInv
    <3>5. faults' \in Nat
      BY <3>2 DEF TypeInv
    <3>6. QED
      BY <3>3, <3>4, <3>5
  <2>4. QED
    BY <1>4, <2>1, <2>2, <2>3 DEF AppendNewline, TypeInv
<1>5. ASSUME NEW s \in Senders, KillSender(s) PROVE TypeInv' /\ AtWork'
  BY <1>5 DEF KillSender, TypeInv, AtWork
<1>6. CASE ListPending
  <2>1. IsFiniteSet(Pending) /\ Pending # {} /\ Pending \subseteq Requests
    BY <1>6, RequestsAreFinite, FS_Subset DEF ListPending, Pending
  <2>2. SetToSeq(Pending) \in Seq(Requests) /\ SetToSeq(Pending) # <<>>
    BY <2>1, ListedSet, SeqMonotonic
  <2>3. QED
    BY <1>6, <2>2 DEF ListPending, TypeInv, AtWork, Senders
<1>7. CASE DaemonReports
  BY <1>7 DEF DaemonReports, TypeInv, AtWork, Senders
<1>8. CASE FallbackReports
  BY <1>8 DEF FallbackReports, TypeInv, AtWork, Senders
<1>9. CASE CliReports
  <2>1. Cli \in Senders /\ stage[Cli] \in Delivering
    BY <1>9 DEF CliReports, Senders
  <2>2. Len(todo[Cli]) # 1 => Tail(todo[Cli]) # <<>>
    <3>1. ASSUME Len(todo[Cli]) # 1, Tail(todo[Cli]) = <<>> PROVE FALSE
      <4>1. Len(Tail(todo[Cli])) = 0
        BY <1>0, <2>1, <3>1, EmptySeq
      <4>2. QED
        BY <1>0, <2>1, <3>1, <4>1
    <3>2. QED
      BY <3>1
  <2>3. /\ todo' \in [Senders -> Seq(Requests)]
        /\ stage' \in [Senders -> {"idle", "done", "failed"} \union Delivering]
        /\ outcome' \in [Senders -> Outcomes] /\ faults' \in Nat
    <3>1. todo' \in {[todo EXCEPT ![Cli] = Tail(todo[Cli])], [todo EXCEPT ![Cli] = <<>>]}
      BY <1>9 DEF CliReports
    <3>2. \E x \in {"done", "post", "failed"} : stage' = [stage EXCEPT ![Cli] = x]
      BY <1>9 DEF CliReports
    <3>3. outcome' = [outcome EXCEPT ![Cli] = None] /\ faults' \in {faults, faults + 1}
      BY <1>9 DEF CliReports
    <3>4. <<>> \in Seq(Requests)
      BY EmptySeq
    <3>5. todo' \in [Senders -> Seq(Requests)]
      BY <1>0, <2>1, <3>1, <3>4 DEF TypeInv
    <3>6. stage' \in [Senders -> {"idle", "done", "failed"} \union Delivering]
      BY <2>1, <3>2 DEF TypeInv
    <3>7. outcome' \in [Senders -> Outcomes]
      BY <3>3 DEF TypeInv
    <3>8. faults' \in Nat
      BY <3>3 DEF TypeInv
    <3>9. QED
      BY <3>5, <3>6, <3>7, <3>8
  <2>4. AtWork'
    BY <1>9, <2>1, <2>2 DEF CliReports, TypeInv, AtWork
  <2>5. QED
    BY <1>9, <2>3, <2>4 DEF CliReports, TypeInv
<1>11. CASE UNCHANGED vars
  BY <1>11 DEF vars, TypeInv, AtWork
<1>12. QED
  BY <1>1, <1>2, <1>3, <1>4, <1>5, <1>6, <1>7, <1>8, <1>9, <1>11 DEF Next, Send

\* The shape holds in every reachable state.
LEMMA ShapeHolds == Spec => []Shape
  BY InitShape, NextShape, PTL DEF Spec

---------------------------------------------------------------------------
(* What only grows *)

\* What was sent stays sent, what is on file stays on file, what is logged stays.
LEMMA NothingShrinks ==
  ASSUME Shape, [Next]_vars
  PROVE  /\ told \subseteq told' /\ ToSet(dlq) \subseteq ToSet(dlq')
         /\ log \subseteq log' /\ hit \subseteq hit'
         /\ faults' \in {faults, faults + 1}
<1> USE DEF Put, FaultOn, NoFault, Finish, Settle, work, file
<1>1. told \subseteq told' /\ log \subseteq log'
  BY DEF Next, Send, File, Post, AppendLine, AppendNewline, KillSender, ListPending,
     DaemonReports, FallbackReports, CliReports, vars
<1>2. faults' \in {faults, faults + 1} /\ hit \subseteq hit'
  BY DEF Next, Send, File, Post, AppendLine, AppendNewline, KillSender, ListPending,
     DaemonReports, FallbackReports, CliReports, vars
<1>3. dlq' = dlq \/ \E s \in Senders : AppendLine(s) \/ AppendNewline(s)
  BY DEF Next, Send, File, Post, KillSender, ListPending, DaemonReports, FallbackReports,
     CliReports, vars
<1>4. ASSUME NEW s \in Senders, AppendLine(s) \/ AppendNewline(s)
      PROVE  ToSet(dlq) \subseteq ToSet(dlq')
  <2>1. dlq \in Seq(Line) /\ (stage[s] = "line" => Entry(s) \in Line) /\ Torn \in Line /\ Newline \in Line
    BY HeadTailProperties DEF Shape, TypeInv, AtWork, Delivering, Entry, Delivery, Current,
       Torn, Newline, Line
  <2>2. \A x \in Line : ToSet(dlq) \subseteq ToSet(Append(dlq, x))
    BY <2>1, Appended
  <2>3. \E x \in Line : dlq' \in {dlq, Append(dlq, x)}
    BY <1>4, <2>1 DEF AppendLine, AppendNewline
  <2>4. QED
    BY <2>2, <2>3
<1>5. QED
  BY <1>1, <1>2, <1>3, <1>4

---------------------------------------------------------------------------
(* The decision *)

\* What could not be written has failed, and only the fallback's own report fails
\* its decision.
OutageInv ==
  /\ verdict[Daemon] # "error"
  /\ \A s \in Senders : outcome[s] = "unwritten" => faults > 0
  /\ verdict[Fallback] = "error" => stage[Fallback] = "done"
  /\ OutageKeepsAsk

\* Every step keeps an outage out of the decision.
LEMMA NextOutage == Shape /\ OutageInv /\ [Next]_vars => OutageInv'
<1> SUFFICES ASSUME Shape, OutageInv, [Next]_vars PROVE OutageInv'
  OBVIOUS
<1> USE WebhookBounds, NoneIsNoValue DEF Put, FaultOn, NoFault, Finish, work, file, Senders, OutageKeepsAsk
<1>0. faults \in Nat /\ faults' \in {faults, faults + 1}
  BY NothingShrinks DEF Shape, TypeInv
<1>1. ASSUME NEW s \in Senders, NEW r \in Requests, File(s, r) PROVE OutageInv'
  BY <1>1 DEF File, OutageInv, Shape, TypeInv
<1>2. ASSUME NEW s \in Senders, Post(s) PROVE OutageInv'
  BY <1>2 DEF Post, Settle, OutageInv, Shape, TypeInv
<1>3. ASSUME NEW s \in Senders, AppendLine(s) PROVE OutageInv'
  BY <1>0, <1>3 DEF AppendLine, OutageInv, Shape, TypeInv
<1>4. ASSUME NEW s \in Senders, AppendNewline(s) PROVE OutageInv'
  BY <1>0, <1>4 DEF AppendNewline, OutageInv, Shape, TypeInv
<1>5. ASSUME NEW s \in Senders, KillSender(s) PROVE OutageInv'
  BY <1>0, <1>5 DEF KillSender, OutageInv, Shape, TypeInv
<1>6. CASE ListPending
  BY <1>6 DEF ListPending, OutageInv, Shape, TypeInv
<1>7. CASE DaemonReports
  BY <1>0, <1>7 DEF DaemonReports, OutageInv, Shape, TypeInv
<1>8. CASE FallbackReports
  BY <1>0, <1>8 DEF FallbackReports, OutageInv, Shape, TypeInv
<1>9. CASE CliReports
  BY <1>0, <1>9 DEF CliReports, OutageInv, Shape, TypeInv
<1>10. CASE UNCHANGED vars
  BY <1>10 DEF vars, OutageInv
<1>11. QED
  BY <1>1, <1>2, <1>3, <1>4, <1>5, <1>6, <1>7, <1>8, <1>9, <1>10 DEF Next, Send

\* No outage of the endpoint, and no dead-letter file that cannot be written, turns
\* an ask into an error.
THEOREM OutagesKeepTheAsk == Spec => []OutageKeepsAsk
<1>1. Init => OutageInv
  BY NoneIsNoValue DEF Init, OutageInv, OutageKeepsAsk, Senders
<1>2. OutageInv => OutageKeepsAsk
  BY DEF OutageInv
<1>3. QED
  BY <1>1, <1>2, ShapeHolds, NextOutage, PTL DEF Spec

---------------------------------------------------------------------------
(* Deliveries *)

\* A sender that reports has sent, or filed, or failed.
Mail(s) ==
  /\ stage[s] \in {"line", "newline"} => outcome[s] = "deadlettered"
  /\ stage[s] = "report" => outcome[s] \in {"delivered", "deadlettered", "unwritten"}
  /\ stage[s] = "report" /\ outcome[s] = "delivered" => Current(s) \in told
  /\ stage[s] \in {"newline", "report"} /\ outcome[s] = "deadlettered" =>
       OnFile(Current(s), s)
  /\ stage[s] = "report" /\ outcome[s] = "unwritten" => Delivery(s) \in hit

\* `approval webhook` chooses its log before it is done with anything.
MailInv ==
  /\ \A s \in Senders : Mail(s)
  /\ stage[Cli] = "idle" => \A d \in ended : d.by # Cli
  /\ NothingIsLost

\* The events a sender is about to log are true.
LEMMA ReportIsTrue ==
  ASSUME MailInv, NEW s \in Senders, stage[s] = "report", NEW e \in Events(s)
  PROVE  IsTrue(e)
<1>1. /\ e.kind \in EventsOf(s) /\ e.request = Current(s) /\ e.by = s
  BY DEF Events, Event
<1>2. Mail(s)
  BY DEF MailInv
<1>3. CASE outcome[s] = "delivered"
  BY <1>1, <1>2, <1>3 DEF EventsOf, Mail, IsTrue
<1>4. CASE outcome[s] = "deadlettered"
  BY <1>1, <1>2, <1>4 DEF EventsOf, Mail, IsTrue
<1>5. CASE outcome[s] = "unwritten"
  BY <1>1, <1>2, <1>5 DEF EventsOf, Mail, IsTrue, Delivery
<1>6. QED
  BY <1>2, <1>3, <1>4, <1>5 DEF Mail

\* The log grows by what a sender reports.
LEMMA LogGrows ==
  ASSUME [Next]_vars
  PROVE  log' = log \/ \E s \in Senders : stage[s] = "report" /\ log' \subseteq log \union Events(s)
<1> USE DEF work, file, NoFault, FaultOn
<1>1. DaemonReports => stage[Daemon] = "report" /\ log' \subseteq log \union Events(Daemon)
  BY DEF DaemonReports
<1>2. FallbackReports => stage[Fallback] = "report" /\ log' \subseteq log \union Events(Fallback)
  BY DEF FallbackReports, EventsSoFar
<1>3. CliReports => stage[Cli] = "report" /\ log' \subseteq log \union Events(Cli)
  BY DEF CliReports, EventsSoFar
<1>4. DaemonReports \/ FallbackReports \/ CliReports \/ log' = log
  BY DEF Next, Send, File, Post, AppendLine, AppendNewline, KillSender, ListPending, vars
<1>5. QED
  BY <1>1, <1>2, <1>3, <1>4 DEF Senders

\* A delivery that ends can be accounted for, or was hit.
LEMMA EndIsAccounted ==
  ASSUME Shape, MailInv, [Next]_vars, NEW d \in ended' \ ended, d \notin hit'
  PROVE  Accounted(d)'
<1> USE DEF Put, NoFault, Finish, FaultOn, Delivery
<1>1. PICK s \in Senders :
        /\ d = Delivery(s)
        /\ KillSender(s) \/ (s = Daemon /\ DaemonReports) \/ (s = Fallback /\ FallbackReports)
           \/ (s = Cli /\ CliReports)
  BY DEF Next, Send, File, Post, AppendLine, AppendNewline, KillSender, ListPending, vars,
     DaemonReports, FallbackReports, CliReports, Senders
<1>2. d \notin hit /\ d.request = Current(s) /\ d.by = s
  BY <1>1, NothingShrinks
<1>3. /\ stage[s] = "report" /\ outcome[s] # "unwritten"
      /\ log' = log \union Events(s) \/ (s = Cli /\ ~audited)
      /\ UNCHANGED <<told, dlq, audited>>
  <2>1. ~KillSender(s) /\ ~FaultOn(s)
    BY <1>1 DEF KillSender
  <2>2. stage[s] = "report" => outcome[s] # "unwritten"
    BY <1>1, <1>2 DEF MailInv, Mail
  <2>3. CASE s = Daemon /\ DaemonReports
    BY <2>1, <2>2, <2>3 DEF DaemonReports, file
  <2>4. CASE s = Fallback /\ FallbackReports
    BY <2>1, <2>2, <2>4 DEF FallbackReports, file
  <2>5. CASE s = Cli /\ CliReports
    BY <2>1, <2>2, <2>5 DEF CliReports, file
  <2>6. QED
    BY <1>1, <2>1, <2>3, <2>4, <2>5
<1>4. Mail(s)
  BY DEF MailInv
<1>5. CASE outcome[s] = "delivered"
  <2>1. d.request \in told'
    BY <1>2, <1>3, <1>4, <1>5 DEF Mail
  <2>2. Event("delivered", Current(s), s) \in Events(s)
    BY <1>5 DEF Events, EventsOf
  <2>3. Reported(d, {"delivered"})'
    BY <1>2, <1>3, <2>2 DEF Reported
  <2>4. QED
    BY <2>1, <2>3 DEF Accounted
<1>6. CASE outcome[s] = "deadlettered"
  <2>1. OnFile(d.request, d.by)'
    BY <1>2, <1>3, <1>4, <1>6 DEF Mail, OnFile
  <2>2. \A k \in {"failed", "deadlettered"} : Event(k, Current(s), s) \in Events(s)
    BY <1>6 DEF Events, EventsOf
  <2>3. Reported(d, {"failed", "deadlettered"})'
    BY <1>2, <1>3, <2>2 DEF Reported
  <2>4. QED
    BY <2>1, <2>3 DEF Accounted
<1>7. QED
  BY <1>3, <1>4, <1>5, <1>6 DEF Mail

\* Every step keeps the senders' outcomes.
LEMMA NextMail ==
  ASSUME Shape, MailInv, [Next]_vars
  PROVE  \A s \in Senders : Mail(s)'
<1> USE WebhookBounds, NoneIsNoValue DEF Put, FaultOn, NoFault, Finish, work, file, Senders
<1>0. /\ told \subseteq told' /\ hit \subseteq hit' /\ \A r, s : OnFile(r, s) => OnFile(r, s)'
  BY NothingShrinks DEF OnFile
<1>1. \A s \in Senders : Mail(s)
  BY DEF MailInv
<1>2. \A s \in Senders : UNCHANGED <<stage[s], outcome[s], todo[s]>> => Mail(s)'
  BY <1>0, <1>1 DEF Mail, Current, Delivery
<1>3. ASSUME NEW s \in Senders, Send(s) \/ KillSender(s), NEW other \in Senders, other # s
      PROVE  Mail(other)'
  <2>1. UNCHANGED <<stage[other], outcome[other], todo[other]>>
    BY <1>3 DEF Send, File, Post, Settle, AppendLine, AppendNewline, KillSender, Shape, TypeInv
  <2>2. QED
    BY <1>2, <2>1
<1>4. ASSUME NEW s \in Senders, Send(s) \/ KillSender(s) PROVE Mail(s)'
  <2>0. dlq \in Seq(Line) /\ \A x \in Line : ToSet(Append(dlq, x)) = ToSet(dlq) \union {x}
    BY Appended DEF Shape, TypeInv
  <2>1. ASSUME NEW r \in Requests, File(s, r) PROVE Mail(s)'
    BY <2>1 DEF File, Mail, Shape, TypeInv
  <2>2. CASE Post(s)
    <3>1. Current(s)' = Current(s)
      BY <2>2 DEF Post, Current
    <3>2. QED
      BY <1>0, <1>1, <2>2, <3>1 DEF Post, Settle, Mail, Shape, TypeInv
  <2>3. CASE AppendLine(s)
    <3>1. Delivery(s)' = Delivery(s) /\ Current(s)' = Current(s) /\ Current(s) \in Requests
      BY <2>3, HeadTailProperties
         DEF AppendLine, Current, Delivery, Shape, TypeInv, AtWork, Delivering
    <3>2. dlq' = Append(dlq, Entry(s)) => OnFile(Current(s), s)'
      BY <2>0, <3>1 DEF OnFile, Entry, Delivery, Line
    <3>3. QED
      BY <1>0, <1>1, <2>3, <3>1, <3>2 DEF AppendLine, Mail, Shape, TypeInv
  <2>4. CASE AppendNewline(s)
    <3>1. Delivery(s)' = Delivery(s) /\ Current(s)' = Current(s)
      BY <2>4 DEF AppendNewline, Current, Delivery
    <3>2. QED
      BY <1>0, <1>1, <2>4, <3>1 DEF AppendNewline, Mail, Shape, TypeInv
  <2>5. CASE KillSender(s)
    BY <2>5 DEF KillSender, Mail, Shape, TypeInv
  <2>6. QED
    BY <1>4, <2>1, <2>2, <2>3, <2>4, <2>5 DEF Send
<1>5. ASSUME ListPending, NEW s \in Senders PROVE Mail(s)'
  <2>1. CASE s = Cli
    BY <1>5, <2>1 DEF ListPending, Mail, Shape, TypeInv
  <2>2. CASE s # Cli
    BY <1>2, <1>5, <2>2 DEF ListPending, Shape, TypeInv
  <2>3. QED
    BY <2>1, <2>2
<1>6. ASSUME DaemonReports \/ FallbackReports \/ CliReports, NEW s \in Senders PROVE Mail(s)'
  <2>1. \/ UNCHANGED <<stage[s], outcome[s], todo[s]>>
        \/ stage'[s] \in {"done", "post", "failed"}
    BY <1>6 DEF DaemonReports, FallbackReports, CliReports, Shape, TypeInv
  <2>2. CASE stage'[s] \in {"done", "post", "failed"}
    BY <2>2 DEF Mail
  <2>3. QED
    BY <1>2, <2>1, <2>2
<1>7. CASE UNCHANGED vars
  BY <1>2, <1>7 DEF vars
<1>8. QED
  BY <1>3, <1>4, <1>5, <1>6, <1>7 DEF Next

\* Every step keeps the deliveries, the file and the log in line.
LEMMA NextKept == Shape /\ MailInv /\ [Next]_vars => MailInv'
<1> SUFFICES ASSUME Shape, MailInv, [Next]_vars PROVE MailInv'
  OBVIOUS
<1> USE WebhookBounds DEF Put, NoFault, FaultOn, Finish, Senders
<1>0. /\ told \subseteq told' /\ log \subseteq log' /\ hit \subseteq hit'
      /\ \A r, s : OnFile(r, s) => OnFile(r, s)'
  BY NothingShrinks DEF OnFile
<1>1. ASSUME NEW e \in log' PROVE IsTrue(e)'
  <2>1. IsTrue(e)
    BY LogGrows, ReportIsTrue DEF MailInv, NothingIsLost
  <2>2. QED
    BY <1>0, <2>1 DEF IsTrue
<1>2. /\ stage'[Cli] = "idle" => stage[Cli] = "idle"
      /\ \A d \in ended' \ ended : d.by = Cli => stage'[Cli] # "idle"
      /\ audited' # audited => stage[Cli] = "idle"
  <2>1. ListPending \/ audited' = audited
    BY DEF Next, Send, File, Post, AppendLine, AppendNewline, KillSender, vars,
       DaemonReports, FallbackReports, CliReports
  <2>2. UNCHANGED ended \/ DaemonReports \/ FallbackReports \/ CliReports
        \/ \E s \in Senders : KillSender(s)
    BY DEF Next, Send, File, Post, AppendLine, AppendNewline, ListPending, vars
  <2>3. \A d \in ended' \ ended : d.by = Cli => CliReports \/ KillSender(Cli)
    BY <2>2 DEF DaemonReports, FallbackReports, CliReports, KillSender, Delivery
  <2>4. CliReports \/ KillSender(Cli) => stage'[Cli] # "idle"
    BY DEF CliReports, KillSender, Shape, TypeInv
  <2>5. stage'[Cli] = "idle" => stage[Cli] = "idle"
    BY DEF Next, Send, File, Post, Settle, AppendLine, AppendNewline, KillSender, ListPending,
       DaemonReports, FallbackReports, CliReports, vars, Shape, TypeInv, work
  <2>6. QED
    BY <2>1, <2>3, <2>4, <2>5 DEF ListPending
<1>3. ASSUME NEW d \in ended' \ hit' PROVE Accounted(d)'
  <2>1. CASE d \in ended
    <3>1. Accounted(d)
      BY <1>0, <1>3, <2>1 DEF MailInv, NothingIsLost
    <3>2. d.by = Cli => audited' = audited
      BY <1>2, <2>1 DEF MailInv
    <3>3. \A kinds : Reported(d, kinds) => Reported(d, kinds)'
      BY <1>0, <3>2 DEF Reported
    <3>4. QED
      BY <1>0, <3>1, <3>3 DEF Accounted
  <2>2. CASE d \notin ended
    BY <1>3, <2>2, EndIsAccounted
  <2>3. QED
    BY <2>1, <2>2
<1>4. stage'[Cli] = "idle" => \A d \in ended' : d.by # Cli
  BY <1>2 DEF MailInv
<1>5. \A s \in Senders : Mail(s)'
  BY NextMail
<1>6. QED
  BY <1>1, <1>3, <1>4, <1>5 DEF MailInv, NothingIsLost

\* Every delivery that no failure fell on is accounted for when it is over, and what
\* the log says of any of them is so.
THEOREM DeliveriesAreKept == Spec => []NothingIsLost
<1>1. Init => MailInv
  BY NoneIsNoValue DEF Init, MailInv, Mail, NothingIsLost
<1>2. MailInv => NothingIsLost
  BY DEF MailInv
<1>3. QED
  BY <1>1, <1>2, ShapeHolds, NextKept, PTL DEF Spec

---------------------------------------------------------------------------
(* The dead-letter file *)

\* The last entry is ended, or its sender is about to end it.
FileInv ==
  faults = 0 /\ ~crossed =>
    /\ \A i \in 1..Len(dlq) : dlq[i] # Newline /\ i < Len(dlq) => dlq[i + 1] = Newline
    /\ dlq # <<>> /\ dlq[Len(dlq)] # Newline => \E s \in Senders : stage[s] = "newline"

\* Every step keeps the file readable.
LEMMA NextFile == Shape /\ FileInv /\ [Next]_vars => FileInv'
<1> SUFFICES ASSUME Shape, FileInv, [Next]_vars, faults' = 0, ~crossed' PROVE FileInv'
  BY DEF FileInv
<1> USE DEF Put, NoFault, Finish, work, file
<1>0. /\ faults = 0 /\ dlq \in Seq(Line) /\ Len(dlq) \in Nat
      /\ \A x \in Line : /\ Len(Append(dlq, x)) = Len(dlq) + 1
                         /\ \A i \in 1..Len(dlq) : Append(dlq, x)[i] = dlq[i]
                         /\ Append(dlq, x)[Len(dlq) + 1] = x
  BY NothingShrinks, AppendProperties, LenProperties DEF Shape, TypeInv
<1>f. \A s \in Senders : ~FaultOn(s)
  BY <1>0 DEF FaultOn
<1>1. ASSUME NEW s \in Senders, AppendLine(s) PROVE FileInv'
  <2>1. /\ Entry(s) \in Line /\ dlq' = Append(dlq, Entry(s))
        /\ stage'[s] = "newline" /\ ~crossed
        /\ \A other \in Senders : stage[other] # "newline"
    BY <1>1, <1>f, HeadTailProperties
       DEF AppendLine, Shape, TypeInv, AtWork, Delivering, Entry, Delivery, Current, Line
  <2>2. dlq = <<>> \/ dlq[Len(dlq)] = Newline
    BY <1>0, <2>1 DEF FileInv
  <2>3. ASSUME NEW i \in 1..Len(dlq'), dlq'[i] # Newline, i < Len(dlq')
        PROVE  dlq'[i + 1] = Newline
    <3>1. i \in 1..Len(dlq) /\ dlq'[i] = dlq[i] /\ dlq # <<>>
      BY <1>0, <2>1, <2>3, EmptySeq
    <3>2. i < Len(dlq)
      BY <1>0, <2>2, <2>3, <3>1
    <3>3. QED
      BY <1>0, <2>1, <2>3, <3>1, <3>2 DEF FileInv
  <2>4. QED
    BY <2>1, <2>3 DEF FileInv
<1>2. ASSUME NEW s \in Senders, AppendNewline(s) PROVE FileInv'
  <2>1. Newline \in Line /\ dlq' = Append(dlq, Newline) /\ ~crossed
    BY <1>2, <1>f DEF AppendNewline, Newline, Line
  <2>2. ASSUME NEW i \in 1..Len(dlq'), dlq'[i] # Newline, i < Len(dlq')
        PROVE  dlq'[i + 1] = Newline
    <3>1. i \in 1..Len(dlq) /\ dlq'[i] = dlq[i]
      BY <1>0, <2>1, <2>2
    <3>2. CASE i = Len(dlq)
      BY <1>0, <2>1, <3>2
    <3>3. CASE i < Len(dlq)
      BY <1>0, <2>1, <2>2, <3>1, <3>3 DEF FileInv
    <3>4. QED
      BY <1>0, <3>1, <3>2, <3>3
  <2>3. dlq'[Len(dlq')] = Newline
    BY <1>0, <2>1
  <2>4. QED
    BY <2>2, <2>3 DEF FileInv
<1>3. CASE ~(\E s \in Senders : AppendLine(s) \/ AppendNewline(s))
  <2>1. UNCHANGED <<dlq, crossed>>
    BY <1>3 DEF Next, Send, File, Post, KillSender, ListPending, DaemonReports,
       FallbackReports, CliReports, vars
  <2>2. \A s \in Senders : stage[s] = "newline" => stage'[s] = "newline"
    BY <1>3, <1>f DEF Next, Send, File, Post, Settle, KillSender, ListPending, DaemonReports,
       FallbackReports, CliReports, vars,
       Shape, TypeInv
  <2>3. QED
    BY <1>0, <2>1, <2>2 DEF FileInv
<1>4. QED
  BY <1>1, <1>2, <1>3

\* As long as no append fails and no two overlap, the file of any length reads back
\* whole.
THEOREM DeadLettersAreReadable == Spec => []DeadLettersReadBack
<1>1. Init => FileInv
  BY DEF Init, FileInv
<1>2. Shape /\ FileInv => DeadLettersReadBack
  BY LenProperties DEF Shape, TypeInv, FileInv, DeadLettersReadBack
<1>3. QED
  BY <1>1, <1>2, ShapeHolds, NextFile, PTL DEF Spec
=============================================================================
