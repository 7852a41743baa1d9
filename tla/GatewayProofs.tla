---------------------------- MODULE GatewayProofs ----------------------------
(***************************************************************************)
(* Theorems about HookPath and Gateway together, for any number of hooks   *)
(* and daemons, any calls, any lines and any number of failures.           *)
(***************************************************************************)
EXTENDS Gateway, SequenceTheorems, TLAPS

Undecided == {"queued", "lock", "eval"}
Decided == {"notify", "append"}
Tasks == Undecided \union Decided \union {"reply", "closed"}
Results == {"allow", "deny", "stop", "ask", "error", None}
Event == [id : Nat, kind : {"decision", "consumed"}, verdict : Results]

TypeInv ==
  /\ call \in [Callers -> Call]
  /\ pc \in [Callers -> {"idle", "connect", "wait", "decide", "done", "killed"}]
  /\ answer \in [Callers -> {"allow", "ask", "deny", None}]
  /\ at \in [Callers -> Daemons \union {None}]
  /\ task \in [Callers -> Tasks \union {None}]
  /\ result \in [Callers -> Results]
  /\ life \in [Daemons -> {"down", "probe", "unlink", "bind", "serve", "hup", "stop"}]
  /\ sock \in Daemons \union {None}
  /\ log \in Seq(Event)

\* A caller that is not at work has no task and no connection, and one that
\* decides by itself has a task of its own.
Placed(c) ==
  /\ pc[c] \in {"idle", "connect", "done"} => task[c] = None /\ at[c] = None
  /\ pc[c] = "decide" => at[c] = None /\ task[c] \in Tasks \ {"queued", "lock", "closed"}
  /\ pc[c] = "wait" => task[c] \in Tasks

\* The gateway waits for the decision of the line it has read.
GateInv ==
  /\ left \in Seq(Line) /\ passed \in Seq(Line)
  /\ stage \in {"read", "gate", "forward", "upstream", "closed"}
  /\ stage \in {"gate", "forward", "upstream"} => left # <<>>
  /\ IF stage = "gate"
       THEN pc[GW] \in {"connect", "wait", "decide", "done"} /\ call[GW].id = Line1.id
       ELSE pc[GW] = "idle"

Shape == TypeInv /\ (\A c \in Callers : Placed(c)) /\ GateInv

\* What an action of a caller does to the others: nothing.
Keeps(c) ==
  UNCHANGED <<call[c], pc[c], answer[c], at[c], task[c], result[c]>>

---------------------------------------------------------------------------
(* Sequences *)

\* What the log has after an append.
LEMMA Appended ==
  ASSUME NEW T, NEW q \in Seq(T), NEW x \in T
  PROVE  /\ Append(q, x) \in Seq(T)
         /\ ToSet(Append(q, x)) = ToSet(q) \union {x}
         /\ DOMAIN Append(q, x) = (DOMAIN q) \union {Len(q) + 1} /\ Len(q) \in Nat
         /\ DOMAIN q = 1..Len(q)
         /\ \A i \in DOMAIN q : Append(q, x)[i] = q[i]
         /\ Append(q, x)[Len(q) + 1] = x
<1>1. /\ Append(q, x) \in Seq(T) /\ Len(Append(q, x)) = Len(q) + 1 /\ Len(q) \in Nat
      /\ \A i \in 1..Len(q) : Append(q, x)[i] = q[i]
      /\ Append(q, x)[Len(q) + 1] = x
  BY AppendProperties, LenProperties
<1>2. DOMAIN q = 1..Len(q) /\ DOMAIN Append(q, x) = 1..(Len(q) + 1)
  BY <1>1, LenProperties
<1>3. 1..(Len(q) + 1) = (1..Len(q)) \union {Len(q) + 1}
  BY <1>1
<1>4. QED
  BY <1>1, <1>2, <1>3 DEF ToSet

---------------------------------------------------------------------------
(* Shape *)

\* Nobody has called yet.
LEMMA InitShape == GInit => Shape
<1> SUFFICES ASSUME GInit PROVE Shape
  OBVIOUS
<1> USE GatewayAssumption, HookBounds DEF GInit, Init
<1>1. call \in [Callers -> Call]
  <2>1. \A c \in Callers : CallsOf[c] \subseteq Call
    OBVIOUS
  <2>2. UNION {CallsOf[c] : c \in Callers} \subseteq Call
    BY <2>1
  <2>3. QED
    BY <2>2
<1>2. /\ answer \in [Callers -> {"allow", "ask", "deny", None}]
      /\ at \in [Callers -> Daemons \union {None}]
      /\ task \in [Callers -> Tasks \union {None}] /\ result \in [Callers -> Results]
  BY DEF Results
<1>3. log \in Seq(Event) /\ passed \in Seq(Line)
  BY EmptySeq
<1>4. TypeInv
  BY <1>1, <1>2, <1>3 DEF TypeInv
<1>5. \A c \in Callers : Placed(c)
  BY DEF Placed
<1>6. GateInv
  BY <1>3 DEF GateInv
<1>7. QED
  BY <1>4, <1>5, <1>6 DEF Shape

\* The actions of a caller on the path; a gateway takes its calls from the client.
Moves(c) ==
  \/ c # GW /\ (Bypass(c) \/ Begin(c) \/ KillCaller(c))
  \/ Connect(c) \/ LostConnection(c) \/ Work(c)
Daemonic == \E d \in Daemons : Serve(d) \/ Terminate(d) \/ Stopped(d) \/ Kill(d)

\* What happens between the gateway and its server; nobody's call moves.
Upstream == Forward \/ Receive \/ Hangup \/ Finished \/ Server \/ ServerEnds
Still == UNCHANGED <<callers, daemons, uses, log>>

\* A step of the path is a caller's or a daemon's, and the gateway's own are of
\* one line.
LEMMA Steps ==
  ASSUME [GNext]_gvars
  PROVE  \/ (\E c \in Callers : Moves(c)) /\ UNCHANGED gateway
         \/ Daemonic /\ UNCHANGED gateway
         \/ Read \/ Gate
         \/ Upstream /\ Still
         \/ UNCHANGED gvars
<1> USE GatewayAssumption
<1>1. CASE Path
  <2>1. ASSUME NEW c \in Callers \ {GW}, Hook(c) \/ Work(c) \/ KillCaller(c) PROVE Moves(c)
    BY <2>1 DEF Moves, Hook
  <2>2. Connect(GW) \/ LostConnection(GW) \/ Work(GW) => Moves(GW)
    BY DEF Moves
  <2>3. UNCHANGED gateway /\ ((\E c \in Callers : Moves(c)) \/ Daemonic)
    BY <1>1, <2>1, <2>2 DEF Path, Daemonic
  <2>4. QED
    BY <2>3
<1>2. CASE GatewaySteps \/ Server \/ ServerEnds
  BY <1>2 DEF GatewaySteps, Upstream, Still, Forward, Receive, Hangup, Finished, Server,
     ServerEnds, vars
<1>3. QED
  BY <1>1, <1>2 DEF GNext

\* An action of a caller leaves the other callers alone, and its own call.
LEMMA MovesAlone ==
  ASSUME TypeInv, NEW c \in Callers, Moves(c)
  PROVE  /\ \A e \in Callers : e # c => Keeps(e)
         /\ call' = call
<1> USE DEF Set, Finish, Respond, callers
<1>1. call' = call
  BY DEF Moves, Bypass, Begin, KillCaller, Connect, LostConnection, Work, Accept, Lock,
     Evaluate, Notify, Record, Reply
<1>2. ASSUME NEW e \in Callers, e # c PROVE Keeps(e)
  BY <1>1, <1>2 DEF TypeInv, Keeps, Moves, Bypass, Begin, KillCaller, Connect, LostConnection,
     Work, Accept, Lock, Evaluate, Notify, Record, Reply
<1>3. QED
  BY <1>1, <1>2

\* A daemon's action ends connections, and moves nobody else.
LEMMA DaemonsClose ==
  ASSUME TypeInv, \A c \in Callers : Placed(c), Daemonic
  PROVE  /\ UNCHANGED <<call, pc, answer, result, log>>
         /\ \A c \in Callers :
              \/ UNCHANGED <<at[c], task[c]>>
              \/ pc[c] \in {"wait", "killed"} /\ task'[c] \in {"closed", None}
                 /\ at'[c] \in {at[c], None} /\ (pc[c] = "wait" => task'[c] = "closed")
         /\ at' \in [Callers -> Daemons \union {None}]
         /\ task' \in [Callers -> Tasks \union {None}]
         /\ life' \in [Daemons -> {"down", "probe", "unlink", "bind", "serve", "hup", "stop"}]
         /\ sock' \in Daemons \union {None}
<1> USE DEF Set, callers, daemons
<1>1. PICK d \in Daemons : Serve(d) \/ Terminate(d) \/ Stopped(d) \/ Kill(d)
  BY DEF Daemonic
<1>2. CASE Serve(d)
  <2>1. UNCHANGED <<call, pc, answer, result, log, at, task>>
    BY <1>2 DEF Serve, Start, Probe, Unlink, Bind, Hup, Reloaded
  <2>2. /\ life' \in [Daemons -> {"down", "probe", "unlink", "bind", "serve", "hup", "stop"}]
        /\ sock' \in Daemons \union {None}
    BY <1>2 DEF Serve, Start, Probe, Unlink, Bind, Hup, Reloaded, TypeInv
  <2>3. QED
    BY <2>1, <2>2 DEF TypeInv
<1>3. CASE Terminate(d) \/ Stopped(d) \/ Kill(d)
  <2>1. PICK kept : Close(d, kept)
    BY <1>3 DEF Terminate, Stopped, Kill, Die
  <2>2. /\ life' \in [Daemons -> {"down", "probe", "unlink", "bind", "serve", "hup", "stop"}]
        /\ sock' \in Daemons \union {None}
    BY <1>3 DEF Terminate, Stopped, Kill, Die, TypeInv
  <2>3. /\ at' \in [Callers -> Daemons \union {None}]
        /\ task' \in [Callers -> Tasks \union {None}]
    BY <2>1 DEF Close, TypeInv, Tasks
  <2>4. ASSUME NEW c \in Callers
        PROVE  \/ UNCHANGED <<at[c], task[c]>>
               \/ pc[c] \in {"wait", "killed"} /\ task'[c] \in {"closed", None}
                  /\ at'[c] \in {at[c], None} /\ (pc[c] = "wait" => task'[c] = "closed")
    <3>1. CASE at[c] = d /\ c \notin kept
      <4>1. pc[c] \in {"wait", "killed"}
        BY <3>1, NoneIsNoValue DEF TypeInv, Placed
      <4>2. QED
        BY <2>1, <3>1, <4>1 DEF Close
    <3>2. CASE ~(at[c] = d /\ c \notin kept)
      BY <2>1, <3>2 DEF Close, TypeInv
    <3>3. QED
      BY <3>1, <3>2
  <2>5. UNCHANGED <<call, pc, answer, result, log>>
    BY <2>1 DEF Close
  <2>6. QED
    BY <2>2, <2>3, <2>4, <2>5
<1>4. QED
  BY <1>1, <1>2, <1>3

\* A caller's action keeps the types.
LEMMA MoveType ==
  ASSUME TypeInv, NEW c \in Callers, Placed(c), Moves(c)
  PROVE  TypeInv' /\ Placed(c)'
<1> USE NoneIsNoValue DEF Set, Finish, Respond, daemons, Fault, Tasks, Undecided, Decided
<1>1. CASE Bypass(c)
  BY <1>1 DEF Bypass, TypeInv, Placed
<1>2. CASE Begin(c)
  BY <1>2 DEF Begin, TypeInv, Placed
<1>3. CASE KillCaller(c)
  BY <1>3 DEF KillCaller, TypeInv, Placed
<1>4. CASE Connect(c)
  <2>1. \/ /\ pc' = [pc EXCEPT ![c] = "decide"] /\ task' = [task EXCEPT ![c] = "eval"]
           /\ UNCHANGED <<at, answer, result>>
        \/ /\ pc' = [pc EXCEPT ![c] = "wait"] /\ task' = [task EXCEPT ![c] = "queued"]
           /\ at' = [at EXCEPT ![c] = sock] /\ sock # None /\ UNCHANGED <<answer, result>>
        \/ /\ pc' = [pc EXCEPT ![c] = "done"] /\ answer' = [answer EXCEPT ![c] = "deny"]
           /\ result' = [result EXCEPT ![c] = "error"] /\ UNCHANGED <<at, task>>
    BY <1>4 DEF Connect, Reachable
  <2>2. pc[c] = "connect" /\ UNCHANGED <<call, life, sock, log>>
    BY <1>4 DEF Connect
  <2>3. result' \in [Callers -> Results]
    <3>1. result' = result \/ result' = [result EXCEPT ![c] = "error"]
      BY <2>1
    <3>2. "error" \in Results
      BY DEF Results
    <3>3. QED
      BY <3>1, <3>2 DEF TypeInv
  <2>4. QED
    BY <2>1, <2>2, <2>3 DEF TypeInv, Placed
<1>5. CASE LostConnection(c)
  BY <1>5 DEF LostConnection, TypeInv, Placed, Results
<1>6. CASE Accept(c)
  BY <1>6 DEF Accept, TypeInv, Placed
<1>7. CASE Lock(c)
  BY <1>7 DEF Lock, TypeInv, Placed
<1>8. CASE Evaluate(c)
  <2>1. Consumed(c) \in Event
    BY DEF Consumed, Event, TypeInv, Call, Results
  <2>2. log' \in Seq(Event)
    <3>1. log' = log \/ log' = Append(log, Consumed(c))
      BY <1>8 DEF Evaluate
    <3>2. log \in Seq(Event) /\ Append(log, Consumed(c)) \in Seq(Event)
      BY <2>1, Appended DEF TypeInv
    <3>3. QED
      BY <3>1, <3>2
  <2>3. /\ \E r \in {"allow", "deny", "stop", "ask", "error"} : result' = [result EXCEPT ![c] = r]
        /\ \E t \in {"append", "notify", "reply"} : task' = [task EXCEPT ![c] = t]
        /\ UNCHANGED <<call, pc, answer, at, life, sock>> /\ task[c] = "eval"
    BY <1>8 DEF Evaluate, TypeInv, Call
  <2>4. result' \in [Callers -> Results]
    BY <2>3 DEF TypeInv, Results
  <2>5. task' \in [Callers -> Tasks \union {None}]
    BY <2>3 DEF TypeInv
  <2>6. Placed(c)'
    BY <2>3 DEF TypeInv, Placed
  <2>7. QED
    BY <2>2, <2>3, <2>4, <2>5, <2>6 DEF TypeInv
<1>9. CASE Notify(c)
  BY <1>9 DEF Notify, TypeInv, Placed
<1>10. CASE Record(c)
  <2>1. Decision(c) \in Event
    BY DEF Decision, Event, TypeInv, Call
  <2>2. log' \in Seq(Event)
    <3>1. Append(log, Decision(c)) \in Seq(Event)
      BY <2>1, Appended DEF TypeInv
    <3>2. QED
      BY <1>10, <3>1 DEF Record, TypeInv
  <2>3. /\ result' = [result EXCEPT ![c] = result[c]] \/ result' = [result EXCEPT ![c] = "error"]
        /\ task' = [task EXCEPT ![c] = "reply"]
        /\ UNCHANGED <<call, pc, answer, at, life, sock>> /\ task[c] = "append"
    BY <1>10 DEF Record
  <2>4. result' \in [Callers -> Results]
    BY <2>3 DEF TypeInv, Results
  <2>5. task' \in [Callers -> Tasks \union {None}]
    BY <2>3 DEF TypeInv
  <2>6. Placed(c)'
    BY <2>3 DEF TypeInv, Placed
  <2>7. QED
    BY <2>2, <2>3, <2>4, <2>5, <2>6 DEF TypeInv
<1>11. CASE Reply(c)
  <2>1. AnswerFor(c) \in {"allow", "ask", "deny"}
    BY DEF AnswerFor
  <2>2. QED
    BY <1>11, <2>1 DEF Reply, TypeInv, Placed
<1>12. QED
  BY <1>1, <1>2, <1>3, <1>4, <1>5, <1>6, <1>7, <1>8, <1>9, <1>10, <1>11 DEF Moves, Work

\* Only a line being decided has the gateway on the path.
LEMMA MoveGate ==
  ASSUME Shape, NEW c \in Callers, Moves(c), UNCHANGED gateway
  PROVE  GateInv'
<1> USE NoneIsNoValue, GatewayAssumption DEF gateway
<1>1. CASE c = GW
  <2>1. task[GW] # None \/ pc[GW] \in {"connect", "wait"}
    BY <1>1 DEF Moves, Connect, LostConnection, Work, Accept, Lock, Evaluate, Notify, Record, Reply
  <2>2. stage = "gate"
    BY <2>1 DEF Shape, GateInv, Placed
  <2>3. pc'[GW] \in {"connect", "wait", "decide", "done"}
    BY <1>1, <2>2 DEF Moves, Connect, LostConnection, Work, Accept, Lock, Evaluate, Notify, Record,
       Reply, Set, Finish, Shape, TypeInv, GateInv
  <2>4. call' = call
    BY MovesAlone DEF Shape
  <2>5. QED
    BY <2>2, <2>3, <2>4 DEF Shape, GateInv, Line1
<1>2. CASE c # GW
  BY <1>2, MovesAlone DEF Shape, GateInv, Keeps, Line1
<1>3. QED
  BY <1>1, <1>2

\* Every step keeps the shape.
LEMMA NextShape == Shape /\ [GNext]_gvars => Shape'
<1> SUFFICES ASSUME Shape, [GNext]_gvars PROVE Shape'
  OBVIOUS
<1> USE GatewayAssumption DEF gateway, vars, callers, daemons
<1>1. ASSUME NEW c \in Callers, Moves(c), UNCHANGED gateway PROVE Shape'
  <2>1. TypeInv' /\ Placed(c)'
    BY <1>1, MoveType DEF Shape
  <2>2. \A e \in Callers : e # c => Placed(e)'
    BY <1>1, MovesAlone DEF Shape, Keeps, Placed
  <2>3. QED
    BY <1>1, <2>1, <2>2, MoveGate DEF Shape
<1>2. CASE Daemonic /\ UNCHANGED gateway
  <2>1. TypeInv'
    BY <1>2, DaemonsClose DEF Shape, TypeInv
  <2>2. \A c \in Callers : Placed(c)'
    BY <1>2, DaemonsClose, NoneIsNoValue DEF Shape, TypeInv, Placed, Tasks
  <2>3. QED
    BY <1>2, <2>1, <2>2, DaemonsClose DEF Shape, GateInv, Line1
<1>3. CASE Read
  <2>1. Line1 \in Line /\ Tail(left) \in Seq(Line)
    BY <1>3, HeadTailProperties DEF Read, Shape, GateInv, Line1
  <2>2. \/ UNCHANGED <<call, pc, answer, result>>
        \/ /\ call' = [call EXCEPT ![GW] = [id |-> Line1.id, verdict |-> Line1.verdict,
                                            parses |-> TRUE, bypass |-> FALSE]]
           /\ pc' = [pc EXCEPT ![GW] = "connect"] /\ answer' = [answer EXCEPT ![GW] = None]
           /\ result' = [result EXCEPT ![GW] = None] /\ stage' = "gate" /\ left' = left
    BY <1>3 DEF Read, Set
  <2>3. [id |-> Line1.id, verdict |-> Line1.verdict, parses |-> TRUE, bypass |-> FALSE] \in Call
    BY <2>1 DEF Line, Call
  <2>4. UNCHANGED <<at, task, life, sock, log, passed>>
    BY <1>3 DEF Read
  <2>5. TypeInv'
    <3>1. call' \in [Callers -> Call]
      <4>1. call' = call \/ \E new \in Call : call' = [call EXCEPT ![GW] = new]
        BY <2>2, <2>3
      <4> QED
        BY <4>1 DEF Shape, TypeInv
    <3>2. /\ pc' \in [Callers -> {"idle", "connect", "wait", "decide", "done", "killed"}]
          /\ answer' \in [Callers -> {"allow", "ask", "deny", None}]
      BY <2>2 DEF Shape, TypeInv
    <3>3. result' \in [Callers -> Results]
      BY <2>2 DEF Shape, TypeInv, Results
    <3>4. QED
      BY <1>3, <2>4, <3>1, <3>2, <3>3 DEF Read, Shape, TypeInv
  <2>6. pc[GW] = "idle" /\ task[GW] = None /\ at[GW] = None
    BY <1>3 DEF Read, Shape, GateInv, Placed
  <2>7. \A c \in Callers : Placed(c)'
    BY <2>2, <2>4, <2>6 DEF Shape, TypeInv, Placed
  <2>8. GateInv'
    <3>1. CASE Line1.kind = "call"
      <4>1. /\ stage' = "gate" /\ left' = left /\ left # <<>>
            /\ call' = [call EXCEPT ![GW] = [id |-> Line1.id, verdict |-> Line1.verdict,
                                            parses |-> TRUE, bypass |-> FALSE]]
            /\ pc' = [pc EXCEPT ![GW] = "connect"]
        BY <1>3, <3>1 DEF Read, Set
      <4>2. call'[GW].id = Line1.id /\ pc'[GW] = "connect"
        BY <4>1 DEF Shape, TypeInv
      <4>3. QED
        BY <2>4, <4>1, <4>2 DEF Shape, GateInv, Line1
    <3>2. CASE Line1.kind # "call"
      BY <1>3, <2>1, <2>4, <2>6, <3>2 DEF Read, Rest, Shape, GateInv
    <3>3. QED
      BY <3>1, <3>2
  <2>9. QED
    BY <2>5, <2>7, <2>8 DEF Shape
<1>4. CASE Gate
  <2>1. Tail(left) \in Seq(Line)
    BY <1>4, HeadTailProperties DEF Gate, Shape, GateInv
  <2>2. /\ UNCHANGED <<call, answer, at, task, result, life, sock, log, passed>>
        /\ pc' = [pc EXCEPT ![GW] = "idle"] /\ pc[GW] = "done"
    BY <1>4 DEF Gate, Set
  <2>3. GateInv'
    BY <1>4, <2>1, <2>2 DEF Gate, Rest, Shape, TypeInv, GateInv
  <2>4. QED
    BY <2>2, <2>3 DEF Shape, TypeInv, Placed
<1>5. CASE Upstream /\ Still
  <2>1. stage \in {"forward", "upstream"} => Line1 \in Line /\ Tail(left) \in Seq(Line)
    BY HeadTailProperties DEF Shape, GateInv, Line1
  <2>2. passed' \in Seq(Line)
    <3>1. stage = "forward" => Append(passed, Line1) \in Seq(Line)
      BY <2>1, Appended DEF Shape, GateInv
    <3>2. QED
      BY <1>5, <3>1 DEF Upstream, Still, Forward, Receive, Hangup, Finished, Server,
         ServerEnds, gateway, vars, Shape, GateInv
  <2>3. GateInv'
    BY <1>5, <2>1, <2>2 DEF Upstream, Forward, Receive, Hangup, Finished, Server,
       ServerEnds, Rest, Shape, GateInv, Line1
  <2>4. QED
    BY <1>5, <2>3 DEF Still, Shape, TypeInv, Placed
<1>6. CASE UNCHANGED gvars
  BY <1>6 DEF gvars, Shape, TypeInv, Placed, GateInv, Line1
<1>7. QED
  BY <1>1, <1>2, <1>3, <1>4, <1>5, <1>6, Steps

\* The shape holds in every reachable state.
LEMMA ShapeHolds == GSpec => []Shape
  BY InitShape, NextShape, PTL DEF GSpec

---------------------------------------------------------------------------
(* The log *)

\* The log grows by what a task of the path appends, in the step that appends it.
LogMove(c) ==
  \/ log' = log
  \/ /\ task[c] = "eval" /\ log' = Append(log, Consumed(c))
     /\ task' = [task EXCEPT ![c] = "append"]
  \/ /\ task[c] = "append" /\ log' = Append(log, Decision(c))
     /\ task' = [task EXCEPT ![c] = "reply"]

LEMMA MovesLog ==
  ASSUME NEW c \in Callers, Moves(c)
  PROVE  LogMove(c)
  BY DEF LogMove, Moves, Bypass, Begin, KillCaller, Connect, LostConnection, Work, Accept, Lock,
     Evaluate, Notify, Record, Reply, Respond, Set

\* What is in the log stays there.
LEMMA LogGrows ==
  ASSUME Shape, [GNext]_gvars
  PROVE  ToSet(log) \subseteq ToSet(log')
<1>1. ASSUME NEW c \in Callers, Moves(c) PROVE ToSet(log) \subseteq ToSet(log')
  <2>1. Consumed(c) \in Event /\ Decision(c) \in Event
    BY DEF Consumed, Decision, Event, Shape, TypeInv, Call, Results
  <2>2. \A e \in Event : ToSet(log) \subseteq ToSet(Append(log, e))
    BY Appended DEF Shape, TypeInv
  <2>3. QED
    BY <1>1, <2>1, <2>2, MovesLog DEF LogMove
<1>2. log' = log \/ \E c \in Callers : Moves(c)
  BY Steps, DaemonsClose DEF Shape, Read, Gate, Still, vars, gvars
<1>3. QED
  BY <1>1, <1>2

---------------------------------------------------------------------------
(* What an Allow rests on *)

Granted(id) == [id |-> id, kind |-> "decision", verdict |-> "allow"] \in ToSet(log)
Paid(c) == call[c].verdict = "ask" => Consumed(c) \in ToSet(log)
Backed(c) == Granted(call[c].id) /\ Paid(c)

\* An allow is paid for before it is logged, and logged before it is answered.
AllowInv ==
  \A c \in Callers :
    /\ task[c] = "notify" => result[c] = "ask"
    /\ task[c] = "append" /\ result[c] = "allow" => Paid(c)
    /\ task[c] = "reply" /\ result[c] = "allow" => Backed(c)
    /\ c # GW /\ answer[c] = "allow" /\ ~call[c].bypass => Backed(c)
    /\ c = GW /\ pc[c] = "done" /\ result[c] = "allow" => Backed(c)

\* Every step keeps an allow and its evidence together.
LEMMA NextAllow == Shape /\ AllowInv /\ [GNext]_gvars => AllowInv'
<1> SUFFICES ASSUME Shape, AllowInv, [GNext]_gvars PROVE AllowInv'
  OBVIOUS
<1> USE NoneIsNoValue, GatewayAssumption
<1> DEFINE Inv(c) ==
      /\ task[c] = "notify" => result[c] = "ask"
      /\ task[c] = "append" /\ result[c] = "allow" => Paid(c)
      /\ task[c] = "reply" /\ result[c] = "allow" => Backed(c)
      /\ c # GW /\ answer[c] = "allow" /\ ~call[c].bypass => Backed(c)
      /\ c = GW /\ pc[c] = "done" /\ result[c] = "allow" => Backed(c)
<1>0. ASSUME NEW c \in Callers, call'[c] = call[c]
      PROVE  (Paid(c) => Paid(c)') /\ (Backed(c) => Backed(c)')
  BY <1>0, LogGrows DEF Paid, Backed, Granted, Consumed
<1>1. ASSUME NEW c \in Callers, Moves(c) PROVE AllowInv'
  <2>0. call'[c] = call[c]
    BY <1>1, MovesAlone DEF Shape
  <2>1. \A e \in Callers : e # c => Inv(e)'
    BY <1>0, <1>1, MovesAlone DEF Shape, Keeps, AllowInv
  <2>2. CASE \/ c # GW /\ (Bypass(c) \/ Begin(c) \/ KillCaller(c))
             \/ Connect(c) \/ LostConnection(c) \/ Accept(c) \/ Lock(c)
    <3>1. CASE c # GW /\ (Bypass(c) \/ Begin(c))
      BY <1>0, <2>0, <3>1 DEF Bypass, Begin, Set, Finish, Shape, TypeInv, AllowInv
    <3>2. CASE KillCaller(c) \/ Connect(c) \/ LostConnection(c)
      <4>1. /\ result' = result \/ result' = [result EXCEPT ![c] = "error"]
            /\ answer' = answer \/ answer' = [answer EXCEPT ![c] = "deny"]
            /\ task'[c] \in {task[c], "eval", "queued", None}
            /\ pc'[c] = "done" => result'[c] = "error"
        BY <3>2 DEF KillCaller, Connect, LostConnection, Set, Finish, Shape, TypeInv
      <4>2. result'[c] = result[c] \/ result'[c] = "error"
        BY <4>1 DEF Shape, TypeInv
      <4>3. answer'[c] = "allow" => answer[c] = "allow"
        BY <4>1 DEF Shape, TypeInv
      <4>4. (answer'[c] = "allow" => answer[c] = "allow") /\ UNCHANGED <<call, log>>
        BY <3>2, <4>3 DEF KillCaller, Connect, LostConnection
      <4>5. Inv(c)
        BY DEF AllowInv
      <4>6. (Paid(c) => Paid(c)') /\ (Backed(c) => Backed(c)')
        BY <1>0, <2>0
      <4>7. result'[c] = result[c] \/ task'[c] = None
        BY <3>2 DEF KillCaller, Connect, LostConnection, Set, Finish, Shape, TypeInv, Placed
      <4>8. Inv(c)'
        BY <2>0, <4>1, <4>2, <4>4, <4>5, <4>6, <4>7
      <4>9. QED
        BY <2>1, <4>8 DEF AllowInv
    <3>3. CASE Accept(c) \/ Lock(c)
      BY <1>0, <2>0, <3>3 DEF Accept, Lock, Set, Shape, TypeInv, AllowInv
    <3>4. QED
      BY <2>2, <3>1, <3>2, <3>3, <2>1 DEF AllowInv
  <2>3. CASE Evaluate(c)
    <3>1. /\ UNCHANGED <<call, pc, answer>> /\ task[c] = "eval" /\ pc[c] # "done"
          /\ task'[c] \in {"append", "notify", "reply"}
          /\ task'[c] = "reply" => result'[c] = "error"
          /\ task'[c] = "notify" => result'[c] = "ask"
      BY <2>3 DEF Evaluate, Respond, Set, Shape, TypeInv, Placed
    <3>2. ASSUME task'[c] = "append", result'[c] = "allow", call[c].verdict = "ask"
          PROVE  log' = Append(log, Consumed(c))
      BY <2>3, <3>2 DEF Evaluate, Respond, Set, Shape, TypeInv
    <3>3. Consumed(c) \in Event
      BY DEF Consumed, Event, Shape, TypeInv, Call, Results
    <3>4. task'[c] = "append" /\ result'[c] = "allow" => Paid(c)'
      <4>1. Consumed(c)' = Consumed(c) /\ Consumed(c) \in ToSet(Append(log, Consumed(c)))
        BY <2>0, <3>3, Appended DEF Consumed, Shape, TypeInv
      <4>2. QED
        BY <3>1, <3>2, <4>1 DEF Paid
    <3>5. QED
      BY <1>0, <2>0, <2>1, <3>1, <3>4 DEF AllowInv
  <2>4. CASE Notify(c)
    <3>1. /\ UNCHANGED <<call, pc, answer, result>> /\ task[c] = "notify"
          /\ task'[c] \in {"append", "notify"}
      BY <2>4 DEF Notify, Set, Shape, TypeInv
    <3>2. QED
      BY <1>0, <2>0, <2>1, <3>1 DEF AllowInv
  <2>5. CASE Record(c)
    <3>1. /\ UNCHANGED <<call, pc, answer>> /\ task[c] = "append" /\ task'[c] = "reply"
          /\ result'[c] = "allow" => result[c] = "allow" /\ log' = Append(log, Decision(c))
          /\ pc[c] # "done"
      BY <2>5 DEF Record, Respond, Set, Shape, TypeInv, Placed
    <3>2. Decision(c) \in Event
      BY DEF Decision, Event, Shape, TypeInv, Call
    <3>3. result'[c] = "allow" => Granted(call[c].id)'
      <4>1. Decision(c) \in ToSet(Append(log, Decision(c)))
        BY <3>2, Appended DEF Shape, TypeInv
      <4>2. QED
        BY <2>0, <3>1, <4>1 DEF Granted, Decision
    <3>4. result'[c] = "allow" => Backed(c)'
      BY <1>0, <2>0, <3>1, <3>3 DEF AllowInv, Backed
    <3>5. QED
      BY <1>0, <2>0, <2>1, <3>1, <3>4 DEF AllowInv
  <2>6. CASE Reply(c)
    <3>1. /\ task[c] = "reply" /\ task'[c] = None /\ result' = result /\ call' = call
          /\ answer'[c] = "allow" => answer[c] = "allow" \/ result[c] = "allow"
      BY <2>6 DEF Reply, AnswerFor, Set, Finish, Shape, TypeInv
    <3>2. QED
      BY <1>0, <2>0, <2>1, <3>1 DEF AllowInv
  <2>7. QED
    BY <1>1, <2>2, <2>3, <2>4, <2>5, <2>6 DEF Moves, Work
<1>2. CASE Daemonic
  <2>1. \A c \in Callers : task'[c] \in {task[c], "closed", None}
    BY <1>2, DaemonsClose DEF Shape
  <2>2. UNCHANGED <<call, pc, answer, result>>
    BY <1>2, DaemonsClose DEF Shape
  <2>3. QED
    BY <1>0, <2>1, <2>2 DEF AllowInv
<1>3. CASE Read \/ Gate
  <2>1. /\ \A c \in Callers \ {GW} : Keeps(c)
        /\ task' = task /\ pc'[GW] # "done" /\ task[GW] = None
    BY <1>3 DEF Read, Gate, Set, Keeps, Shape, TypeInv, GateInv, Placed
  <2>2. QED
    BY <1>0, <2>1 DEF AllowInv, Keeps
<1>4. CASE UNCHANGED vars \/ Still
  BY <1>4 DEF vars, Still, callers, AllowInv, Paid, Backed, Granted, Consumed
<1>5. QED
  BY <1>1, <1>2, <1>3, <1>4, Steps DEF gvars

\* Whichever process decides and whatever dies meanwhile, an allow that was
\* answered is in the log, with the use of the grant that paid for it.
THEOREM AllowsAreLogged == GSpec => []AllowIsLogged
<1>1. GInit => AllowInv
  BY NoneIsNoValue DEF GInit, Init, AllowInv
<1>2. AllowInv => AllowIsLogged
  BY DEF AllowInv, AllowIsLogged, Backed, Granted, Paid
<1>3. QED
  BY <1>1, <1>2, ShapeHolds, NextAllow, PTL DEF GSpec

---------------------------------------------------------------------------
(* Whose ids are whose *)

\* A hook keeps its call, and what is left are lines of the client, in order.
IdInv ==
  /\ \A c \in Callers \ {GW} : call[c] \in CallsOf[c]
  /\ \A j \in DOMAIN left : \E i \in DOMAIN Lines : left[j].id = Lines[i].id
  /\ \A i, j \in DOMAIN left : i < j => left[i].id < left[j].id

\* A hook has a call, the gateway while it has a line decided.
Has(c) == c # GW \/ stage = "gate"

\* Reading a line leaves the others as they are.
LEMMA TailOf ==
  ASSUME left \in Seq(Line), left # <<>>
  PROVE  /\ DOMAIN left = 1..Len(left) /\ Len(left) \in Nat /\ 1 \in DOMAIN left
         /\ Line1 = left[1]
         /\ \A j \in DOMAIN Tail(left) : /\ j + 1 \in DOMAIN left /\ Tail(left)[j] = left[j + 1]
                                         /\ j \in Nat \ {0}
         /\ \A j \in DOMAIN left : left[j] \in Line
<1>1. /\ Tail(left) \in Seq(Line) /\ Len(Tail(left)) = Len(left) - 1
      /\ \A i \in 1..Len(Tail(left)) : Tail(left)[i] = left[i + 1]
  BY HeadTailProperties
<1>2. DOMAIN left = 1..Len(left) /\ DOMAIN Tail(left) = 1..Len(Tail(left)) /\ Len(left) \in Nat \ {0}
  BY <1>1, LenProperties, EmptySeq
<1>3. \A j \in DOMAIN left : left[j] \in Line
  BY <1>2, ElementOfSeq
<1>4. Line1 = left[1]
  BY DEF Line1
<1>5. QED
  BY <1>1, <1>2, <1>3, <1>4

\* Every step keeps the ids apart.
LEMMA NextId == Shape /\ IdInv /\ [GNext]_gvars => IdInv'
<1> SUFFICES ASSUME Shape, IdInv, [GNext]_gvars PROVE IdInv'
  OBVIOUS
<1>1. \A c \in Callers \ {GW} : call'[c] = call[c]
  BY Steps, MovesAlone, DaemonsClose DEF Shape, TypeInv, Read, Gate, Set, Still, vars, callers, gvars
<1>2. left' = left \/ (left # <<>> /\ left' = Tail(left))
  BY Steps DEF Shape, GateInv, Read, Gate, Upstream, Forward, Receive, Hangup, Finished,
     Server, ServerEnds, Rest, gateway, gvars
<1>3. CASE left # <<>> /\ left' = Tail(left)
  BY <1>1, <1>3, TailOf DEF Shape, GateInv, IdInv
<1>4. CASE left' = left
  BY <1>1, <1>4 DEF IdInv
<1>5. QED
  BY <1>2, <1>3, <1>4

\* Two calls at a time have two ids.
LEMMA Apart ==
  ASSUME Shape, IdInv, NEW c \in Callers, NEW d \in Callers, c # d, Has(c), Has(d)
  PROVE  call[c].id # call[d].id
<1>1. CASE c # GW /\ d # GW
  BY <1>1, IdsTellCallsApart DEF IdInv
<1>2. ASSUME NEW e \in Callers, e # GW, stage = "gate"
      PROVE  call[e].id # call[GW].id
  <2>1. call[GW].id = left[1].id /\ 1 \in DOMAIN left
    BY <1>2, TailOf DEF Shape, GateInv
  <2>2. QED
    BY <1>2, <2>1, IdsTellCallsApart DEF IdInv
<1>3. QED
  BY <1>1, <1>2 DEF Has

\* The lines to come have other ids than the calls of now.
LEMMA ApartFromLines ==
  ASSUME Shape, IdInv, NEW c \in Callers, Has(c), NEW j \in DOMAIN left,
         stage = "read" \/ j > 1
  PROVE  call[c].id # left[j].id
<1>1. CASE c # GW
  BY <1>1, IdsTellCallsApart DEF IdInv
<1>2. CASE c = GW
  <2>1. stage = "gate" /\ j > 1
    BY <1>2 DEF Has
  <2>2. call[GW].id = left[1].id /\ 1 \in DOMAIN left /\ left[1] \in Line /\ left[j] \in Line
        /\ j \in Nat
    BY <2>1, TailOf DEF Shape, GateInv
  <2>3. left[1].id < left[j].id /\ left[1].id \in Nat /\ left[j].id \in Nat
    BY <2>1, <2>2 DEF IdInv, Line
  <2>4. QED
    BY <1>2, <2>2, <2>3
<1>3. QED
  BY <1>1, <1>2

---------------------------------------------------------------------------
(* One decision for each call *)

Fresh(id) == \A i \in DOMAIN log : log[i].id # id
Pending(id) == \A i \in DOMAIN log : log[i].id = id => log[i].kind = "consumed"

\* The log has nothing of a call that nobody has evaluated, and no decision of one
\* that is being decided.
OnceInv ==
  /\ \A c \in Callers : Has(c) =>
       /\ pc[c] \in {"idle", "connect"} \/ task[c] \in Undecided => Fresh(call[c].id)
       /\ task[c] \in Decided => Pending(call[c].id)
  /\ \A j \in DOMAIN left : stage = "read" \/ j > 1 => Fresh(left[j].id)
  /\ DecidedOnce

\* A step of the path keeps the calls and the log in line.
LEMMA MoveOnce ==
  ASSUME Shape, IdInv, OnceInv, NEW c \in Callers, Moves(c), UNCHANGED gateway
  PROVE  OnceInv'
<1> USE NoneIsNoValue, GatewayAssumption
<1>1. /\ call' = call /\ \A e \in Callers : e # c => Keeps(e)
      /\ \A e \in Callers : Has(e)' <=> Has(e)
      /\ left' = left /\ stage' = stage
  BY MovesAlone DEF Shape, Has, gateway
<1>2. Has(c)
  <2>1. c = GW => task[c] # None \/ pc[c] \in {"connect", "wait"}
    BY DEF Moves, Connect, LostConnection, Work, Accept, Lock, Evaluate, Notify, Record, Reply
  <2>2. QED
    BY <2>1 DEF Has, Shape, GateInv, Placed
<1>3. /\ pc'[c] \in {"idle", "connect"} => pc[c] \in {"idle", "connect"}
      /\ task'[c] \in Undecided => pc[c] \in {"idle", "connect"} \/ task[c] \in Undecided
      /\ task'[c] \in Decided => task[c] \in {"eval"} \union Decided \/ pc[c] \in {"idle", "connect"}
  BY DEF Moves, Bypass, Begin, KillCaller, Connect, LostConnection, Work, Accept, Lock,
     Evaluate, Notify, Record, Reply, Respond, Set, Finish, Shape, TypeInv, Undecided, Decided
<1>4. /\ log \in Seq(Event) /\ Consumed(c) \in Event /\ Decision(c) \in Event
      /\ \A e \in Event : /\ DOMAIN Append(log, e) = (DOMAIN log) \union {Len(log) + 1}
                          /\ Len(log) + 1 \notin DOMAIN log
                          /\ \A i \in DOMAIN log : Append(log, e)[i] = log[i]
                          /\ Append(log, e)[Len(log) + 1] = e
  <2>1. Consumed(c) \in Event /\ Decision(c) \in Event
    BY DEF Consumed, Decision, Event, Shape, TypeInv, Call, Results
  <2>2. Len(log) + 1 \notin 1..Len(log)
    BY LenProperties DEF Shape, TypeInv
  <2>3. QED
    BY <2>1, <2>2, Appended DEF Shape, TypeInv
<1>5. CASE log' = log
  <2>1. ASSUME NEW e \in Callers, Has(e)'
        PROVE  /\ pc'[e] \in {"idle", "connect"} \/ task'[e] \in Undecided => Fresh(call[e].id)'
               /\ task'[e] \in Decided => Pending(call[e].id)'
    BY <1>1, <1>3, <1>5, <2>1 DEF OnceInv, Fresh, Pending, Keeps, Undecided
  <2>2. QED
    BY <1>1, <1>5, <2>1 DEF OnceInv, Fresh, DecidedOnce
<1>6. ASSUME NEW x \in Event, log' = Append(log, x), x.id = call[c].id,
             \A i \in DOMAIN log : log[i].id = x.id => log[i].kind # x.kind,
             pc'[c] \notin {"idle", "connect"}, task'[c] \notin Undecided,
             task'[c] \in Decided => Pending(call[c].id)'
      PROVE  OnceInv'
  <2>1. ASSUME NEW id, id # call[c].id PROVE Fresh(id) => Fresh(id)'
    BY <1>4, <1>6, <2>1 DEF Fresh
  <2>2. ASSUME NEW id, id # call[c].id PROVE Pending(id) => Pending(id)'
    BY <1>4, <1>6, <2>2 DEF Pending
  <2>3. ASSUME NEW e \in Callers, Has(e)'
        PROVE  /\ pc'[e] \in {"idle", "connect"} \/ task'[e] \in Undecided => Fresh(call[e].id)'
               /\ task'[e] \in Decided => Pending(call[e].id)'
    <3>1. CASE e = c
      BY <1>6, <3>1
    <3>2. CASE e # c
      <4>1. call[e].id # call[c].id
        BY <1>1, <1>2, <2>3, <3>2, Apart
      <4>2. QED
        BY <1>1, <2>1, <2>2, <2>3, <3>2, <4>1 DEF OnceInv, Keeps
    <3>3. QED
      BY <3>1, <3>2
  <2>4. ASSUME NEW j \in DOMAIN left', stage' = "read" \/ j > 1
        PROVE  Fresh(left[j].id)'
    BY <1>1, <1>2, <2>1, <2>4, ApartFromLines DEF OnceInv
  <2>5. DecidedOnce'
    BY <1>4, <1>6 DEF OnceInv, DecidedOnce
  <2>6. QED
    BY <2>3, <2>4, <2>5 DEF OnceInv
<1>7. CASE task[c] = "eval" /\ log' = Append(log, Consumed(c)) /\ task' = [task EXCEPT ![c] = "append"]
  <2>1. Fresh(call[c].id)
    BY <1>2, <1>7 DEF OnceInv, Undecided
  <2>2. pc[c] \notin {"idle", "connect"} /\ task'[c] = "append"
    BY <1>7 DEF Shape, TypeInv, Placed
  <2>3. Consumed(c).id = call[c].id /\ Consumed(c).kind = "consumed"
    BY DEF Consumed
  <2>4. Pending(call[c].id)'
    BY <1>1, <1>4, <1>7, <2>1, <2>3 DEF Pending, Fresh
  <2>5. QED
    BY <1>3, <1>4, <1>6, <1>7, <2>1, <2>2, <2>3, <2>4 DEF Fresh, Undecided
<1>8. CASE task[c] = "append" /\ log' = Append(log, Decision(c)) /\ task' = [task EXCEPT ![c] = "reply"]
  <2>1. Pending(call[c].id)
    BY <1>2, <1>8 DEF OnceInv, Decided
  <2>2. pc[c] \notin {"idle", "connect"} /\ task'[c] = "reply"
    BY <1>8 DEF Shape, TypeInv, Placed
  <2>3. Decision(c).id = call[c].id /\ Decision(c).kind = "decision"
    BY DEF Decision
  <2>4. QED
    BY <1>3, <1>4, <1>6, <1>8, <2>1, <2>2, <2>3 DEF Pending, Undecided, Decided
<1>9. QED
  BY <1>5, <1>7, <1>8, MovesLog DEF LogMove

\* Once a line is done with, the next has left no trace.
LEMMA RestIsFresh ==
  ASSUME Shape, OnceInv, log' = log, left # <<>>, left' = Tail(left)
  PROVE  \A j \in DOMAIN left' : Fresh(left[j].id)'
<1> SUFFICES ASSUME NEW j \in DOMAIN Tail(left) PROVE Fresh(left[j].id)'
  OBVIOUS
<1>1. j + 1 \in DOMAIN left /\ left'[j] = left[j + 1] /\ j + 1 > 1
  BY TailOf DEF Shape, GateInv
<1>2. Fresh(left[j + 1].id)
  BY <1>1 DEF OnceInv
<1>3. QED
  BY <1>1, <1>2 DEF Fresh

\* Every step keeps the calls and the log in line.
LEMMA NextOnce == Shape /\ IdInv /\ OnceInv /\ [GNext]_gvars => OnceInv'
<1> SUFFICES ASSUME Shape, IdInv, OnceInv, [GNext]_gvars PROVE OnceInv'
  OBVIOUS
<1> USE NoneIsNoValue, GatewayAssumption
<1>1. ASSUME NEW c \in Callers, Moves(c), UNCHANGED gateway PROVE OnceInv'
  BY <1>1, MoveOnce
<1>2. CASE Daemonic /\ UNCHANGED gateway
  <2>1. /\ UNCHANGED <<call, pc, log, left, stage>>
        /\ \A c \in Callers : task'[c] \in {task[c], "closed", None}
    BY <1>2, DaemonsClose DEF Shape, gateway
  <2>2. QED
    BY <2>1 DEF OnceInv, Has, Fresh, Pending, DecidedOnce, Undecided, Decided
<1>3. CASE Read
  <2>1. /\ UNCHANGED <<task, log>> /\ stage = "read" /\ left # <<>>
        /\ \A c \in Callers : c # GW => call'[c] = call[c] /\ pc'[c] = pc[c]
    BY <1>3 DEF Read, Set, Shape, TypeInv
  <2>2. task[GW] = None
    BY <2>1 DEF Shape, GateInv, Placed
  <2>3. stage' = "gate" => call'[GW].id = left[1].id /\ left' = left
    BY <1>3, TailOf DEF Read, Rest, Set, Shape, TypeInv, GateInv
  <2>4. left' = left \/ left' = Tail(left)
    BY <1>3 DEF Read, Rest
  <2>5. \A j \in DOMAIN left' : \E i \in DOMAIN left : left'[j] = left[i]
    <3>1. CASE left' = left
      BY <3>1
    <3>2. CASE left' = Tail(left)
      <4>1. \A j \in DOMAIN Tail(left) : j + 1 \in DOMAIN left /\ Tail(left)[j] = left[j + 1]
        BY <2>1, TailOf DEF Shape, GateInv
      <4>2. QED
        BY <3>2, <4>1
    <3>3. QED
      BY <2>4, <3>1, <3>2
  <2>6. \A i \in DOMAIN left : Fresh(left[i].id)
    BY <2>1 DEF OnceInv
  <2>7. \A j \in DOMAIN left' : Fresh(left[j].id)'
    BY <2>1, <2>5, <2>6 DEF Fresh
  <2>8. stage' = "gate" => Fresh(call[GW].id)'
    BY <2>1, <2>3, <2>6, TailOf DEF Shape, GateInv, Fresh
  <2>9. \A c \in Callers : Has(c)' =>
          /\ pc'[c] \in {"idle", "connect"} \/ task'[c] \in Undecided => Fresh(call[c].id)'
          /\ task'[c] \in Decided => Pending(call[c].id)'
    BY <2>1, <2>2, <2>8 DEF OnceInv, Has, Fresh, Pending, Undecided, Decided
  <2>10. QED
    BY <2>1, <2>7, <2>9 DEF OnceInv, DecidedOnce
<1>4. CASE Gate
  <2>1. /\ UNCHANGED <<task, log, call>> /\ stage = "gate" /\ left # <<>>
        /\ \A c \in Callers : c # GW => pc'[c] = pc[c]
        /\ stage' # "gate"
    BY <1>4 DEF Gate, Rest, Set, Shape, TypeInv, GateInv
  <2>2. (left' = left /\ stage' # "read") \/ left' = Tail(left)
    BY <1>4 DEF Gate, Rest
  <2>3. \A j \in DOMAIN left' : stage' = "read" \/ j > 1 => Fresh(left[j].id)'
    BY <2>1, <2>2, RestIsFresh DEF OnceInv, Fresh
  <2>4. QED
    BY <2>1, <2>3 DEF OnceInv, Has, Fresh, Pending, DecidedOnce
<1>5. CASE Upstream /\ Still
  <2>1. UNCHANGED <<task, log, call, pc>>
    BY <1>5 DEF Still, callers
  <2>2. \A c \in Callers : Has(c)' => Has(c)
    BY <1>5 DEF Upstream, Still, Forward, Receive, Hangup, Finished, Server, ServerEnds, Rest, Has
  <2>3. \/ left' = left /\ (stage' = "read" => stage = "read")
        \/ left # <<>> /\ left' = Tail(left)
    BY <1>5 DEF Upstream, Forward, Receive, Hangup, Finished, Server,
       ServerEnds, Rest, Shape, GateInv
  <2>4. \A j \in DOMAIN left' : stage' = "read" \/ j > 1 => Fresh(left[j].id)'
    BY <2>1, <2>3, RestIsFresh DEF OnceInv, Fresh
  <2>5. QED
    BY <2>1, <2>2, <2>4 DEF OnceInv, Fresh, Pending, DecidedOnce
<1>6. CASE UNCHANGED gvars
  BY <1>6 DEF gvars, vars, callers, gateway, OnceInv, Has, Fresh, Pending, DecidedOnce
<1>7. QED
  BY <1>1, <1>2, <1>3, <1>4, <1>5, <1>6, Steps

\* Nothing is decided, and no line read.
LEMMA InitOnce == GInit => IdInv /\ OnceInv
<1> SUFFICES ASSUME GInit PROVE IdInv /\ OnceInv
  OBVIOUS
<1>1. IdInv
  BY IdsTellCallsApart DEF GInit, Init, IdInv
<1>2. DOMAIN log = {}
  BY DEF GInit, Init
<1>3. OnceInv
  BY <1>2 DEF OnceInv, Fresh, Pending, DecidedOnce
<1>4. QED
  BY <1>1, <1>3

\* No call is decided twice, and no call burns two uses, however many daemons die
\* and come back while it waits.
THEOREM DecisionsAreUnique == GSpec => []DecidedOnce
<1>1. OnceInv => DecidedOnce
  BY DEF OnceInv
<1>2. QED
  BY <1>1, InitOnce, ShapeHolds, NextId, NextOnce, PTL DEF GSpec

---------------------------------------------------------------------------
(* What the server gets *)

\* What was forwarded was allowed, and comes before what is to come.
PassInv ==
  /\ stage = "forward" /\ Line1.kind = "call" => Granted(Line1.id)
  /\ \A i \in DOMAIN passed : passed[i].kind = "call" => Granted(passed[i].id)
  /\ \A i, j \in DOMAIN passed : i < j => passed[i].id < passed[j].id
  /\ \A i \in DOMAIN passed, j \in DOMAIN left :
       stage \notin {"upstream", "closed"} \/ j > 1 => passed[i].id < left[j].id

\* Every step keeps the refused lines back and the others in order.
LEMMA NextPass == Shape /\ IdInv /\ AllowInv /\ PassInv /\ [GNext]_gvars => PassInv'
<1> SUFFICES ASSUME Shape, IdInv, AllowInv, PassInv, [GNext]_gvars PROVE PassInv'
  OBVIOUS
<1>0. \A id : Granted(id) => Granted(id)'
  BY LogGrows DEF Granted
<1>1. ASSUME left # <<>>, left' = Tail(left), passed' = passed, stage' = "read"
      PROVE  PassInv'
  <2>1. ASSUME NEW i \in DOMAIN passed, NEW j \in DOMAIN left'
        PROVE  passed[i].id < left'[j].id
    <3>1. j + 1 \in DOMAIN left /\ left'[j] = left[j + 1] /\ j + 1 > 1
      BY <1>1, <2>1, TailOf DEF Shape, GateInv
    <3>2. QED
      BY <3>1 DEF PassInv
  <2>2. QED
    BY <1>0, <1>1, <2>1 DEF PassInv
<1>2. ASSUME left' = left, passed' = passed, stage' = stage \/ stage' # "forward",
             stage \notin {"upstream", "closed"} \/ stage' \in {"upstream", "closed"}
      PROVE  PassInv'
  BY <1>0, <1>2 DEF PassInv, Line1
<1>3. ASSUME left' = left, passed' = passed, stage \notin {"upstream", "closed"},
             stage' = "forward",
             Line1.kind = "call" => Granted(Line1.id)
      PROVE  PassInv'
  BY <1>0, <1>3 DEF PassInv, Line1
<1>4. CASE Read
  <2>1. Line1.kind \in {"other", "broken"} => Line1.kind # "call"
    OBVIOUS
  <2>2. QED
    BY <1>1, <1>2, <1>3, <1>4, <2>1 DEF Read, Rest
<1>5. CASE Gate
  <2>1. result[GW] = "allow" => Granted(Line1.id)
    BY <1>5, GatewayAssumption DEF Gate, AllowInv, Backed, Shape, GateInv
  <2>2. left # <<>>
    BY <1>5 DEF Gate, Shape, GateInv
  <2>3. QED
    BY <1>1, <1>2, <1>3, <1>5, <2>1, <2>2 DEF Gate, Rest
<1>6. CASE Forward
  <2>1. /\ left # <<>> /\ Line1 \in Line /\ passed' = Append(passed, Line1)
        /\ 1 \in DOMAIN left /\ Line1 = left[1]
    BY <1>6, TailOf DEF Forward, Shape, GateInv
  <2>2. /\ DOMAIN passed' = (DOMAIN passed) \union {Len(passed) + 1}
        /\ \A i \in DOMAIN passed : passed'[i] = passed[i] /\ i \in Nat /\ i < Len(passed) + 1
        /\ passed'[Len(passed) + 1] = Line1 /\ Len(passed) \in Nat
    BY <2>1, Appended DEF Shape, GateInv
  <2>3. \A i \in DOMAIN passed' : passed'[i].kind = "call" => Granted(passed[i].id)'
    BY <1>0, <1>6, <2>2 DEF PassInv, Forward
  <2>4. \A i \in DOMAIN passed : passed[i].id < Line1.id
    BY <1>6, <2>1 DEF PassInv, Forward
  <2>5. \A i, j \in DOMAIN passed' : i < j => passed'[i].id < passed'[j].id
    BY <2>2, <2>4 DEF PassInv
  <2>6. \A j \in DOMAIN left : j > 1 =>
          Line1.id < left[j].id /\ \A i \in DOMAIN passed : passed[i].id < left[j].id
    BY <1>6, <2>1 DEF PassInv, IdInv, Forward
  <2>7. CASE left' = Tail(left) /\ stage' = "read"
    <3>1. ASSUME NEW i \in DOMAIN passed', NEW j \in DOMAIN left'
          PROVE  passed'[i].id < left'[j].id
      <4>1. j + 1 \in DOMAIN left /\ left'[j] = left[j + 1] /\ j + 1 > 1
        BY <2>1, <2>7, <3>1, TailOf DEF Shape, GateInv
      <4>2. QED
        BY <2>2, <2>6, <4>1
    <3>2. QED
      BY <2>3, <2>5, <2>7, <3>1 DEF PassInv
  <2>8. CASE left' = left /\ stage' = "upstream"
    BY <2>2, <2>3, <2>5, <2>6, <2>8 DEF PassInv
  <2>9. QED
    BY <1>6, <2>7, <2>8 DEF Forward, Rest
<1>7. CASE Receive
  BY <1>1, <1>7 DEF Receive, Rest, Shape, GateInv
<1>8. CASE Hangup \/ Finished \/ Server \/ ServerEnds \/ UNCHANGED gateway
  BY <1>2, <1>8 DEF Hangup, Finished, Server, ServerEnds, gateway
<1>9. QED
  BY <1>4, <1>5, <1>6, <1>7, <1>8, Steps DEF gvars, Upstream

\* The server gets the client's lines in order, and of the calls only those that
\* the log holds as allowed, whoever decided them.
THEOREM RefusedLinesStay == GSpec => []RefusedStaysBehind
<1>1. GInit => AllowInv /\ PassInv
  BY NoneIsNoValue DEF GInit, Init, AllowInv, PassInv
<1>2. PassInv => RefusedStaysBehind
  BY DEF PassInv, RefusedStaysBehind, Granted
<1>3. QED
  BY <1>1, <1>2, InitOnce, ShapeHolds, NextId, NextAllow, NextPass, PTL DEF GSpec
=============================================================================
