------------------------------- MODULE Gateway -------------------------------
(***************************************************************************)
(* `gommage-mcp --gateway`: a proxy between one MCP client and one server. *)
(* It reads the client's lines in order, has each tools/call decided the   *)
(* way a hook does (HookPath), forwards what may pass, and for a line with *)
(* an id then waits for one line from the server.                          *)
(***************************************************************************)
EXTENDS HookPath, SequencesExt

CONSTANTS
  GW,        \* the gateway, one of the callers
  Lines      \* what the client sends

\* "garbled" is a tools/call without params or a name, "broken" is no JSON, and
\* `asked` says whether the message has an "id" that asks for an answer.
Line == [id : Nat, kind : {"call", "garbled", "other", "broken"},
         verdict : {"allow", "deny", "stop", "ask"}, asked : BOOLEAN]

ASSUME GatewayAssumption == GW \in Callers /\ Lines \in Seq(Line)

\* An id stands for one call, and the client's lines are numbered in order.
ASSUME IdsTellCallsApart ==
  /\ \A i, j \in DOMAIN Lines : i < j => Lines[i].id < Lines[j].id
  /\ \A c \in Callers \ {GW} : \A k \in CallsOf[c] :
       /\ \A i \in DOMAIN Lines : Lines[i].id # k.id
       /\ \A other \in Callers \ {GW, c} : \A m \in CallsOf[other] : m.id # k.id

VARIABLES
  left,     \* the client's lines not read yet
  stage,    \* read, gate, forward, upstream, or closed: it has ended
  up,       \* whether the server runs
  toUp,     \* lines the server has not read
  fromUp,   \* lines of the server the gateway has not read
  passed,   \* history: lines forwarded
  out       \* what the client got: [id, by]

gateway == <<left, stage, up, toUp, fromUp, passed, out>>
gvars == <<vars, gateway>>

GInit ==
  /\ Init
  /\ left = Lines /\ stage = "read"
  /\ up = TRUE /\ toUp = <<>> /\ fromUp = <<>> /\ passed = <<>> /\ out = <<>>

Line1 == Head(left)
Return(by) == out' = Append(out, [id |-> Line1.id, by |-> by])
Rest == left' = Tail(left) /\ stage' = "read"

\* gate_mcp_tool_call: only tools/call is decided.
Read ==
  /\ stage = "read" /\ left # <<>>
  /\ \/ /\ Line1.kind = "call"
        /\ stage' = "gate" /\ UNCHANGED <<left, out>>
        /\ Set(call, GW, [id |-> Line1.id, verdict |-> Line1.verdict,
                          parses |-> TRUE, bypass |-> FALSE])
        /\ Set(pc, GW, "connect")
        /\ Set(answer, GW, None) /\ Set(result, GW, None) /\ Set(tries, GW, 0)
     \/ /\ Line1.kind = "garbled"
        /\ Return("gateway") /\ Rest
        /\ UNCHANGED <<call, pc, answer, result, tries>>
     \/ /\ Line1.kind \in {"other", "broken"}
        /\ stage' = IF Line1.kind = "other" THEN "forward" ELSE "closed"
        /\ UNCHANGED <<left, out, call, pc, answer, result, tries>>
  /\ UNCHANGED <<at, task, daemons, uses, log, starts, hups, faults,
                 up, toUp, fromUp, passed>>

\* Faulty variant: only a denial stops the line.
ForwardUnlessDenied ==
  /\ stage = "gate" /\ pc[GW] = "done"
  /\ Set(pc, GW, "idle")
  /\ \/ /\ result[GW] \in {"allow", "ask"}
        /\ stage' = "forward" /\ UNCHANGED <<left, out>>
     \/ /\ result[GW] \in {"deny", "stop"}
        /\ Return("gateway") /\ Rest
     \/ /\ result[GW] = "error"
        /\ stage' = "closed" /\ UNCHANGED <<left, out>>
  /\ UNCHANGED <<call, answer, at, task, result, tries, daemons, uses, log,
                 starts, hups, faults, up, toUp, fromUp, passed>>

\* A decision that could not be had ends the gateway.
Gate ==
  /\ stage = "gate" /\ pc[GW] = "done"
  /\ Set(pc, GW, "idle")
  /\ \/ /\ result[GW] = "allow"
        /\ stage' = "forward" /\ UNCHANGED <<left, out>>
     \/ /\ result[GW] \in {"deny", "stop", "ask"}
        /\ Return("gateway") /\ Rest
     \/ /\ result[GW] = "error"
        /\ stage' = "closed" /\ UNCHANGED <<left, out>>
  /\ UNCHANGED <<call, answer, at, task, result, tries, daemons, uses, log,
                 starts, hups, faults, up, toUp, fromUp, passed>>

\* A line without an id, a tools/call too, is not waited for.
Forward ==
  /\ stage = "forward" /\ up
  /\ toUp' = Append(toUp, Line1) /\ passed' = Append(passed, Line1)
  /\ \/ ~Line1.asked /\ Rest
     \/ Line1.asked /\ stage' = "upstream" /\ UNCHANGED left
  /\ UNCHANGED <<vars, up, fromUp, out>>

\* The next line of the server, whatever it is about.
Receive ==
  /\ stage = "upstream" /\ fromUp # <<>>
  /\ out' = Append(out, [id |-> Head(fromUp), by |-> "server"])
  /\ fromUp' = Tail(fromUp)
  /\ Rest
  /\ UNCHANGED <<vars, up, toUp, passed>>

\* A server that has gone takes no line, and its end of stream ends the gateway.
Hangup ==
  /\ ~up
  /\ stage = "forward" \/ (stage = "upstream" /\ fromUp = <<>>)
  /\ stage' = "closed"
  /\ UNCHANGED <<vars, left, up, toUp, fromUp, passed, out>>

\* The client is done, perhaps before it has sent all of Lines: the server's input
\* is closed and it is waited for.
Finished ==
  /\ stage = "read"
  /\ stage' = "closed"
  /\ UNCHANGED <<vars, left, up, toUp, fromUp, passed, out>>

\* The server answers each request in turn, perhaps with a notification first.
Server ==
  /\ stage # "closed" /\ up
  /\ toUp # <<>> /\ toUp' = Tail(toUp)
  /\ IF Head(toUp).asked
       THEN \E chat \in {<<>>, <<0>>} : fromUp' = fromUp \o chat \o <<Head(toUp).id>>
       ELSE UNCHANGED fromUp
  /\ UNCHANGED <<vars, left, stage, up, passed, out>>

\* What it wrote can still be read.
ServerEnds ==
  /\ stage # "closed" /\ up
  /\ up' = FALSE /\ toUp' = <<>>
  /\ Fault
  /\ UNCHANGED <<callers, daemons, uses, log, starts, hups>>
  /\ UNCHANGED <<left, stage, fromUp, passed, out>>

GatewaySteps == Read \/ Gate \/ Forward \/ Receive \/ Hangup \/ Finished

Path ==
  /\ \/ \E c \in Callers \ {GW} : Hook(c) \/ Work(c) \/ KillCaller(c)
     \/ Connect(GW) \/ LostConnection(GW) \/ Work(GW)
     \/ \E d \in Daemons : Serve(d) \/ Terminate(d) \/ Stopped(d) \/ Kill(d)
  /\ UNCHANGED gateway

GNext == Path \/ GatewaySteps \/ Server \/ ServerEnds

GFairness ==
  /\ \A c \in Callers \ {GW} : WF_gvars(Hook(c) /\ UNCHANGED gateway)
  /\ \A c \in Callers : WF_gvars(Work(c) /\ UNCHANGED gateway)
  /\ \A d \in Daemons : WF_gvars((Reloaded(d) \/ Stopped(d)) /\ UNCHANGED gateway)
  /\ WF_gvars((Connect(GW) \/ LostConnection(GW)) /\ UNCHANGED gateway)
  /\ WF_gvars(GatewaySteps) /\ WF_gvars(Server)

GSpec == GInit /\ [][GNext]_gvars
GFairSpec == GSpec /\ GFairness

---------------------------------------------------------------------------
(* Properties *)

\* "audit.append (signed)" comes before "Response to agent": outside the bypass
\* no call is allowed, by whichever process decided, whose decision the log does
\* not hold as allowed, and an ask only with a use of the grant.
AllowIsLogged ==
  \A c \in Callers \ {GW} : answer[c] = "allow" /\ ~call[c].bypass =>
    /\ [id |-> call[c].id, kind |-> "decision", verdict |-> "allow"] \in ToSet(log)
    /\ call[c].verdict = "ask" => Consumed(c) \in ToSet(log)

\* A lost connection, a daemon that dies and one that takes over decide no call
\* a second time: one decision in the log, one use burnt, at most.
DecidedOnce ==
  \A i, j \in DOMAIN log :
    log[i].id = log[j].id /\ log[i].kind = log[j].kind => i = j

\* "only forwards the original JSON-RPC line to the upstream server when the
\* decision resolves to allow": what the server got are the client's lines in
\* order without the calls that were refused.
RefusedStaysBehind ==
  /\ \A i \in DOMAIN passed : passed[i].kind = "call" =>
       [id |-> passed[i].id, kind |-> "decision", verdict |-> "allow"] \in ToSet(log)
  /\ \A i, j \in DOMAIN passed : i < j => passed[i].id < passed[j].id

\* Whatever dies meanwhile, a hook that was started answers its agent.
HookAnswers ==
  \A c \in Callers \ {GW} : pc[c] = "idle" ~> pc[c] \in {"done", "killed"}

\* "A *live* daemon answering on it is not" safe to replace: a daemon that listens
\* keeps the path.
LiveDaemonKeepsPath == \A d \in Daemons : Listening(d) => sock = d
=============================================================================
