----------------------------- MODULE MCHookPath -----------------------------
(***************************************************************************)
(* Gateway and HookPath for TLC: one hook, one gateway with four lines.   *)
(***************************************************************************)
EXTENDS Gateway

CONSTANTS h1, g1

K(id, verdict, parses, bypass) ==
  [id |-> id, verdict |-> verdict, parses |-> parses, bypass |-> bypass]
L(id, kind, verdict, asked) ==
  [id |-> id, kind |-> kind, verdict |-> verdict, asked |-> asked]

MCCalls == [c \in Callers |->
  IF c = g1 THEN {K(0, "deny", TRUE, FALSE)}
  ELSE {K(1, "ask", TRUE, FALSE)}
       \union {K(1, "deny", FALSE, b) : b \in BOOLEAN} \union {K(1, "stop", TRUE, TRUE)}]

MCLines == <<L(2, "garbled", "deny", TRUE), L(3, "call", "ask", FALSE),
             L(4, "other", "deny", TRUE), L(5, "broken", "deny", FALSE)>>
NoLines == <<>>
=============================================================================
