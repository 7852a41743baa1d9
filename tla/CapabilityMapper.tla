-------------------------- MODULE CapabilityMapper --------------------------
(***************************************************************************)
(* mapper.rs: from a tool call to its capabilities.  A call's input is a   *)
(* function from fields to texts, a field a name with an index.  A         *)
(* pattern is an anchored prefix, its capture what follows it; a template  *)
(* is a list of parts.                                                     *)
(***************************************************************************)
EXTENDS Shell

CONSTANTS
  Files,            \* the capability files in name order, each a list of rules
  ShellAliases,     \* SHELL_TOOL_ALIASES
  MaxCandidateDepth \* MAX_CANDIDATE_DEPTH

Field(name) == <<name, 0>>
Command == Field("command")

---------------------------------------------------------------------------
(* load_from_dir: all the rules of all the files, or an error *)

\* RawMapperRule; tool or pattern is {} when the file does not give it.
Compiles(rule) == (rule.tool = {}) # (rule.pattern = {})

LoadFromDir(files) ==
  IF \A f \in Range(files) : \A r \in Range(f) : Compiles(r)
  THEN FlattenSeq(files) ELSE None

Rules == LoadFromDir(Files)

---------------------------------------------------------------------------
(* Candidates: the command lines found inside a command line *)

IsShellTool(tool) == tool = "Bash" \/ tool \in ShellAliases

WithBasename(words) ==
  IF words = <<>> THEN words ELSE <<HeadBasename(words[1])>> \o Tail(words)

\* Faulty variant: redirections stay in the candidate.
PrefixOnly(segment) == WithBasename(CommandWords(segment))

\* A segment's command without wrappers and redirections, its head's base name.
Normalized(segment) == WithBasename(StripRedirections(CommandWords(segment)))

ShellPayload(words) ==
  IF words # <<>> /\ HeadBasename(words[1]) \in Names({"bash", "sh", "zsh"})
  THEN ShellCPayload(Tail(words)) ELSE None

PayloadOf(segment) == ShellPayload(CommandWords(segment))

RECURSIVE CollectCandidates(_, _, _)
CollectCandidates(out, command, depth) ==
  LET Inner(a, payload) == IF payload = None THEN a ELSE CollectCandidates(a, payload, depth + 1)
      Outer(a, words, payload) ==
        IF words = <<>> THEN a ELSE Inner(Push(a, Joined(words, " ")), payload)
      Segment(a, s) == Outer(a, Normalized(s), PayloadOf(s))
      Substitution(a, body) == CollectCandidates(a, body, depth + 1)
      Target(a, t) == Push(a, <<">", " ">> \o t)
  IN  IF depth > MaxCandidateDepth THEN out
      ELSE Scan(Target,
             Scan(Substitution,
               Scan(Segment, out, ShellSegments(command)),
               CommandSubstitutions(command)),
             RedirectTargets(command))

ShellCandidates(call) ==
  IF IsShellTool(call.tool) /\ Command \in DOMAIN call.input
  THEN SelectSeq(CollectCandidates(<<>>, call.input[Command], 0),
                 LAMBDA c : c # call.input[Command])
  ELSE <<>>

---------------------------------------------------------------------------
(* map *)

MatchesTool(rule, tool) ==
  \/ tool \in rule.tool \union rule.pattern
  \/ rule.tool = {"Bash"} /\ IsShellTool(tool)

MatchesInputs(rule, input) ==
  \A f \in DOMAIN rule.inputs :
    f \in DOMAIN input /\ IsPrefix(rule.inputs[f], input[f])

\* What the pattern of field f leaves of its text.
Capture(rule, input, f) ==
  SubSeq(input[f], Len(rule.inputs[f]) + 1, Len(input[f]))

Render(rule, template, matched, call) ==
  LET Part(a, p) ==
        a \o CASE p[1] = "literal" -> <<p[2]>>
               [] p[1] = "tool"    -> <<call.tool>>
               [] p[1] = "capture" -> IF p[2] \in DOMAIN rule.inputs
                                      THEN Capture(rule, matched, p[2]) ELSE <<>>
               [] p[1] = "input"   -> IF p[2] \in DOMAIN call.input
                                      THEN call.input[p[2]] ELSE <<>>
  IN  Scan(Part, <<>>, template)

WithShellCommand(input, text) == [input EXCEPT ![Command] = text]

\* The capabilities of a call, in the order of rules and candidates.
MapWith(call, candidates) ==
  LET Inputs(rule) ==
        <<call.input>> \o
        IF Command \in DOMAIN rule.inputs
        THEN [i \in DOMAIN candidates |-> WithShellCommand(call.input, candidates[i])]
        ELSE <<>>
      Emit(rule, a, matched) ==
        IF ~MatchesInputs(rule, matched) THEN a
        ELSE Scan(LAMBDA b, tpl : Push(b, Render(rule, tpl, matched, call)),
                      a, rule.emit)
      Apply(a, rule) ==
        IF ~MatchesTool(rule, call.tool) THEN a
        ELSE Scan(LAMBDA b, matched : Emit(rule, b, matched), a, Inputs(rule))
  IN  Scan(Apply, <<>>, Rules)

Map(call) == MapWith(call, ShellCandidates(call))

CapabilitiesOf(call) == Range(Map(call))
=============================================================================
