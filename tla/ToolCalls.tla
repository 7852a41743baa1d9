----------------------------- MODULE ToolCalls -----------------------------
(***************************************************************************)
(* Command lines and patches an agent puts together, step by step, with    *)
(* what a shell would do with them kept beside: the commands and           *)
(* redirections it runs, each with how many texts it is wrapped in, and    *)
(* the commands that are only data in it.  The properties compare this     *)
(* with what the hook input, the mapper and the hard stops make of it.     *)
(*                                                                         *)
(* What shell.rs does not take apart is marked: commands "joined" by & or  *)
(* in a group, substitutions "quoted" in the body of a bare heredoc,       *)
(* targets of >| ("clobber"), and write verbs with a redirection of their  *)
(* own ("covered").  Everything else is "plain".                           *)
(***************************************************************************)
EXTENDS HookInput

CONSTANTS
  Simple,        \* simple commands: [text, runs, writes, data, expands]
  Added,         \* those that are chained to a text
  Tails,         \* redirections of a heredoc's line: [text, writes]
  Wrappers,      \* what may stand before bash -c, texts
  PatchPaths,    \* what a patch names
  RecursiveFlags, ForceFlags, Devices,
  MaxSteps

VARIABLES
  tool,
  text,    \* the command field
  runs,    \* [cmd, depth, how]: what the shell runs
  writes,  \* [path, by, how]: paths written by the outermost text, or patched
  data,    \* commands that stand in quotes or after a backslash
  fed,     \* commands that stand in the body of a heredoc
  expands, \* what runs when the text is the body of a bare heredoc
  steps,
  call,        \* the call as an adapter passes it on, None before
  candidates,  \* the command lines the mapper found in it
  caps         \* the capabilities it emitted

told == <<runs, writes, data, fed, expands>>
outcome == <<call, candidates, caps>>
vars == <<tool, text, told, steps, outcome>>

Redirect(path) == <<">", " ">> \o path
Quoted(t) == <<"'">> \o t \o <<"'">>

Ran(cmd, how) == [cmd |-> cmd, depth |-> 0, how |-> how]
Wrote(path, by, how) == [path |-> path, by |-> by, how |-> how]

\* What a set of redirections [path, by, how] makes the shell do.
Redirects(set) == {Ran(Redirect(w.path), w.how) : w \in set}

Init ==
  /\ steps = 0 /\ fed = {} /\ call = None /\ candidates = {} /\ caps = {}
  /\ \/ /\ tool = "Bash"
        /\ \E c \in Simple : /\ text = c.text /\ runs = c.runs /\ writes = c.writes
                             /\ data = c.data /\ expands = c.expands
     \/ /\ tool = "apply_patch" /\ text = <<"*** Begin Patch">>
        /\ runs = {} /\ writes = {} /\ data = {} /\ expands = {}

Step ==
  /\ call = None /\ steps' = steps + 1
  /\ UNCHANGED <<tool, outcome>>

ShellStep == Step /\ tool = "Bash" /\ steps < MaxSteps

Has(token) == token \in Range(text)
EndsInBody == Trim(Last(Lines(text))) = <<"EOF">>
Closed == IF EndsInBody THEN Append(text, NL) ELSE text
Deeper(set) == {[r EXCEPT !.depth = @ + 1] : r \in set}
Echo(t) == <<"echo", " ">> \o t

\* Commands with no operator between them that shell_segments splits at; a
\* redirection is found all the same.
Glued(ran) ==
  {IF r.depth = 0 /\ r.cmd[1] = ">" THEN r ELSE [r EXCEPT !.how = "joined"] : r \in ran}
GluedWrites(set) ==
  {IF w.by = "redirect" THEN w ELSE [w EXCEPT !.how = "joined"] : w \in set}

---------------------------------------------------------------------------

\* Another command, before or after.
Chain(op, c) ==
  /\ ShellStep
  /\ \/ /\ EndsInBody \/ Last(text) = "&" => op = NL
        /\ text' = text \o <<op, " ">> \o c.text
     \/ text' = c.text \o <<" ", op, " ">> \o text
  /\ IF op = "&"
       THEN /\ runs' = Glued(runs \union c.runs)
            /\ writes' = GluedWrites(writes \union c.writes)
       ELSE runs' = runs \union c.runs /\ writes' = writes \union c.writes
  /\ data' = data \union c.data
  /\ expands' = expands \union c.expands
  /\ UNCHANGED fed

\* ( text )
Group ==
  /\ ShellStep
  /\ text' = <<" ", "(", " ">> \o Closed \o <<" ", ")">>
  /\ runs' = Glued(runs) /\ writes' = GluedWrites(writes)
  /\ UNCHANGED <<data, fed, expands>>

\* echo $(text), echo "$(text)", or with backticks.
Substitute(open, close) ==
  /\ ShellStep /\ ~Has(Tick)
  /\ text' = Echo(open \o Closed \o close)
  /\ runs' = Deeper(runs) /\ expands' = runs'
  /\ writes' = {}
  /\ UNCHANGED <<data, fed>>

\* bash -c 'text'
ShellC(w) ==
  /\ ShellStep /\ ~Has("'")
  /\ text' = w \o <<"bash", " ", "-c", " ">> \o Quoted(Closed)
  /\ runs' = Deeper(runs)
  /\ writes' = {}
  /\ UNCHANGED <<data, fed, expands>>

\* echo 'text': nothing of it runs.
Quote ==
  /\ ShellStep /\ ~Has("'")
  /\ text' = Echo(Quoted(text))
  /\ data' = data \union fed \union {r.cmd : r \in runs}
  /\ runs' = {} /\ writes' = {} /\ fed' = {}
  /\ UNCHANGED expands

\* The body of cat <<EOF: its substitutions run, quoted or not, and none of
\* cat <<'EOF'; <<- allows a tab before the last line.
FeedData(dash, delimiter, t) ==
  /\ ShellStep /\ ~Has("<<")
  /\ text' = <<"cat", " ", "<<">> \o dash \o delimiter \o t.text \o <<NL>> \o text
             \o <<NL>> \o (IF dash = <<>> THEN <<"EOF">> ELSE <<Tab, "EOF">>)
  /\ LET live == IF delimiter = <<"EOF">> THEN expands ELSE {}
         marked == {IF Has("'") /\ r.how = "plain" THEN [r EXCEPT !.how = "quoted"] ELSE r :
                      r \in live} IN
     /\ runs' = marked \union Redirects(t.writes)
     /\ fed' = {r.cmd : r \in runs \ live}
  /\ writes' = t.writes
  /\ UNCHANGED <<data, expands>>

\* The body of bash <<'EOF' is a program.
FeedShell ==
  /\ ShellStep /\ ~Has("<<")
  /\ text' = <<"bash", " ", "<<">> \o Quoted(<<"EOF">>) \o <<NL>> \o text \o <<NL, "EOF">>
  /\ UNCHANGED <<runs, data, fed, expands>>
  /\ writes' = {}

PatchLine(header, path) ==
  /\ Step /\ tool = "apply_patch" /\ steps <= MaxPatchPaths
  /\ text' = text \o <<NL, header>> \o path
  /\ writes' = writes \union {Wrote(p, "patch", "plain") : p \in {Trim(path)} \ {<<>>}}
  /\ UNCHANGED <<runs, data, fed, expands>>

\* The agent sends fields of the adapters' own along.
Input == Set((Command :> text), Field("__gommage_home"), <<"spoofed">>)

\* What the adapters make of it, under their harness's name for the shell.
Made ==
  {HookCall(tool, Input), GatewayCall(tool, Input)}
  \union {HookCall(alias, Input) : alias \in IF tool = "Bash" THEN ShellAliases ELSE {}}

\* An adapter passes the call on.
Submit ==
  /\ call = None
  /\ call' \in Made
  /\ candidates' = Range(ShellCandidates(call'))
  /\ caps' = CapabilitiesOf(call')
  /\ UNCHANGED <<tool, text, told, steps>>

Next ==
  \/ Submit
  \/ \E op \in {";", "&&", "||", "|", NL, "&"}, c \in Added : Chain(op, c)
  \/ Substitute(<<"$(">>, <<")">>)
  \/ Substitute(<<"\"", "$(">>, <<")", "\"">>)
  \/ Substitute(<<Tick>>, <<Tick>>)
  \/ \E w \in Wrappers : ShellC(w)
  \/ Group
  \/ Quote
  \/ \E dash \in {<<>>, <<"-">>}, d \in {<<"EOF">>, Quoted(<<"EOF">>)}, t \in Tails :
       FeedData(dash, d, t)
  \/ FeedShell
  \/ \E h \in PatchHeaders, p \in PatchPaths : PatchLine(h, p)

Spec == Init /\ [][Next]_vars

---------------------------------------------------------------------------
(* hardstop.rs: the scanner of proc.exec capabilities *)

RmRfFlags(args) ==
  /\ \E a \in Range(args) : a \in Names(RecursiveFlags)
  /\ \E a \in Range(args) : a \in Names(ForceFlags)

RmRfAbsolute(args) == RmRfFlags(args) /\ \E a \in Range(args) : a[1] \in Absolute

\* rm with its flags in the two words after it.
XargsInvokesRmRf(args) ==
  \E i \in DOMAIN args : args[i] = <<"rm">> /\ RmRfFlags(FirstOf(2, Rest(args, i)))

DdWritesDevice(args) == \E a \in Range(args) : a[1] = "of=" /\ Len(a) > 1 /\ a[2] \in Devices

\* What is hard-stopped of a segment that is no bash -c.
Destructive(words) ==
  /\ words # <<>>
  /\ LET head == HeadBasename(words[1]) IN
     \/ head = <<"xargs">> /\ XargsInvokesRmRf(Tail(words))
     \/ head = <<"rm">> /\ RmRfAbsolute(Tail(words))
     \/ head = <<"dd">> /\ DdWritesDevice(Tail(words))

\* Faulty variant: substitutions are not scanned.
RECURSIVE SegmentsHit(_)
SegmentsHit(command) ==
  LET Hit(words, payload) ==
        IF payload = None THEN Destructive(words) ELSE SegmentsHit(payload)
  IN  \E s \in Range(ShellSegments(command)) : Hit(CommandWords(s), PayloadOf(s))

RECURSIVE SemanticHit(_)
SemanticHit(command) ==
  LET Hit(words, payload) ==
        IF payload = None THEN Destructive(words) ELSE SemanticHit(payload)
  IN  \/ \E body \in Range(CommandSubstitutions(command)) : SemanticHit(body)
      \/ \E s \in Range(ShellSegments(command)) : Hit(CommandWords(s), PayloadOf(s))

HardStopped(emitted) ==
  \E c \in emitted : c # <<>> /\ c[1] = "proc.exec:" /\ SemanticHit(Tail(c))

---------------------------------------------------------------------------
(* Properties *)

\* What the rules on `command` make of a command of its own.
Alone(cmd) ==
  LET matched == WithShellCommand(call.input, cmd) IN
  UNION {{Render(r, r.emit[i], matched, call) : i \in DOMAIN r.emit} :
           r \in {q \in Range(Rules) : /\ Command \in DOMAIN q.inputs
                                       /\ MatchesTool(q, call.tool)
                                       /\ MatchesInputs(q, matched)}}

Mapped == call # None
Shown(name) == {call.input[f] : f \in {g \in DOMAIN call.input : g[1] = name}}

\* A command or a redirection that is chained by an operator shell_segments
\* splits at, wrapped, substituted or fed to a shell, up to the depth the mapper
\* looks to, gives the call every capability it would have standing alone
\* (collect_candidates, map).  What is not "plain" is not covered.
CapabilitiesSurvive ==
  Mapped => \A r \in runs :
    r.how = "plain" /\ r.depth <= MaxCandidateDepth => Alone(r.cmd) \subseteq caps

\* "With a bare delimiter the shell still expands `$(...)`, backticks and
\* variables inside the body, so those really do run and must stay visible to
\* the substitution scanner": quotes in the body are text.
BareBodiesStayVisible ==
  Mapped => \A r \in runs :
    r.how = "quoted" /\ r.depth <= MaxCandidateDepth => Alone(r.cmd) \subseteq caps

\* Text the shell only reads is never taken for a command: quoted and
\* escaped text anywhere, heredoc bodies where no interpreter is named and
\* no backtick is glued to the reader's name (mask_heredoc_bodies,
\* shell_segments).
DataIsInert ==
  LET inert == data \union (IF \E e \in Executors \union {Tick} : Has(e) THEN {} ELSE fed)
  IN  candidates \cap inert \subseteq {r.cmd : r \in runs}

\* A destructive command in one of the same shapes stays a hard stop at any
\* depth (hardstop::check).
HardStopsSurvive ==
  Mapped => \A r \in runs : r.how = "plain" /\ SemanticHit(r.cmd) => HardStopped(caps)

Contexts == Shown("__gommage_git_write_path")
Due(set) == {Resolve(w.path) : w \in set} \cap DOMAIN BranchOf

\* Every path in a work tree that a plain redirection, a write verb without one,
\* or a patch of the outermost text writes has its branch recorded, the first
\* MAX_GIT_WRITE_CONTEXTS of them (enrich_bash_input, enrich_apply_patch_input).
WritesHaveContext ==
  Mapped /\ call.tool = tool
    => \/ Due({w \in writes : w.how = "plain"}) \subseteq Contexts
       \/ Cardinality(Contexts) = MaxGitContexts
       \/ Shown("__gommage_patch_overflow") # {}

\* A patch's paths are all visible to the mapper, or the patch is marked
\* as one that cannot be read (enrich_apply_patch_input).
PatchIsVisible ==
  Mapped /\ tool = "apply_patch" =>
    \/ {Resolve(w.path) : w \in writes} = Shown("__gommage_patch_path") /\ writes # {}
    \/ Shown("__gommage_patch_unparsed") \union Shown("__gommage_patch_overflow") # {}
=============================================================================
