------------------------------- MODULE Shell -------------------------------
(***************************************************************************)
(* shell.rs: how a command line is taken apart.  A text is a sequence of   *)
(* tokens: operators, quotes, spaces, and names standing for any run of    *)
(* other characters.  A word is the sequence of tokens glued together in   *)
(* it, with its quotes removed.                                            *)
(***************************************************************************)
EXTENDS Integers, Sequences, FiniteSets, SequencesExt

CONSTANTS
  Basename,     \* the base names of the names that are paths, a function
  Assignments,  \* names of the form VAR=value
  Flags,        \* names that start with a dash
  Numbers,      \* file descriptors
  BackupSuffixes, \* names that start with a dot
  Consumers,    \* HEREDOC_DATA_CONSUMERS
  Executors,    \* HEREDOC_EXECUTORS
  None

NL == "\n"
Tab == "\t"
Tick == "backtick"
Blanks == {" ", Tab}
Spaces == Blanks \union {NL}
Pipes == {"|", "||"}
RedirectOps == {"<<<", ">>", "<<", "<>", ">|", ">", "<"}

\* A left fold as a recursive function: TLC evaluates it in one pass.
Scan(Step(_, _), start, seq) ==
  LET upTo[i \in 0 .. Len(seq)] == IF i = 0 THEN start ELSE Step(upTo[i - 1], seq[i])
  IN  upTo[Len(seq)]

HeadBasename(w) ==
  IF w # <<>> /\ w[1] \in DOMAIN Basename
  THEN <<Basename[w[1]]>> \o Tail(w) ELSE w

IsFlag(w) == w # <<>> /\ w[1] \in Flags
IsAssignment(w) == w # <<>> /\ w[1] \in Assignments

---------------------------------------------------------------------------
(* Quotes, as every scanner tracks them *)

Unquoted == [single |-> FALSE, double |-> FALSE]

Toggles(q, t) == (t = "'" /\ ~q.double) \/ (t = "\"" /\ ~q.single)

Toggle(q, t) ==
  IF ~Toggles(q, t) THEN q
  ELSE IF t = "'" THEN [q EXCEPT !.single = ~@] ELSE [q EXCEPT !.double = ~@]

---------------------------------------------------------------------------
(* scan_line_for_heredocs and mask_heredoc_bodies *)

\* A line is cut at blanks, operators, quotes and redirections; each piece
\* is compared by its base name.
Chunks(line) ==
  LET Cut(a, t) ==
        IF t \in Spaces \union Pipes \union RedirectOps \union {"&", "&&", ";", "(", ")", "$(", "'", "\""}
        THEN [done |-> Append(a.done, a.open), open |-> <<>>]
        ELSE [a EXCEPT !.open = Append(@, t)]
      end == Scan(Cut, [done |-> <<>>, open |-> <<>>], line)
  IN  {HeadBasename(w) : w \in Range(Append(end.done, end.open))}

Names(set) == {<<n>> : n \in set}

LineAllowsMasking(line) ==
  /\ Chunks(line) \cap Names(Executors) = {}
  /\ Chunks(line) \cap Names(Consumers) # {}

\* The heredocs a line opens, in order, and the quotes it leaves open.
\* mode is where the scan stands: in code, at the operator, before or inside a
\* delimiter; <<- is << with a dash to skip, for every terminator is trimmed.
Heredocs(line, quotes) ==
  LET maskable == LineAllowsMasking(line)
      Close(a) ==
        [a EXCEPT !.mode = "code", !.delimiter = <<>>,
           !.opened = IF a.delimiter = <<>> THEN @
                      ELSE Append(@, [delimiter |-> a.delimiter, literal |-> a.literal,
                                      maskable |-> maskable])]
      Code(a, t) ==
        IF Toggles(a.q, t) THEN [a EXCEPT !.q = Toggle(@, t)]
        ELSE IF t = "\\" /\ ~a.q.single THEN [a EXCEPT !.esc = TRUE]
        ELSE IF t = "<<" /\ a.q = Unquoted
             THEN [a EXCEPT !.mode = "opened", !.literal = FALSE]
        ELSE a
      Bare(a, t) ==
        IF t \in Spaces \union Pipes \union RedirectOps \union {"&", "&&", ";", "(", ")"}
        THEN Code(Close(a), t)
        ELSE IF t \in {"\\", "'", "\""} THEN [a EXCEPT !.mode = "bare", !.literal = TRUE]
        ELSE [a EXCEPT !.mode = "bare", !.delimiter = Append(@, t)]
      Before(a, t) ==
        IF t \in Blanks THEN [a EXCEPT !.mode = "before"]
        ELSE IF t \in {"'", "\""} THEN [a EXCEPT !.mode = t, !.literal = TRUE]
        ELSE Bare(a, t)
      Step(a, t) ==
        IF a.esc THEN [a EXCEPT !.esc = FALSE]
        ELSE CASE a.mode = "code"   -> Code(a, t)
               [] a.mode = "opened" -> IF t = "-" THEN [a EXCEPT !.mode = "before"]
                                       ELSE Before(a, t)
               [] a.mode = "before" -> Before(a, t)
               [] a.mode = "bare"   -> Bare(a, t)
               [] OTHER             -> IF t = a.mode THEN Close(a)
                                       ELSE [a EXCEPT !.delimiter = Append(@, t)]
      end == Scan(Step, [q |-> quotes, esc |-> FALSE, mode |-> "code", delimiter |-> <<>>,
                             literal |-> FALSE, opened |-> <<>>], line)
  IN  [q |-> end.q, opened |-> (IF end.mode = "code" THEN end ELSE Close(end)).opened]

Lines(text) ==
  LET Cut(a, t) == IF t = NL THEN Append(a, <<>>) ELSE [a EXCEPT ![Len(a)] = Append(@, t)]
  IN  Scan(Cut, <<(<<>>)>>, text)

Joined(lines, sep) ==
  Scan(LAMBDA a, l : IF a = None THEN l ELSE a \o <<sep>> \o l, None, lines)

Trim(line) ==
  LET solid == {i \in DOMAIN line : line[i] \notin Blanks}
  IN  IF solid = {} THEN <<>> ELSE SubSeq(line, Min(solid), Max(solid))

\* Faulty variant: the body of a bare delimiter is hidden from no scan.
HiddenWhenLiteral(heredoc, mask) == heredoc.maskable /\ heredoc.literal

Hidden(heredoc, mask) == heredoc.maskable /\ (heredoc.literal \/ mask = "All")

\* The bodies that are data become blanks, their terminators too; a body
\* whose terminator never comes stays as it is.
MaskedLines(lines, mask) ==
  LET Next1(a) == IF a.pending = <<>> THEN [a EXCEPT !.current = None]
                  ELSE [a EXCEPT !.current = Head(a.pending), !.pending = Tail(@)]
      Code(a, found) == Next1([a EXCEPT !.q = found.q, !.pending = @ \o found.opened])
      Step(a, i) ==
        IF a.current = None THEN Code(a, Heredocs(lines[i], a.q))
        ELSE IF Trim(lines[i]) # a.current.delimiter THEN [a EXCEPT !.body = @ \union {i}]
        ELSE Next1([a EXCEPT !.body = {},
                      !.blank = IF Hidden(a.current, mask) THEN @ \union a.body \union {i} ELSE @])
  IN  Scan(Step, [q |-> Unquoted, pending |-> <<>>, current |-> None, body |-> {},
                  blank |-> {}], [i \in DOMAIN lines |-> i]).blank

Blanked(lines, blank) ==
  [i \in DOMAIN lines |->
     IF i \in blank THEN [j \in DOMAIN lines[i] |-> " "] ELSE lines[i]]

MaskHeredocBodies(text, mask) ==
  LET lines == Lines(text) IN Joined(Blanked(lines, MaskedLines(lines, mask)), NL)

---------------------------------------------------------------------------
(* shell_segments *)

NonEmpty(seqs) == SelectSeq(seqs, LAMBDA s : s # <<>>)

Splits(q, t) == q = Unquoted /\ t \in Pipes \union {";", NL, "&&"}

\* The two characters of >| are taken apart.
Clobbers(q, t) == q = Unquoted /\ t = ">|"

ShellSegments(command) ==
  LET Word(a) == [a EXCEPT !.word = <<>>, !.words = NonEmpty(Append(@, a.word))]
      Cut(a) == [a EXCEPT !.words = <<>>, !.segments = NonEmpty(Append(@, a.words))]
      Segment(a) == Cut(Word(a))
      Step(a, t) ==
        IF a.esc THEN [a EXCEPT !.esc = FALSE, !.word = Append(@, t)]
        ELSE IF Toggles(a.q, t) THEN [a EXCEPT !.q = Toggle(@, t)]
        ELSE IF t = "\\" /\ ~a.q.single THEN [a EXCEPT !.esc = TRUE]
        ELSE IF Splits(a.q, t) THEN Segment(a)
        ELSE IF Clobbers(a.q, t) THEN Segment([a EXCEPT !.word = Append(@, ">")])
        ELSE IF t \in Spaces /\ a.q = Unquoted THEN Word(a)
        ELSE [a EXCEPT !.word = Append(@, t)]
  IN  Segment(Scan(Step, [q |-> Unquoted, esc |-> FALSE, word |-> <<>>, words |-> <<>>,
                              segments |-> <<>>], MaskHeredocBodies(command, "All"))).segments

---------------------------------------------------------------------------
(* command_words, strip_redirections, shell_c_payload *)

\* The flags of a wrapper that take the next word.
TakesWord(head) ==
  CASE head = "sudo"    -> {"-u", "--user", "-g", "--group", "-h", "--host"}
    [] head = "nice"    -> {"-n"}
    [] head = "timeout" -> {"-s", "--signal", "-k"}
    [] head = "stdbuf"  -> {"-i", "-o", "-e"}
    [] OTHER            -> {}

Rest(words, n) == SubSeq(words, n + 1, Len(words))

RECURSIVE DropFlags(_, _)
DropFlags(words, head) ==
  IF words = <<>> \/ ~IsFlag(words[1]) THEN words
  ELSE DropFlags(Rest(words, IF words[1] \in Names(TakesWord(head)) THEN 2 ELSE 1), head)

RECURSIVE DropEnv(_)
DropEnv(words) ==
  IF words = <<>> \/ ~(IsFlag(words[1]) \/ IsAssignment(words[1])) THEN words
  ELSE DropEnv(Tail(words))

RECURSIVE CommandWords(_)
CommandWords(words) ==
  IF words = <<>> THEN words
  ELSE CASE words[1] \in Names({"sudo", "nice", "stdbuf"})
              -> CommandWords(DropFlags(Tail(words), words[1][1]))
         [] words[1] = <<"timeout">>  -> CommandWords(Rest(DropFlags(Tail(words), "timeout"), 1))
         [] words[1] = <<"env">>      -> CommandWords(DropEnv(Tail(words)))
         [] words[1] = <<"nohup">> \/ IsAssignment(words[1]) -> CommandWords(Tail(words))
         [] OTHER                     -> words

\* What classify_control_token makes of a word.
ControlToken(w) ==
  LET op == IF w[1] \in Numbers \union {"&"} THEN Tail(w) ELSE w
  IN  IF w = <<"&">> THEN "self"
      ELSE IF \/ op = <<>> \/ op[1] \notin RedirectOps
              \/ w[1] = "&" /\ op[1] \notin {">", ">>", ">|"} THEN "none"
      ELSE IF Len(op) = 1 THEN "operator" ELSE "self"

RECURSIVE StripRedirections(_)
StripRedirections(words) ==
  LET kind == ControlToken(words[1])
      next == StripRedirections(Rest(words, IF kind = "operator" THEN 2 ELSE 1))
  IN  IF words = <<>> THEN <<>> ELSE IF kind = "none" THEN <<words[1]>> \o next ELSE next

RECURSIVE ShellCPayload(_)
ShellCPayload(args) ==
  IF args = <<>> \/ ~IsFlag(args[1]) THEN None
  ELSE IF args[1] # <<"-c">> THEN ShellCPayload(Tail(args))
  ELSE IF Len(args) = 1 THEN None ELSE args[2]

---------------------------------------------------------------------------
(* redirect_targets and command_substitutions *)

\* Whether token t ends the target a scan is reading.
TargetEnds(a, t) ==
  a.tq = Unquoted /\ t \in Spaces \union Pipes \union RedirectOps \union {"&", "&&", ";"}

\* After the > of >| comes a |, and with it the end of an empty target.
RedirectTargets(command) ==
  LET Close(a) == [a EXCEPT !.mode = "code", !.target = <<>>,
                     !.targets = NonEmpty(Append(@, a.target))]
      Code(a, t) ==
        IF Toggles(a.q, t) THEN [a EXCEPT !.q = Toggle(@, t)]
        ELSE IF t = "\\" /\ ~a.q.single THEN [a EXCEPT !.esc = TRUE]
        ELSE IF t \in {">", ">>", "<>"} /\ a.q = Unquoted
             THEN [a EXCEPT !.mode = "before", !.tq = Unquoted]
        ELSE a
      Target(a, t) ==
        IF Toggles(a.tq, t) THEN [a EXCEPT !.mode = "target", !.tq = Toggle(@, t)]
        ELSE IF TargetEnds(a, t) THEN Code(Close(a), t)
        ELSE [a EXCEPT !.mode = "target", !.target = Append(@, t)]
      Step(a, t) ==
        IF a.esc THEN [a EXCEPT !.esc = FALSE]
        ELSE IF a.mode = "code" THEN Code(a, t)
        ELSE IF a.mode = "before" /\ t \in Spaces THEN a
        ELSE Target(a, t)
  IN  Close(Scan(Step, [q |-> Unquoted, tq |-> Unquoted, esc |-> FALSE, mode |-> "code",
                            target |-> <<>>, targets |-> <<>>],
                     MaskHeredocBodies(command, "All"))).targets

\* Where the substitution whose body starts at i ends: its closing
\* parenthesis or backtick, 0 if there is none.
SubstitutionEnd(text, i) ==
  LET Step(a, j) ==
        IF j < i \/ a.end # 0 THEN a
        ELSE IF Toggles(a.q, text[j]) THEN [a EXCEPT !.q = Toggle(@, text[j])]
        ELSE IF a.q # Unquoted THEN a
        ELSE IF text[j] \in {"(", "$("} THEN [a EXCEPT !.depth = @ + 1]
        ELSE IF text[j] = ")" THEN [a EXCEPT !.depth = @ - 1, !.end = IF a.depth = 1 THEN j ELSE 0]
        ELSE a
      ticks == {j \in i .. Len(text) : text[j] = Tick}
  IN  IF text[i - 1] = "$("
      THEN Scan(Step, [q |-> Unquoted, depth |-> 1, end |-> 0],
                    [j \in DOMAIN text |-> j]).end
      ELSE IF ticks = {} THEN 0 ELSE Min(ticks)

Substitutions(text) ==
  LET Body(a, j, end) ==
        IF end = 0 THEN a
        ELSE [a EXCEPT !.next = end + 1, !.bodies = Append(@, SubSeq(text, j + 1, end - 1))]
      Step(a, j) ==
        LET t == text[j] IN
        IF j < a.next THEN a
        ELSE IF Toggles(a.q, t) THEN [a EXCEPT !.q = Toggle(@, t)]
        ELSE IF t = "\\" /\ ~a.q.single THEN [a EXCEPT !.next = j + 2]
        ELSE IF t \in {"$(", Tick} /\ ~a.q.single THEN Body(a, j, SubstitutionEnd(text, j + 1))
        ELSE a
  IN  Scan(Step, [q |-> Unquoted, next |-> 1, bodies |-> <<>>],
               [j \in DOMAIN text |-> j]).bodies

CommandSubstitutions(command) == Substitutions(MaskHeredocBodies(command, "LiteralOnly"))

---------------------------------------------------------------------------
(* shell_write_targets, for the hook adapters *)

IsInPlaceOption(w) == w[1] \in {"-i", "--in-place"}

\* sed_in_place_target's loop over the options: what is left, whether the
\* edit is in place, whether the script came as an option.
RECURSIVE SedOptions(_, _, _)
SedOptions(args, inPlace, script) ==
  IF args = <<>> \/ ~IsFlag(args[1])
  THEN [rest |-> args, inPlace |-> inPlace, script |-> script]
  ELSE CASE args[1] = <<"--">> -> [rest |-> Tail(args), inPlace |-> inPlace, script |-> script]
         [] IsInPlaceOption(args[1]) ->
            LET suffix == Len(args[1]) = 1 /\ Len(args) > 3 /\ args[2][1] \in BackupSuffixes
            IN  SedOptions(Rest(args, IF suffix THEN 2 ELSE 1), TRUE, script)
         [] args[1] \in Names({"-e", "-f"}) -> SedOptions(Rest(args, 2), inPlace, TRUE)
         [] OTHER -> SedOptions(Tail(args), inPlace, script)

SedTarget(args) ==
  LET sed == SedOptions(args, FALSE, FALSE)
      at  == IF sed.script THEN 1 ELSE 2
  IN  IF sed.inPlace /\ Len(sed.rest) >= at THEN <<sed.rest[at]>> ELSE <<>>

\* The paths a write verb names.
VerbTargets(words) ==
  LET head == HeadBasename(words[1])
      args == SelectSeq(Tail(words), LAMBDA w : ~IsFlag(w))
      operands == SelectSeq(args, LAMBDA w : w[1] = "of=" /\ Len(w) > 1)
  IN  IF words = <<>> THEN <<>> ELSE
      CASE head = <<"sed">> -> SedTarget(Tail(words))
        [] head = <<"dd">>  -> [i \in DOMAIN operands |-> Tail(operands[i])]
        [] head = <<"tee">> /\ args # <<>> -> <<Head(args)>>
        [] head \in Names({"cp", "install", "mv", "rsync", "ln"}) /\ args # <<>> -> <<Last(args)>>
        [] OTHER -> <<>>

\* push_target, push_candidate: each once, nothing empty.
Push(out, text) == IF text = <<>> \/ text \in Range(out) THEN out ELSE Append(out, text)

ShellWriteTargets(command) ==
  LET Segment(a, s) == Scan(Push, a, VerbTargets(CommandWords(s)))
  IN  Scan(Push, Scan(Segment, <<>>, ShellSegments(command)), RedirectTargets(command))
=============================================================================
