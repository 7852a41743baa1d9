---------------------------- MODULE MCToolCalls ----------------------------
(***************************************************************************)
(* ToolCalls for TLC: a small instance of commands, wrappers, tails and   *)
(* capability files.                                                       *)
(***************************************************************************)
EXTENDS ToolCalls

Words(s) == Scan(LAMBDA a, w : IF a = <<>> THEN <<w>> ELSE a \o <<" ", w>>, <<>>, s)

push == <<"git", " ", "push", " ", "main">>
copy == <<"cp", " ", "a", " ", "f">>
wipe == <<"rm", " ", "-rf", " ", "/etc">>
sweep == <<"xargs", " ", "rm", " ", "-rf">>
flash == <<"dd", " ", "of=", "/dev/sda">>

Cmd(w, c, t) == [text |-> w \o c \o t.text, runs |-> {Ran(c, "plain")} \union Redirects(t.writes),
                 writes |-> t.writes, data |-> {}, expands |-> {}]

\* Nothing, > g, 2>&1, >>'g h', >| g, and the background.
To(path, how) == {Wrote(path, "redirect", how)}
plain == [text |-> <<>>, writes |-> {}]
toG == [text |-> <<" ", ">", " ", "g">>, writes |-> To(<<"g">>, "plain")]
toOut == [text |-> <<" ", "2", ">", "&", "1">>, writes |-> {}]
toSpaced == [text |-> <<" ", ">>", "'", "g", " ", "h", "'">>, writes |-> To(<<"g", " ", "h">>, "plain")]
overG == [text |-> <<" ", ">|", " ", "g">>, writes |-> To(<<"g">>, "clobber")]
behind == [text |-> <<" ", "&">>, writes |-> {}]

sudo == <<"sudo", " ", "-u", " ", "root", " ">>
env == <<"env", " ", "X=1", " ">>
timeout == <<"timeout", " ", "-s", " ", "9", " ", "5", " ">>

\* A write verb, without a redirection and with one.
Verb(c, path, t) ==
  [c EXCEPT !.writes = @ \union {Wrote(path, "verb", IF t = plain THEN "plain" ELSE "covered")}]
Copy(t) == Verb(Cmd(<<>>, copy, t), <<"f">>, t)
\* echo \; git push main
Escaped == [text |-> <<"echo", " ", "\\", ";", " ">> \o push,
            runs |-> {Ran(<<"echo", " ", ";", " ">> \o push, "plain")},
            writes |-> {}, data |-> {push}, expands |-> {}]
\* echo '$(git push main)'
Message == [text |-> Echo(Quoted(<<"$(">> \o push \o <<")">>)), runs |-> {}, writes |-> {},
            data |-> {push}, expands |-> Deeper({Ran(push, "plain")})]

MCSimple == {Cmd(<<>>, push, plain), Cmd(sudo, push, toOut), Cmd(env, push, toG),
             Cmd(timeout, push, toSpaced), Cmd(<<>>, push, behind), Cmd(<<>>, push, overG),
             [Cmd(<<>>, push, toG) EXCEPT !.text = [@ EXCEPT ![1] = "/usr/bin/git"]],
             Cmd(<<>>, wipe, plain), Cmd(sudo, wipe, toG), Copy(plain), Copy(toG), Escaped, Message,
             Cmd(<<>>, sweep, plain), Verb(Cmd(env, flash, plain), <<"/dev/sda">>, plain)}
MCAdded == {Cmd(<<>>, wipe, toG), Copy(plain)}
MessageOnly == {Message}
MCTails == {plain, toG}
MCWrappers == {<<>>, sudo}

Rule(name, inputs, emit) == [tool |-> {name}, pattern |-> {}, inputs |-> inputs, emit |-> emit]
MCFiles == <<
  << Rule("Bash", <<>>, << <<<<"literal", "proc.exec:">>, <<"input", Command>>>> >>),
     Rule("Bash", Command :> <<"git", " ", "push", " ">>,
          << <<<<"literal", "git.push:">>, <<"capture", Command>>>>, <<<<"literal", "net.out:">>>> >>) >>,
  << Rule("Bash", Command :> <<"rm", " ">>, << <<<<"literal", "rm:">>, <<"capture", Command>>>> >>),
     Rule("Bash", Command :> <<">", " ">>, << <<<<"literal", "fs.write:">>, <<"capture", Command>>>> >>),
     Rule("Bash", Field("__gommage_home") :> <<>>,
          << <<<<"literal", "home:">>, <<"capture", Field("__gommage_home")>>>> >>),
     [Rule("", <<>>, << <<<<"tool", "">>>> >>) EXCEPT !.tool = {}, !.pattern = {"apply_patch"}] >> >>

MCBasename == "/usr/bin/git" :> "git"
MCInternal == {"__gommage_home", "__gommage_cwd", "__gommage_cwd_git_branch",
               "__gommage_git_write_path", "__gommage_git_write_branch", "__gommage_patch_path",
               "__gommage_patch_absolute", "__gommage_patch_unparsed", "__gommage_patch_overflow"}
MCCwd == <<"/repo">>
MCHome == <<"/home">>
MCBranchOf == [p \in {<<"/repo">>, <<"/repo", "/", "f">>, <<"/repo", "/", "g">>}
                 |-> <<"main">>]
MCPatchPaths == {<<"f">>, <<"./", "g">>, <<"/etc">>, <<" ">>}
=============================================================================
