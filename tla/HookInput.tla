----------------------------- MODULE HookInput -----------------------------
(***************************************************************************)
(* input.rs: what an adapter adds to a call before it is mapped, in fields *)
(* of its own.  The adapter of gommage-mcp has the same functions again,   *)
(* without the home directory.                                             *)
(***************************************************************************)
EXTENDS CapabilityMapper

CONSTANTS
  Internal,    \* names that start with __gommage_
  Absolute,    \* names of paths that start with a slash
  Home, Cwd,   \* HOME of the adapter, and the call's cwd: texts, or None
  BranchOf,    \* git's answer for a path, a function; no entry, no branch
  MaxPatchPaths, MaxGitContexts

ResolveFrom(base, path) ==
  IF path # <<>> /\ path[1] \in Absolute \union {"~"} THEN path
  ELSE IF path \in {<<>>, <<".">>} THEN base
  ELSE base \o <<"/">> \o (IF path[1] = "./" THEN Tail(path) ELSE path)

Resolve(path) == ResolveFrom(Cwd, path)

StripInternalFields(input) ==
  [f \in {g \in DOMAIN input : g[1] \notin Internal} |-> input[f]]

Set(input, f, text) == (f :> text) @@ input
Flag == <<"true">>

---------------------------------------------------------------------------

Distinct(paths) == Scan(Push, <<>>, paths)
FirstOf(n, paths) == SubSeq(paths, 1, IF Len(paths) < n THEN Len(paths) ELSE n)
Tracked(path) == path \in DOMAIN BranchOf

\* Faulty variant: paths outside a work tree count against the limit.
ContextsOfFirst(paths) == SelectSeq(FirstOf(MaxGitContexts, Distinct(paths)), Tracked)

\* The paths add_git_write_contexts records: the first that git has a branch for.
GitContexts(paths) == FirstOf(MaxGitContexts, SelectSeq(Distinct(paths), Tracked))

AddGitWriteContexts(input, paths) ==
  LET contexts == GitContexts(paths)
      Add(a, i) == Set(Set(a, <<"__gommage_git_write_path", i>>, contexts[i]),
                       <<"__gommage_git_write_branch", i>>, BranchOf[contexts[i]])
  IN  Scan(Add, input, [i \in DOMAIN contexts |-> i])

PatchHeaders == {"*** Add File: ", "*** Update File: ", "*** Delete File: ", "*** Move to: "}

\* The paths a patch names, each once.
ApplyPatchPaths(command) ==
  LET Path(a, line) ==
        IF line # <<>> /\ line[1] \in PatchHeaders THEN Push(a, Trim(Tail(line))) ELSE a
  IN  Scan(Path, <<>>, Lines(command))

\* Faulty variant: the paths beyond the limit are left out.
EnrichFirstPatchPaths(input) ==
  LET paths == FirstOf(MaxPatchPaths, ApplyPatchPaths(input[Command]))
      Add(a, i) == Set(a, <<"__gommage_patch_path", i>>, Resolve(paths[i]))
  IN  Scan(Add, input, [i \in DOMAIN paths |-> i])

EnrichApplyPatch(input) ==
  LET paths == IF Command \in DOMAIN input THEN ApplyPatchPaths(input[Command]) ELSE <<>>
      Absolutes == \E i \in DOMAIN paths : paths[i][1] \in Absolute
      marked == IF Absolutes THEN Set(input, Field("__gommage_patch_absolute"), Flag) ELSE input
      Add(a, i) == Set(a, <<"__gommage_patch_path", i>>, Resolve(paths[i]))
  IN  IF paths = <<>> THEN Set(input, Field("__gommage_patch_unparsed"), Flag)
      ELSE IF Len(paths) > MaxPatchPaths
      THEN Set(input, Field("__gommage_patch_overflow"), Flag)
      ELSE AddGitWriteContexts(Scan(Add, marked, [i \in DOMAIN paths |-> i]),
                               [i \in DOMAIN paths |-> Resolve(paths[i])])

EnrichBash(input, home) ==
  LET here  == Set(input, Field("__gommage_cwd"), Cwd)
      homed == IF home = None THEN here ELSE Set(here, Field("__gommage_home"), home)
      branched == IF Cwd \in DOMAIN BranchOf
                  THEN Set(homed, Field("__gommage_cwd_git_branch"), BranchOf[Cwd]) ELSE homed
      targets == ShellWriteTargets(input[Command])
  IN  IF Command \notin DOMAIN input THEN branched
      ELSE AddGitWriteContexts(branched, [i \in DOMAIN targets |-> Resolve(targets[i])])

\* The paths of the tools that name one file.
EnrichPath(input, from, to, writes) ==
  IF Field(from) \notin DOMAIN input THEN input
  ELSE LET path == Resolve(input[Field(from)])
           named == Set(input, Field(to), path)
       IN  IF writes THEN AddGitWriteContexts(named, <<path>>) ELSE named

EnrichGrep(input) ==
  LET base == IF Field("path") \in DOMAIN input THEN Resolve(input[Field("path")]) ELSE Cwd
      based == Set(input, Field("__gommage_path"), base)
  IN  IF Field("glob") \notin DOMAIN input THEN based
      ELSE Set(based, Field("__gommage_glob_path"), ResolveFrom(base, input[Field("glob")]))

Enriched(tool, input, home) ==
  LET own == StripInternalFields(input) IN
  IF Cwd = None THEN own
  ELSE CASE tool = "Read"  -> EnrichPath(own, "file_path", "__gommage_file_path", FALSE)
         [] tool \in {"Write", "Edit", "MultiEdit"}
                           -> EnrichPath(own, "file_path", "__gommage_file_path", TRUE)
         [] tool = "NotebookEdit"
                           -> EnrichPath(own, "notebook_path", "__gommage_notebook_path", TRUE)
         [] tool = "apply_patch" -> EnrichApplyPatch(own)
         [] tool = "Bash"  -> EnrichBash(own, home)
         [] tool = "Grep"  -> EnrichGrep(own)
         [] tool = "Glob"  -> IF Field("pattern") \notin DOMAIN own THEN own
                              ELSE Set(own, Field("__gommage_pattern"),
                                       Resolve(own[Field("pattern")]))
         [] OTHER          -> own

\* tool_call_from_hook_payload, in `gommage hook` and in gommage-mcp.
HookCall(tool, input) == [tool |-> tool, input |-> Enriched(tool, input, Home)]
GatewayCall(tool, input) == [tool |-> tool, input |-> Enriched(tool, input, None)]
=============================================================================
