--------------------------- MODULE HostSetupProofs ---------------------------
(***************************************************************************)
(* Theorems about HostSetup and SetupReports, for any homes, tools,        *)
(* commands, edits and failures.                                           *)
(***************************************************************************)
EXTENDS SetupReports, FunctionTheorems, FiniteSetTheorems, SequenceTheorems, TLAPS

HookFiles == {"settings", "hooks"}

States == Documents \union {Absent, Blank, Broken}
StatesOf(f) == Contents[f] \union {Absent, Blank, Broken}

Reports ==
  [kind : {"install", "uninstall", "quickstart", "rollback"}, agents : SUBSET Agents,
   replace : BOOLEAN, import : BOOLEAN]

HookTasks == [op : {"hook", "remove"}, file : HookFiles, replace : BOOLEAN, import : BOOLEAN]
FlagTasks == [op : {"enable", "disable"}, file : {"config"}, replace : BOOLEAN, import : BOOLEAN]
CopyTasks == [op : {"restore", "rollback"}, file : Files, replace : BOOLEAN, import : BOOLEAN]
OtherTasks ==
  [op : {"posture", "snapshot", "context", "service", "policy", "selftest", "unservice", "home",
         "binaries", "purge"},
   file : {None}, replace : BOOLEAN, import : BOOLEAN]
EndTasks == [op : {"end"}, file : Reports, replace : BOOLEAN, import : BOOLEAN]

FileTasks == HookTasks \union FlagTasks \union CopyTasks
InnerTasks == FileTasks \union OtherTasks
Tasks == InnerTasks \union EndTasks

Kind == Last(tasks).file.kind

FileInv ==
  /\ file \in [Files -> States]
  /\ \A f \in Files : file[f] \in StatesOf(f)
  /\ backups \in [Files -> Seq(States)]
  /\ \A f \in Files : \A i \in DOMAIN backups[f] : backups[f][i] \in StatesOf(f)
  /\ kept \in [Files -> States \union {None}]
  /\ \A f \in Files : kept[f] \in StatesOf(f) \union {None}
  /\ user \in [Files -> SUBSET Group]
  /\ flow \in [agents : SUBSET Agents, restored : SUBSET Agents, removed : BOOLEAN]

\* A list ends with its report, and is one of rollbacks or has none.
ListInv ==
  /\ tasks \in Seq(Tasks)
  /\ ~Idle =>
       /\ Last(tasks) \in EndTasks
       /\ \A i \in 1..(Len(tasks) - 1) :
            /\ tasks[i] \in InnerTasks
            /\ tasks[i].op = "rollback" <=> Kind = "rollback"
            /\ tasks[i].op = "rollback" => kept[tasks[i].file] # None

\* What is under way beyond the reading.
StageInv ==
  /\ stage \in {"read", "backup", "truncate", "write"}
  /\ ~Idle /\ stage # "read" =>
       /\ Task \in FileTasks
       /\ draft \in StatesOf(Task.file)
  /\ ~Idle /\ stage = "backup" => Task \in HookTasks \union FlagTasks

Shape == FileInv /\ ListInv /\ StageInv

---------------------------------------------------------------------------

InFile(f, g) == IsDocument(f) /\ g \in GroupsOf(f, file[f])
InBackup(f, g) ==
  \E i \in DOMAIN backups[f] :
    backups[f][i] \notin {Blank, Broken} /\ g \in GroupsOf(f, backups[f][i])

UserInv ==
  ~raced /\ ~excused =>
    /\ \A f \in HookFiles : \A g \in user[f] : InFile(f, g) \/ InBackup(f, g)
    /\ ~Idle /\ stage \in {"truncate", "write"} =>
         \A f \in HookFiles : Task.file = f => \A g \in user[f] : InBackup(f, g)
    /\ \A i \in DOMAIN tasks : tasks[i].op # "rollback"

CleanIn(f, doc) == \A g \in GroupsOf(f, doc) : ~g.gommage

\* The agents whose hooks the command under way, or the last one, takes away; what is
\* restored is as it was.
Named(f) == AgentOf(f) \in flow.agents \ flow.restored
Clean(f) == Named(f) => (IsDocument(f) => CleanIn(f, file[f]))

\* The binaries are the last thing but the backups: the hooks are gone by then.
Early == {"restore", "remove", "disable", "unservice", "home"}
CleanList ==
  \A j \in DOMAIN tasks : tasks[j].op = "binaries" =>
    /\ \A i \in 1..(j - 1) : tasks[i].op \in Early
    /\ \A i \in (j + 1)..Len(tasks) : tasks[i].op \in {"purge", "end"}
    /\ \A f \in HookFiles :
         Clean(f) \/ \E i \in 1..(j - 1) : tasks[i].op = "remove" /\ tasks[i].file = f

CleanHost ==
  ~installed =>
    /\ \A i \in DOMAIN tasks : tasks[i].op \in {"purge", "end"}
    /\ \A f \in HookFiles : Clean(f)

\* What is under way puts no hook back but by a restore.
CleanStage ==
  ~Idle /\ stage # "read" =>
    /\ Task.op = "restore" => AgentOf(Task.file) \in flow.restored
    /\ Task.op = "remove" => CleanIn(Task.file, draft)

CleanInv == CleanStage /\ CleanList /\ CleanHost

RollInv ==
  /\ ~Idle => last = None
  /\ ~Idle /\ Kind = "rollback" =>
       /\ stage # "read" => stage # "backup" /\ draft = kept[Task.file]
       /\ ~raced => \A f \in Files :
            kept[f] \in {None, file[f]} \/ \E i \in 1..(Len(tasks) - 1) : tasks[i].file = f
  /\ RollbackIsExact

---------------------------------------------------------------------------
(* Contents *)

LEMMA Kinds ==
  /\ Files = HookFiles \union {"config"}
  /\ Contents["settings"] = [groups : SUBSET Group, allow : {None} \union SUBSET Tools]
  /\ Contents["hooks"] = [nested : {None} \union SUBSET Group, top : {None} \union SUBSET Group]
  /\ Contents["config"] = [hooks : {None} \union BOOLEAN, legacy : {None} \union BOOLEAN]
  /\ \A f \in Files : Contents[f] \subseteq Documents
  BY DEF Files, HookFiles, Contents, Documents

\* A document is none of the marks.
LEMMA DocumentsAreUnmarked ==
  ASSUME NEW f \in Files, NEW doc \in Contents[f]
  PROVE  doc \notin {Absent, Blank, Broken, None}
  BY MarksAreNoDocuments, Kinds

LEMMA EmptyDocument == \A f \in Files : EmptyOf[f] \in Contents[f]
<1>1. /\ EmptyOf["settings"] = [groups |-> {}, allow |-> None]
      /\ EmptyOf["hooks"] = [nested |-> None, top |-> None]
      /\ EmptyOf["config"] = [hooks |-> None, legacy |-> None]
  BY DEF EmptyOf
<1>2. {} \in SUBSET Group /\ None \in {None} \union SUBSET Tools
      /\ None \in {None} \union SUBSET Group /\ None \in {None} \union BOOLEAN
  OBVIOUS
<1>3. EmptyOf["settings"] \in Contents["settings"]
  BY <1>1, <1>2, Kinds
<1>4. EmptyOf["hooks"] \in Contents["hooks"]
  BY <1>1, <1>2, Kinds
<1>5. EmptyOf["config"] \in Contents["config"]
  BY <1>1, <1>2, Kinds
<1> QED
  BY <1>3, <1>4, <1>5 DEF Files

LEMMA GroupsAreGroups ==
  ASSUME NEW f \in Files, NEW doc \in Contents[f]
  PROVE  GroupsOf(f, doc) \in SUBSET Group
<1>1. CASE f = "settings"
  BY <1>1, Kinds DEF GroupsOf
<1>2. CASE f = "hooks"
  BY <1>2, Kinds DEF GroupsOf, OrEmpty
<1>3. CASE f = "config"
  BY <1>3 DEF GroupsOf
<1> QED
  BY <1>1, <1>2, <1>3 DEF Files

LEMMA DocumentHasItsShape ==
  ASSUME FileInv, NEW f \in Files, Readable(f)
  PROVE  Document(f) \in Contents[f]
  BY EmptyDocument DEF FileInv, Readable, Document, StatesOf

\* No group but the hook is Gommage's, unless it was.
LEMMA HookedHasItsShape ==
  ASSUME NEW f \in HookFiles, NEW doc \in Contents[f], NEW replace \in BOOLEAN
  PROVE  WithHook(f, doc, replace) \in Contents[f]
<1>1. ASSUME NEW groups \in SUBSET Group, NEW tools \in SUBSET Tools
      PROVE  Installed(groups, replace, tools) \in SUBSET Group
  <2>1. OurGroup(tools) \in Group
    BY DEF OurGroup, Group
  <2>2. Others(groups) \in SUBSET Group
    BY DEF Others
  <2> QED
    BY <2>1, <2>2 DEF Installed
<1>2. CASE f = "settings"
  <2>1. Matcher(doc) \in SUBSET Tools /\ doc.groups \in SUBSET Group
    BY <1>2, Kinds DEF Matcher
  <2> DEFINE new == Installed(doc.groups, replace, Matcher(doc))
  <2>2. new \in SUBSET Group
    BY <2>1, <1>1
  <2>3. WithHook(f, doc, replace) = [doc EXCEPT !.groups = new]
    BY <1>2 DEF WithHook
  <2> HIDE DEF new
  <2> QED
    BY <1>2, <2>2, <2>3, Kinds
<1>3. CASE f = "hooks"
  <2> DEFINE p == Primary(doc)
             new == Installed(OrEmpty(doc[p]), replace, Tools)
  <2>1. p \in {"nested", "top"}
    BY DEF Primary
  <2>2. OrEmpty(doc[p]) \in SUBSET Group
    BY <1>3, <2>1, Kinds DEF OrEmpty
  <2>3. new \in SUBSET Group
    BY <2>2, <1>1
  <2>4. WithHook(f, doc, replace) = [doc EXCEPT ![p] = new]
    BY <1>3 DEF WithHook
  <2> HIDE DEF new, p
  <2> QED
    BY <1>3, <2>1, <2>3, <2>4, Kinds
<1> QED
  BY <1>2, <1>3 DEF HookFiles

\* What is left after a removal holds no hook.
LEMMA UnhookedHasNone ==
  ASSUME NEW f \in HookFiles, NEW doc \in Contents[f]
  PROVE  /\ WithoutHook(f, doc) \in Contents[f]
         /\ CleanIn(f, WithoutHook(f, doc))
<1> USE DEF WithoutHook, Others, CleanIn, GroupsOf
<1>1. CASE f = "settings"
  BY <1>1, Kinds
<1>2. CASE f = "hooks"
  <2> DEFINE new == WithoutHook(f, doc)
  <2>1. /\ new.nested = IF doc.nested = None THEN None ELSE Others(doc.nested)
        /\ new.top = IF doc.top = None THEN None ELSE Others(doc.top)
    BY <1>2
  <2>2. new \in Contents[f]
    BY <1>2, Kinds
  <2>3. \A g \in OrEmpty(new.nested) \union OrEmpty(new.top) : ~g.gommage
    BY <2>1 DEF OrEmpty
  <2> QED
    BY <1>2, <2>2, <2>3
<1> QED
  BY <1>1, <1>2 DEF HookFiles

LEMMA DisabledHasItsShape ==
  \A doc : Disabled(doc) \in Contents["config"]
  BY Kinds DEF Disabled

\* An edit adds groups that are not Gommage's to what is there.
LEMMA EditAdds ==
  ASSUME NEW f \in Files, NEW old \in Contents[f], NEW doc \in Edited(f, old)
  PROVE  /\ doc \in Contents[f]
         /\ GroupsOf(f, old) \subseteq GroupsOf(f, doc)
         /\ \A g \in GroupsOf(f, doc) \ GroupsOf(f, old) : ~g.gommage
         /\ Mine(f, doc) \subseteq GroupsOf(f, doc)
         /\ Mine(f, doc) \subseteq Group
         /\ f = "config" => Mine(f, doc) = {}
<1> USE DEF GroupsOf, Edited, Mine, Others, OrEmpty
<1> DEFINE g == [mine |-> TRUE, gommage |-> FALSE, tools |-> Tools]
<1>0. g \in Group /\ ~g.gommage
  BY DEF Group
<1> HIDE DEF g
<1>1. CASE f = "settings"
  <2>1. CASE doc = [old EXCEPT !.groups = @ \union {g}]
    BY <1>0, <1>1, <2>1, Kinds
  <2>2. CASE \E a \in {None} \union SUBSET Tools : doc = [old EXCEPT !.allow = a]
    BY <1>1, <2>2, Kinds
  <2> QED
    BY <1>1, <2>1, <2>2 DEF g
<1>2. CASE f = "hooks"
  <2>1. CASE doc = [old EXCEPT !.nested = OrEmpty(@) \union {g}]
    <3> DEFINE new == OrEmpty(old.nested) \union {g}
    <3>1. OrEmpty(old.nested) \in SUBSET Group /\ new \in SUBSET Group
      BY <1>0, <1>2, Kinds
    <3>2. doc = [old EXCEPT !.nested = new]
      BY <2>1
    <3>3. doc \in Contents[f] /\ doc.nested = new /\ doc.top = old.top
      <4> HIDE DEF new
      <4> QED
        BY <1>2, <3>1, <3>2, Kinds
    <3>4. OrEmpty(doc.nested) = new
      BY <3>1, <3>3, MarksAreNoDocuments
    <3>5. new = OrEmpty(old.nested) \union {g}
      OBVIOUS
    <3>6. GroupsOf(f, doc) = GroupsOf(f, old) \union {g}
      <4>1. GroupsOf(f, doc) = OrEmpty(doc.nested) \union OrEmpty(doc.top)
        BY <1>2
      <4>2. GroupsOf(f, old) = OrEmpty(old.nested) \union OrEmpty(old.top)
        BY <1>2
      <4>3. OrEmpty(doc.top) = OrEmpty(old.top)
        BY <3>3
      <4> HIDE DEF new, GroupsOf, OrEmpty
      <4> QED
        BY <3>4, <3>5, <4>1, <4>2, <4>3
    <3>7. Mine(f, doc) = {h \in GroupsOf(f, doc) : ~h.gommage}
      BY <1>2
    <3>8. GroupsOf(f, doc) \in SUBSET Group
      BY <1>2, <3>3, Kinds
    <3> HIDE DEF new, GroupsOf, Mine
    <3> QED
      BY <1>0, <1>2, <3>3, <3>6, <3>7, <3>8
  <2>2. CASE doc = [old EXCEPT !.top = OrEmpty(@) \union {g}]
    <3> DEFINE new == OrEmpty(old.top) \union {g}
    <3>1. OrEmpty(old.top) \in SUBSET Group /\ new \in SUBSET Group
      BY <1>0, <1>2, Kinds
    <3>2. doc = [old EXCEPT !.top = new]
      BY <2>2
    <3>3. doc \in Contents[f] /\ doc.top = new /\ doc.nested = old.nested
      <4> HIDE DEF new
      <4> QED
        BY <1>2, <3>1, <3>2, Kinds
    <3>4. OrEmpty(doc.top) = new
      BY <3>1, <3>3, MarksAreNoDocuments
    <3>5. new = OrEmpty(old.top) \union {g}
      OBVIOUS
    <3>6. GroupsOf(f, doc) = GroupsOf(f, old) \union {g}
      <4>1. GroupsOf(f, doc) = OrEmpty(doc.nested) \union OrEmpty(doc.top)
        BY <1>2
      <4>2. GroupsOf(f, old) = OrEmpty(old.nested) \union OrEmpty(old.top)
        BY <1>2
      <4>3. OrEmpty(doc.nested) = OrEmpty(old.nested)
        BY <3>3
      <4> HIDE DEF new, GroupsOf, OrEmpty
      <4> QED
        BY <3>4, <3>5, <4>1, <4>2, <4>3
    <3>7. Mine(f, doc) = {h \in GroupsOf(f, doc) : ~h.gommage}
      BY <1>2
    <3>8. GroupsOf(f, doc) \in SUBSET Group
      BY <1>2, <3>3, Kinds
    <3> HIDE DEF new, GroupsOf, Mine
    <3> QED
      BY <1>0, <1>2, <3>3, <3>6, <3>7, <3>8
  <2> QED
    BY <1>2, <2>1, <2>2 DEF g
<1>3. CASE f = "config"
  BY <1>3, Kinds
<1> QED
  BY <1>1, <1>2, <1>3 DEF Files

---------------------------------------------------------------------------
(* Lists of tasks *)

Fresh == {t \in InnerTasks : t.op # "rollback"}
Plain == {t \in Fresh : t.op # "binaries"}
Removals == {t \in Fresh : t.op \in Early}

\* The binaries go after the hooks of the agents named, and only a purge comes after them.
BinariesLast(list, agents) ==
  \A j \in DOMAIN list : list[j].op = "binaries" =>
    /\ \A i \in 1..(j - 1) : list[i].op \in Early
    /\ \A i \in (j + 1)..Len(list) : list[i].op = "purge"
    /\ \A f \in HookFiles : AgentOf(f) \in agents =>
         \E i \in 1..(j - 1) : list[i].op = "remove" /\ list[i].file = f

\* A list that takes the hooks of these agents away, and no binaries.
Removes(list, agents) ==
  /\ list \in Seq(Removals)
  /\ \A f \in HookFiles : AgentOf(f) \in agents =>
       \E i \in 1..Len(list) : list[i] = On("remove", f)

LEMMA TaskSets ==
  /\ On("remove", "settings") \in Removals /\ On("remove", "hooks") \in Removals
  /\ On("enable", "config") \in Plain /\ On("disable", "config") \in Removals
  /\ \A f \in Files : On("restore", f) \in Removals
  /\ \A f \in Files : On("rollback", f) \in CopyTasks
  /\ \A op \in {"posture", "snapshot", "context", "service", "policy", "selftest", "unservice",
                  "home", "purge"} : Do(op) \in Plain /\ Do(op).op = op
  /\ Do("unservice") \in Removals /\ Do("home") \in Removals
  /\ Do("binaries") \in Fresh /\ Do("binaries").op = "binaries"
  BY DEF On, Do, Fresh, Plain, Removals, Early, InnerTasks, FileTasks, HookTasks, FlagTasks,
         CopyTasks, OtherTasks, HookFiles

LEMMA InstallList ==
  ASSUME NEW a \in Agents, NEW replace \in BOOLEAN, NEW import \in BOOLEAN
  PROVE  InstallTasks(a, replace, import) \in Seq(Plain)
<1>1. [On("hook", "settings") EXCEPT !.replace = replace, !.import = import] \in Plain
  BY DEF On, Plain, Fresh, InnerTasks, FileTasks, HookTasks, HookFiles
<1>2. [On("hook", "hooks") EXCEPT !.replace = replace] \in Plain
  BY DEF On, Plain, Fresh, InnerTasks, FileTasks, HookTasks, HookFiles
<1>3. Do("posture") \in Plain /\ On("enable", "config") \in Plain
  BY TaskSets
<1> QED
  BY <1>1, <1>2, <1>3 DEF InstallTasks

LEMMA InstallAllList ==
  ASSUME NEW agents \in SUBSET Agents, NEW first \in Agents,
         NEW replace \in BOOLEAN, NEW import \in BOOLEAN
  PROVE  InstallAll(agents, first, replace, import) \in Seq(Plain)
<1> DEFINE other == IF first = "claude" THEN "codex" ELSE "claude"
           l1 == InstallTasks(first, replace, import)
           l2 == When(other \in agents, InstallTasks(other, replace, import))
<1>1. other \in Agents
  BY DEF Agents
<1>2. l1 \in Seq(Plain) /\ l2 \in Seq(Plain)
  BY <1>1, InstallList DEF When
<1>3. InstallAll(agents, first, replace, import) = l1 \o l2
  BY DEF InstallAll
<1> HIDE DEF l1, l2
<1> QED
  BY <1>2, <1>3, ConcatProperties

\* No binaries, no condition.
LEMMA PlainLists ==
  ASSUME NEW list \in Seq(Plain), NEW agents
  PROVE  list \in Seq(Fresh) /\ BinariesLast(list, agents)
<1>1. \A j \in DOMAIN list : list[j] \in Plain
  OBVIOUS
<1>2. list \in Seq(Fresh)
  BY DEF Plain
<1> QED
  BY <1>1, <1>2 DEF Plain, BinariesLast

LEMMA RemovesJoin ==
  ASSUME NEW l1, NEW l2, NEW A1, NEW A2, Removes(l1, A1), Removes(l2, A2)
  PROVE  Removes(l1 \o l2, A1 \union A2)
<1>1. /\ l1 \o l2 \in Seq(Removals) /\ Len(l1 \o l2) = Len(l1) + Len(l2)
      /\ \A i \in 1..(Len(l1) + Len(l2)) :
           (l1 \o l2)[i] = IF i <= Len(l1) THEN l1[i] ELSE l2[i - Len(l1)]
  BY ConcatProperties DEF Removes
<1>2. Len(l1) \in Nat /\ Len(l2) \in Nat
  BY DEF Removes
<1>3. ASSUME NEW f \in HookFiles, AgentOf(f) \in A1 \union A2
      PROVE  \E i \in 1..Len(l1 \o l2) : (l1 \o l2)[i] = On("remove", f)
  <2>1. CASE AgentOf(f) \in A1
    <3>1. PICK i \in 1..Len(l1) : l1[i] = On("remove", f)
      BY <2>1 DEF Removes
    <3>2. i \in 1..Len(l1 \o l2) /\ (l1 \o l2)[i] = On("remove", f)
      BY <1>1, <1>2, <3>1
    <3> QED
      BY <3>2
  <2>2. CASE AgentOf(f) \in A2
    <3>1. PICK i \in 1..Len(l2) : l2[i] = On("remove", f)
      BY <2>2 DEF Removes
    <3>2. Len(l1) + i \in 1..Len(l1 \o l2) /\ (l1 \o l2)[Len(l1) + i] = On("remove", f)
      BY <1>1, <1>2, <3>1
    <3> QED
      BY <3>2
  <2> QED
    BY <1>3, <2>1, <2>2
<1> QED
  BY <1>1, <1>3 DEF Removes

LEMMA UninstallList ==
  ASSUME NEW a \in Agents, NEW restore \in BOOLEAN
  PROVE  Removes(UninstallTasks(a, restore), {a})
<1>1. /\ On("restore", "settings") \in Removals /\ On("restore", "hooks") \in Removals
      /\ On("restore", "config") \in Removals /\ On("remove", "settings") \in Removals
      /\ On("remove", "hooks") \in Removals /\ On("disable", "config") \in Removals
  BY TaskSets DEF Files
<1>2. AgentOf("settings") = "claude" /\ AgentOf("hooks") = "codex"
  BY DEF AgentOf
<1>3. CASE a = "claude"
  <2> DEFINE first == When(restore, <<On("restore", "settings")>>)
             rest == <<On("remove", "settings")>>
  <2>1. Removes(first, {})
    BY <1>1 DEF Removes, When
  <2>2. Removes(rest, {"claude"})
    <3>1. rest \in Seq(Removals) /\ 1 \in 1..Len(rest) /\ rest[1] = On("remove", "settings")
      BY <1>1
    <3> QED
      BY <1>2, <3>1 DEF Removes, HookFiles
  <2>3. UninstallTasks(a, restore) = first \o rest
    BY <1>3 DEF UninstallTasks
  <2> HIDE DEF first, rest
  <2>4. Removes(first \o rest, {} \union {"claude"})
    BY <2>1, <2>2, RemovesJoin
  <2> QED
    BY <1>3, <2>3, <2>4
<1>4. CASE a = "codex"
  <2> DEFINE first == When(restore, <<On("restore", "hooks"), On("restore", "config")>>)
             rest == <<On("remove", "hooks"), On("disable", "config")>>
  <2>1. Removes(first, {})
    BY <1>1 DEF Removes, When
  <2>2. Removes(rest, {"codex"})
    <3>1. rest \in Seq(Removals) /\ 1 \in 1..Len(rest) /\ rest[1] = On("remove", "hooks")
      BY <1>1
    <3> QED
      BY <1>2, <3>1 DEF Removes, HookFiles
  <2>3. UninstallTasks(a, restore) = first \o rest
    BY <1>4 DEF UninstallTasks
  <2> HIDE DEF first, rest
  <2>4. Removes(first \o rest, {} \union {"codex"})
    BY <2>1, <2>2, RemovesJoin
  <2> QED
    BY <1>4, <2>3, <2>4
<1> QED
  BY <1>3, <1>4 DEF Agents

\* Everything before the binaries.
LEMMA RemovalList ==
  ASSUME NEW targets \in SUBSET Targets, NEW restore \in BOOLEAN
  PROVE  \E list : /\ Removes(list, targets \intersect Agents)
                   /\ Removal(targets, restore) =
                        (list \o When("binaries" \in targets, <<Do("binaries")>>))
                          \o When("backups" \in targets, <<Do("purge")>>)
<1> DEFINE A == When("claude" \in targets, UninstallTasks("claude", restore))
           B == When("codex" \in targets, UninstallTasks("codex", restore))
           C == When("daemon" \in targets, <<Do("unservice")>>)
           D == When("home" \in targets, <<Do("home")>>)
           aa == IF "claude" \in targets THEN {"claude"} ELSE {}
           bb == IF "codex" \in targets THEN {"codex"} ELSE {}
<1>1. Removes(<<>>, {})
  BY DEF Removes
<1>2. Removes(A, aa) /\ Removes(B, bb)
  BY <1>1, UninstallList DEF When, Agents
<1>3. Removes(C, {}) /\ Removes(D, {})
  BY TaskSets DEF When, Removes
<1>4. targets \intersect Agents = ((aa \union bb) \union {}) \union {}
  BY DEF Agents
<1>5. Removal(targets, restore) =
        ((((A \o B) \o C) \o D) \o When("binaries" \in targets, <<Do("binaries")>>))
          \o When("backups" \in targets, <<Do("purge")>>)
  BY DEF Removal
<1> HIDE DEF A, B, C, D, aa, bb
<1>6. Removes(A \o B, aa \union bb)
  BY <1>2, RemovesJoin
<1>7. Removes((A \o B) \o C, (aa \union bb) \union {})
  BY <1>3, <1>6, RemovesJoin
<1>8. Removes(((A \o B) \o C) \o D, ((aa \union bb) \union {}) \union {})
  BY <1>3, <1>7, RemovesJoin
<1> QED
  BY <1>4, <1>5, <1>8

\* The binaries and a purge after it.
LEMMA BinariesAfter ==
  ASSUME NEW both, NEW agents, Removes(both, agents), NEW remove \in BOOLEAN, NEW purge \in BOOLEAN
  PROVE  LET list == (both \o When(remove, <<Do("binaries")>>)) \o When(purge, <<Do("purge")>>)
         IN  list \in Seq(Fresh) /\ BinariesLast(list, agents)
<1> DEFINE l3 == When(remove, <<Do("binaries")>>)
           l4 == When(purge, <<Do("purge")>>)
           most == both \o l3
           list == most \o l4
<1>1. /\ Do("binaries") \in Fresh /\ Do("purge") \in Fresh
      /\ Do("purge").op = "purge" /\ Do("binaries").op = "binaries"
  BY TaskSets DEF Plain
<1>2. /\ l3 \in Seq(Fresh) /\ Len(l3) \in {0, 1} /\ \A i \in 1..Len(l3) : l3[i].op = "binaries"
      /\ l4 \in Seq(Fresh) /\ \A i \in 1..Len(l4) : l4[i].op = "purge"
  BY <1>1 DEF When
<1> HIDE DEF l3, l4
<1>3. both \in Seq(Fresh) /\ \A i \in 1..Len(both) : both[i].op \in Early
  BY DEF Removes, Removals
<1>4. Len(both) \in Nat /\ Len(l4) \in Nat
  BY <1>2, <1>3
<1>5. /\ most \in Seq(Fresh) /\ Len(most) = Len(both) + Len(l3)
      /\ \A i \in 1..(Len(both) + Len(l3)) :
           most[i] = IF i <= Len(both) THEN both[i] ELSE l3[i - Len(both)]
  <2> HIDE DEF list
  <2> QED
    BY <1>2, <1>3, ConcatProperties
<1> HIDE DEF most
<1>6. /\ list \in Seq(Fresh) /\ Len(list) = Len(most) + Len(l4)
      /\ \A i \in 1..(Len(most) + Len(l4)) :
           list[i] = IF i <= Len(most) THEN most[i] ELSE l4[i - Len(most)]
  <2>1. most \in Seq(Fresh) /\ l4 \in Seq(Fresh)
    BY <1>2, <1>5
  <2>2. /\ most \o l4 \in Seq(Fresh) /\ Len(most \o l4) = Len(most) + Len(l4)
        /\ \A i \in 1..(Len(most) + Len(l4)) :
             (most \o l4)[i] = IF i <= Len(most) THEN most[i] ELSE l4[i - Len(most)]
    <3> HIDE DEF list
    <3> QED
      BY <2>1, ConcatProperties
  <2> QED
    BY <2>2
<1> HIDE DEF list
<1>7. DOMAIN list = 1..Len(list)
  BY <1>6
<1>8. /\ \A i \in 1..Len(both) : list[i] = both[i]
      /\ \A i \in (Len(both) + 1)..Len(most) : list[i].op = "binaries"
      /\ \A i \in (Len(most) + 1)..Len(list) : list[i].op = "purge"
  <2>1. \A i \in 1..Len(both) : list[i] = both[i]
    BY <1>2, <1>4, <1>5, <1>6
  <2>2. ASSUME NEW i \in (Len(both) + 1)..Len(most) PROVE list[i].op = "binaries"
    <3>1. i - Len(both) \in 1..Len(l3) /\ list[i] = l3[i - Len(both)]
      BY <1>2, <1>4, <1>5, <1>6
    <3> QED
      BY <1>2, <3>1
  <2>3. ASSUME NEW i \in (Len(most) + 1)..Len(list) PROVE list[i].op = "purge"
    <3>1. i - Len(most) \in 1..Len(l4) /\ list[i] = l4[i - Len(most)]
      BY <1>2, <1>4, <1>5, <1>6
    <3> QED
      BY <1>2, <3>1
  <2> QED
    BY <2>1, <2>2, <2>3
<1>9. ASSUME NEW j \in DOMAIN list, list[j].op = "binaries"
      PROVE  j = Len(both) + 1 /\ Len(most) = Len(both) + 1
  <2>1. "binaries" \notin Early
    BY DEF Early
  <2>2. ~(j \in 1..Len(both)) /\ ~(j \in (Len(most) + 1)..Len(list))
    BY <1>3, <1>8, <1>9, <2>1
  <2>3. /\ j \in 1..Len(list) /\ Len(most) = Len(both) + Len(l3)
        /\ Len(list) = Len(most) + Len(l4)
    BY <1>5, <1>6, <1>7
  <2>4. j \in Nat /\ j <= Len(most) /\ j > Len(both)
    BY <1>2, <1>4, <2>2, <2>3
  <2> QED
    BY <1>2, <1>4, <2>3, <2>4
<1>10. ASSUME NEW f \in HookFiles, AgentOf(f) \in agents
       PROVE  \E i \in 1..Len(both) : list[i].op = "remove" /\ list[i].file = f
  <2>1. PICK i \in 1..Len(both) : both[i] = On("remove", f)
    BY <1>10 DEF Removes
  <2>2. On("remove", f).op = "remove" /\ On("remove", f).file = f
    BY DEF On
  <2> QED
    BY <1>8, <2>1, <2>2
<1>11. BinariesLast(list, agents)
  <2> SUFFICES ASSUME NEW j \in DOMAIN list, list[j].op = "binaries"
               PROVE  /\ \A i \in 1..(j - 1) : list[i].op \in Early
                      /\ \A i \in (j + 1)..Len(list) : list[i].op = "purge"
                      /\ \A f \in HookFiles : AgentOf(f) \in agents =>
                           \E i \in 1..(j - 1) : list[i].op = "remove" /\ list[i].file = f
    BY DEF BinariesLast
  <2>1. j - 1 = Len(both) /\ j + 1 = Len(most) + 1
    BY <1>4, <1>9
  <2> QED
    BY <1>3, <1>8, <1>10, <2>1
<1> QED
  BY <1>6, <1>11 DEF list, most, l3, l4

\* The end task of a command.
ReportOf(kind, agents, replace, import) ==
  [kind |-> kind, agents |-> agents, replace |-> replace, import |-> import]
Closing(kind, agents, replace, import) ==
  [Do("end") EXCEPT !.file = ReportOf(kind, agents, replace, import)]

\* The command that takes Gommage out.
LEMMA Uninstallings ==
  ASSUME Uninstall
  PROVE  \E agents \in SUBSET Agents, list \in Seq(Fresh) :
            BinariesLast(list, agents) /\ Begin("uninstall", agents, FALSE, FALSE, list)
<1>1. PICK targets \in Selections, restore \in BOOLEAN :
        Begin("uninstall", targets \intersect Agents, FALSE, FALSE, Removal(targets, restore))
  BY DEF Uninstall
<1>2. targets \in SUBSET Targets
  BY SomethingIsSelected
<1>3. PICK both : /\ Removes(both, targets \intersect Agents)
                  /\ Removal(targets, restore) =
                       (both \o When("binaries" \in targets, <<Do("binaries")>>))
                         \o When("backups" \in targets, <<Do("purge")>>)
  BY <1>2, RemovalList
<1> DEFINE agents == targets \intersect Agents
           list == Removal(targets, restore)
<1>4. agents \in SUBSET Agents
  OBVIOUS
<1>5. list \in Seq(Fresh) /\ BinariesLast(list, agents)
  <2> DEFINE remove == "binaries" \in targets
             purge == "backups" \in targets
  <2>1. remove \in BOOLEAN /\ purge \in BOOLEAN /\ Removes(both, agents)
    BY <1>3
  <2>2. list = (both \o When(remove, <<Do("binaries")>>)) \o When(purge, <<Do("purge")>>)
    BY <1>3
  <2> HIDE DEF list, agents, remove, purge
  <2> QED
    BY <2>1, <2>2, BinariesAfter
<1>6. Begin("uninstall", agents, FALSE, FALSE, list)
  BY <1>1
<1> HIDE DEF agents, list
<1> QED
  BY <1>4, <1>5, <1>6

\* What a quickstart does, part by part.
LEMMA Quickstarts ==
  ASSUME Quickstart
  PROVE  \E agents \in SUBSET Agents, replace \in BOOLEAN, import \in BOOLEAN,
            daemon \in BOOLEAN, selfTest \in BOOLEAN :
           \E first \in agents :
             Begin("quickstart", agents, replace, import,
               When(selfTest, <<Do("snapshot")>>)
                 \o InstallAll(agents, first, replace, import) \o <<Do("context")>>
                 \o When(daemon, <<Do("service")>>) \o <<Do("policy")>>
                 \o When(selfTest, <<Do("selftest")>>))
<1>1. PICK agents \in SUBSET Agents, asked \in Options :
        \E first \in agents :
          Begin("quickstart", agents, asked.replace, asked.import,
            When(asked.selfTest, <<Do("snapshot")>>)
              \o InstallAll(agents, first, asked.replace, asked.import) \o <<Do("context")>>
              \o When(asked.daemon, <<Do("service")>>) \o <<Do("policy")>>
              \o When(asked.selfTest, <<Do("selftest")>>))
  BY DEF Quickstart
<1>2. /\ asked.replace \in BOOLEAN /\ asked.import \in BOOLEAN
      /\ asked.daemon \in BOOLEAN /\ asked.selfTest \in BOOLEAN
  BY OptionsAreBooleans
<1> QED
  BY <1>1, <1>2

\* What a command that begins has in front of it.
LEMMA Beginnings ==
  ASSUME Install \/ Uninstall \/ Quickstart
  PROVE  \E kind \in {"install", "uninstall", "quickstart"}, agents \in SUBSET Agents,
            replace \in BOOLEAN, import \in BOOLEAN, list \in Seq(Fresh) :
            BinariesLast(list, agents) /\ Begin(kind, agents, replace, import, list)
<1>0. \A a \in Agents : {a} \in SUBSET Agents
  OBVIOUS
<1>1. CASE Install
  <2>1. PICK a \in Agents, replace \in BOOLEAN, import \in BOOLEAN :
          Begin("install", {a}, replace, import, InstallTasks(a, replace, import))
    BY <1>1 DEF Install
  <2> DEFINE list == InstallTasks(a, replace, import)
  <2>2. list \in Seq(Fresh) /\ BinariesLast(list, {a})
    BY InstallList, PlainLists
  <2>3. Begin("install", {a}, replace, import, list)
    BY <2>1
  <2> HIDE DEF list
  <2> QED
    BY <1>0, <2>2, <2>3
<1>2. CASE Uninstall
  <2>1. PICK agents \in SUBSET Agents, list \in Seq(Fresh) :
            BinariesLast(list, agents) /\ Begin("uninstall", agents, FALSE, FALSE, list)
    BY <1>2, Uninstallings
  <2> QED
    BY <2>1
<1>3. CASE Quickstart
  <2>1. PICK agents \in SUBSET Agents, replace \in BOOLEAN, import \in BOOLEAN,
             daemon \in BOOLEAN, selfTest \in BOOLEAN :
          \E first \in agents :
            Begin("quickstart", agents, replace, import,
              When(selfTest, <<Do("snapshot")>>)
                \o InstallAll(agents, first, replace, import) \o <<Do("context")>>
                \o When(daemon, <<Do("service")>>) \o <<Do("policy")>>
                \o When(selfTest, <<Do("selftest")>>))
    BY <1>3, Quickstarts
  <2>2. PICK first \in agents :
          Begin("quickstart", agents, replace, import,
            When(selfTest, <<Do("snapshot")>>)
              \o InstallAll(agents, first, replace, import) \o <<Do("context")>>
              \o When(daemon, <<Do("service")>>) \o <<Do("policy")>>
              \o When(selfTest, <<Do("selftest")>>))
    BY <2>1
  <2> DEFINE l1 == When(selfTest, <<Do("snapshot")>>)
             l2 == InstallAll(agents, first, replace, import)
             l3 == <<Do("context")>>
             l4 == When(daemon, <<Do("service")>>)
             l5 == <<Do("policy")>>
             l6 == When(selfTest, <<Do("selftest")>>)
             list == l1 \o l2 \o l3 \o l4 \o l5 \o l6
  <2>3. /\ Do("snapshot") \in Plain /\ Do("context") \in Plain /\ Do("service") \in Plain
        /\ Do("policy") \in Plain /\ Do("selftest") \in Plain
    BY TaskSets
  <2>4. l2 \in Seq(Plain)
    BY InstallAllList
  <2>5. Begin("quickstart", agents, replace, import, list)
    BY <2>2
  <2> HIDE DEF l2
  <2>6. /\ l1 \in Seq(Plain) /\ l3 \in Seq(Plain) /\ l4 \in Seq(Plain)
        /\ l5 \in Seq(Plain) /\ l6 \in Seq(Plain)
    BY <2>3 DEF When
  <2> HIDE DEF l1, l3, l4, l5, l6
  <2>7. l1 \o l2 \in Seq(Plain)
    BY <2>4, <2>6, ConcatProperties
  <2>8. (l1 \o l2) \o l3 \in Seq(Plain)
    BY <2>6, <2>7, ConcatProperties
  <2>9. ((l1 \o l2) \o l3) \o l4 \in Seq(Plain)
    BY <2>6, <2>8, ConcatProperties
  <2>10. (((l1 \o l2) \o l3) \o l4) \o l5 \in Seq(Plain)
    BY <2>6, <2>9, ConcatProperties
  <2>11. list \in Seq(Plain)
    BY <2>6, <2>10, ConcatProperties
  <2> HIDE DEF list
  <2>12. list \in Seq(Fresh) /\ BinariesLast(list, agents)
    BY <2>11, PlainLists
  <2> QED
    BY <2>5, <2>12
<1> QED
  BY <1>1, <1>2, <1>3

\* A list of inner tasks with its report.
LEMMA Closed ==
  ASSUME NEW list \in Seq(InnerTasks), NEW end \in EndTasks
  PROVE  LET l == Append(list, end) IN
         /\ l \in Seq(Tasks) /\ l # <<>> /\ Len(l) = Len(list) + 1
         /\ Last(l) = end
         /\ \A i \in 1..(Len(l) - 1) : l[i] = list[i] /\ l[i] \in InnerTasks
<1>1. list \in Seq(Tasks) /\ end \in Tasks
  BY DEF Tasks
<1>2. Append(list, end) # <<>>
  BY <1>1, AppendProperties
<1> QED
  BY <1>1, <1>2 DEF Last

\* The rest of a list.
LEMMA Rest ==
  ASSUME ListInv, ~Idle
  PROVE  /\ Tail(tasks) \in Seq(Tasks)
         /\ Len(tasks) > 0 /\ Len(tasks) \in Nat /\ DOMAIN tasks = 1..Len(tasks)
         /\ Task = tasks[1] /\ Task \in Tasks
         /\ Len(Tail(tasks)) = Len(tasks) - 1
         /\ Tail(tasks) # <<>> <=> Len(tasks) > 1
         /\ Tail(tasks) # <<>> => Last(Tail(tasks)) = Last(tasks)
         /\ \A i \in 1..(Len(tasks) - 1) : Tail(tasks)[i] = tasks[i + 1]
<1>1. tasks \in Seq(Tasks) /\ tasks # <<>>
  BY DEF ListInv, Idle
<1>2. Len(tasks) > 0 /\ Len(tasks) \in Nat /\ DOMAIN tasks = 1..Len(tasks)
  BY <1>1
<1>3. /\ Tail(tasks) \in Seq(Tasks) /\ Len(Tail(tasks)) = Len(tasks) - 1
      /\ \A i \in 1..(Len(tasks) - 1) : Tail(tasks)[i] = tasks[i + 1]
  BY <1>1, HeadTailProperties
<1>4. Tail(tasks) # <<>> <=> Len(tasks) > 1
  <2>1. \A s \in Seq(Tasks) : s # <<>> <=> Len(s) > 0
    OBVIOUS
  <2>2. Tail(tasks) # <<>> <=> Len(Tail(tasks)) > 0
    BY <1>3, <2>1
  <2> QED
    BY <1>2, <1>3, <2>2
<1>5. Len(tasks) > 1 => Last(Tail(tasks)) = Last(tasks)
  BY <1>2, <1>3 DEF Last
<1>6. Task = tasks[1] /\ Task \in Tasks
  BY <1>1, <1>2 DEF Task
<1> QED
  BY <1>2, <1>3, <1>4, <1>5, <1>6

\* An operation belongs to one kind of task.
LEMMA TaskKinds ==
  \A t \in Tasks :
    /\ t.op \in {"hook", "remove"} => t \in HookTasks /\ t.file \in HookFiles
    /\ t.op \in {"enable", "disable"} => t \in FlagTasks /\ t.file = "config"
    /\ t.op \in {"restore", "rollback"} => t \in CopyTasks /\ t.file \in Files
    /\ t.op = "end" => t \in EndTasks /\ t.file \in Reports
    /\ t \in EndTasks => t.op = "end"
    /\ t \in FileTasks => t.file \in Files /\ t \in InnerTasks
    /\ t \in InnerTasks => t.op # "end"
    /\ t.replace \in BOOLEAN /\ t.import \in BOOLEAN
  BY DEF Tasks, InnerTasks, FileTasks, HookTasks, FlagTasks, CopyTasks, OtherTasks, EndTasks,
         HookFiles, Files

---------------------------------------------------------------------------
(* The rollback list has every file with a snapshot *)

LEMMA SavedOnce ==
  ASSUME NEW S, IsFiniteSet(S)
  PROVE  LET s == SetToSeq(S) IN
         /\ Cardinality(S) \in Nat
         /\ s \in [1..Cardinality(S) -> S]
         /\ \A x \in S : \E i \in 1..Cardinality(S) : s[i] = x
<1> DEFINE n == Cardinality(S)
           s == SetToSeq(S)
<1>1. n \in Nat /\ ExistsBijection(1..n, S)
  BY FS_CardinalityType
<1>2. \E f \in [1..n -> S] : IsInjective(f)
  BY <1>1 DEF ExistsBijection, Bijection, Injection
<1>3. s \in [1..n -> S] /\ IsInjective(s)
  BY <1>2 DEF SetToSeq
<1>4. s \in Injection(1..n, S)
  BY <1>3 DEF Injection
<1>5. Cardinality(1..n) = n
  BY <1>1, FS_Interval
<1> HIDE DEF s, n
<1>6. s \in Surjection(1..n, S)
  BY <1>4, <1>5, FS_Injection DEF n
<1>7. \A x \in S : \E i \in 1..n : s[i] = x
  BY <1>6 DEF Surjection
<1> QED
  BY <1>1, <1>3, <1>7 DEF s, n

LEMMA RollbackList ==
  ASSUME FileInv
  PROVE  /\ Rollback \in Seq(CopyTasks)
         /\ \A i \in 1..Len(Rollback) :
              Rollback[i].op = "rollback" /\ kept[Rollback[i].file] # None
         /\ \A f \in Files : kept[f] # None => \E i \in 1..Len(Rollback) : Rollback[i].file = f
<1> DEFINE saved == {f \in Files : kept[f] # None}
           n == Cardinality(saved)
           s == SetToSeq(saved)
<1>1. IsFiniteSet(Files)
  <2>1. IsFiniteSet({"settings"})
    BY FS_Singleton
  <2>2. IsFiniteSet({"settings"} \union {"hooks"})
    BY <2>1, FS_AddElement
  <2>3. IsFiniteSet(({"settings"} \union {"hooks"}) \union {"config"})
    BY <2>2, FS_AddElement
  <2>4. Files = ({"settings"} \union {"hooks"}) \union {"config"}
    BY DEF Files
  <2> QED
    BY <2>3, <2>4
<1>2. IsFiniteSet(saved)
  BY <1>1, FS_Subset
<1>3. n \in Nat /\ s \in [1..n -> saved] /\ \A x \in saved : \E i \in 1..n : s[i] = x
  BY <1>2, SavedOnce
<1>4. Rollback = [i \in 1..n |-> On("rollback", s[i])]
  BY DEF Rollback
<1>5. \A f \in saved : f \in Files /\ kept[f] # None
  OBVIOUS
<1>6. \A f \in Files : kept[f] # None => f \in saved
  OBVIOUS
<1> HIDE DEF s, n, saved
<1>7. \A i \in 1..n : On("rollback", s[i]) \in CopyTasks
  BY <1>3, <1>5, TaskSets
<1>8. Rollback \in Seq(CopyTasks) /\ Len(Rollback) = n
  BY <1>3, <1>4, <1>7
<1>9. \A i \in 1..n : Rollback[i].op = "rollback" /\ Rollback[i].file = s[i]
  BY <1>4 DEF On
<1>10. \A i \in 1..n : s[i] \in saved
  BY <1>3
<1>11. \A i \in 1..n : Rollback[i].op = "rollback" /\ kept[Rollback[i].file] # None
  BY <1>5, <1>9, <1>10
<1>12. \A f \in Files : kept[f] # None => \E i \in 1..n : Rollback[i].file = f
  <2> SUFFICES ASSUME NEW f \in Files, kept[f] # None PROVE \E i \in 1..n : Rollback[i].file = f
    OBVIOUS
  <2>1. PICK i \in 1..n : s[i] = f
    BY <1>3, <1>6
  <2> QED
    BY <1>9, <2>1
<1> QED
  BY <1>8, <1>11, <1>12

---------------------------------------------------------------------------
(* How a step moves the list *)

LEMMA ListStays ==
  ASSUME ListInv, UNCHANGED <<tasks, kept>>
  PROVE  ListInv'
  BY DEF ListInv, Idle, Kind

LEMMA ListEnds ==
  ASSUME tasks' = <<>>
  PROVE  ListInv'
<1>1. <<>> \in Seq(Tasks)
  OBVIOUS
<1> QED
  BY <1>1 DEF ListInv, Idle

LEMMA ListAdvances ==
  ASSUME ListInv, ~Idle, tasks' = Tail(tasks), kept' = kept \/ Task.op = "snapshot"
  PROVE  ListInv'
<1>1. CASE Len(tasks) = 1
  BY <1>1, Rest, ListEnds
<1>2. CASE Len(tasks) # 1
  <2>1. /\ tasks' \in Seq(Tasks) /\ Len(tasks') = Len(tasks) - 1 /\ Last(tasks') = Last(tasks)
        /\ \A i \in 1..(Len(tasks') - 1) : tasks'[i] = tasks[i + 1]
    BY <1>2, Rest
  <2>2. Kind' = Kind
    BY <2>1 DEF Kind
  <2>3. kept' = kept \/ Kind # "rollback"
    <3>1. 1 \in 1..(Len(tasks) - 1) /\ Task = tasks[1]
      BY <1>2, Rest
    <3>2. Task.op = "rollback" <=> Kind = "rollback"
      BY <3>1 DEF ListInv
    <3> QED
      BY <3>2
  <2>4. ASSUME NEW i \in 1..(Len(tasks') - 1)
        PROVE  /\ tasks'[i] \in InnerTasks
               /\ tasks'[i].op = "rollback" <=> Kind' = "rollback"
               /\ tasks'[i].op = "rollback" => kept'[tasks'[i].file] # None
    <3>1. i + 1 \in 1..(Len(tasks) - 1) /\ tasks'[i] = tasks[i + 1]
      BY <2>1, Rest
    <3> QED
      BY <2>2, <2>3, <3>1 DEF ListInv
  <2>5. Last(tasks') \in EndTasks
    BY <2>1 DEF ListInv
  <2> QED
    BY <2>1, <2>4, <2>5 DEF ListInv
<1> QED
  BY <1>1, <1>2

\* The end task keeps its place until it ends the command.
LEMMA EndIsLast ==
  ASSUME ListInv, ~Idle
  PROVE  /\ Task.op = "end" <=> Len(tasks) = 1
         /\ Task.op # "end" => Task \in InnerTasks /\ Len(tasks) > 1
         /\ Last(tasks) \in EndTasks /\ Last(tasks).file \in Reports
         /\ Task.op = "rollback" => Kind = "rollback" /\ kept[Task.file] # None
         /\ Task.op \notin {"rollback", "end"} => Kind # "rollback"
<1>1. Last(tasks) \in EndTasks
  BY DEF ListInv
<1>2. CASE Len(tasks) = 1
  BY <1>1, <1>2, Rest, TaskKinds DEF Last
<1>3. CASE Len(tasks) # 1
  <2>1. Len(tasks) > 1 /\ 1 \in 1..(Len(tasks) - 1)
    BY <1>3, Rest
  <2>2. Task \in InnerTasks
    BY <2>1, Rest DEF ListInv
  <2>3. Task.op # "end" /\ Last(tasks).file \in Reports
    BY <1>1, <2>2, TaskKinds DEF Tasks
  <2>4. /\ Task.op = "rollback" <=> Kind = "rollback"
        /\ Task.op = "rollback" => kept[Task.file] # None
    BY <2>1, Rest DEF ListInv
  <2> QED
    BY <1>1, <1>3, <2>1, <2>2, <2>3, <2>4
<1> QED
  BY <1>2, <1>3

\* A command begins with no rollback.
LEMMA ListBegins ==
  ASSUME NEW kind \in {"install", "uninstall", "quickstart"}, NEW agents \in SUBSET Agents,
         NEW replace \in BOOLEAN, NEW import \in BOOLEAN, NEW list \in Seq(Fresh),
         Begin(kind, agents, replace, import, list)
  PROVE  ListInv' /\ ~Idle' /\ Kind' = kind
<1> DEFINE end == Closing(kind, agents, replace, import)
<1>1. end \in EndTasks /\ end.file.kind = kind
  BY DEF Closing, ReportOf, Do, On, EndTasks, Reports
<1>2. tasks' = Append(list, end)
  BY DEF Begin, Closing, ReportOf
<1>3. list \in Seq(InnerTasks) /\ \A i \in 1..Len(list) : list[i].op # "rollback"
  BY DEF Fresh
<1> HIDE DEF end
<1>4. /\ tasks' \in Seq(Tasks) /\ tasks' # <<>> /\ Last(tasks') = end
      /\ Len(tasks') = Len(list) + 1
      /\ \A i \in 1..(Len(tasks') - 1) : tasks'[i] = list[i] /\ tasks'[i] \in InnerTasks
  BY <1>1, <1>2, <1>3, Closed
<1>5. Kind' = kind
  BY <1>1, <1>4 DEF Kind
<1>6. \A i \in 1..(Len(tasks') - 1) : tasks'[i].op # "rollback"
  BY <1>3, <1>4
<1> QED
  BY <1>1, <1>4, <1>5, <1>6 DEF ListInv, Idle

\* A failed self test puts the rollbacks in the place of what is left.
LEMMA ListRollsBack ==
  ASSUME FileInv, ListInv, ~Idle, kept' = kept,
         tasks' = Append(Rollback, [Last(tasks) EXCEPT !.file.kind = "rollback"])
  PROVE  /\ ListInv' /\ Kind' = "rollback"
         /\ \A f \in Files : kept[f] # None => \E i \in 1..(Len(tasks') - 1) : tasks'[i].file = f
<1> DEFINE end == [Last(tasks) EXCEPT !.file.kind = "rollback"]
<1>1. end \in EndTasks /\ end.file.kind = "rollback"
  <2>1. Last(tasks) \in EndTasks /\ Last(tasks).file \in Reports
    BY EndIsLast
  <2> DEFINE report == [Last(tasks).file EXCEPT !.kind = "rollback"]
  <2>2. report \in Reports /\ report.kind = "rollback"
    BY <2>1 DEF Reports
  <2>3. end = [Last(tasks) EXCEPT !.file = report]
    OBVIOUS
  <2> HIDE DEF end, report
  <2> QED
    BY <2>1, <2>2, <2>3 DEF EndTasks
<1> HIDE DEF end
<1>2. Rollback \in Seq(InnerTasks)
  BY RollbackList DEF InnerTasks, FileTasks
<1>3. tasks' = Append(Rollback, end)
  BY DEF end
<1>4. /\ tasks' \in Seq(Tasks) /\ tasks' # <<>> /\ Last(tasks') = end
      /\ Len(tasks') = Len(Rollback) + 1
      /\ \A i \in 1..(Len(tasks') - 1) : tasks'[i] = Rollback[i] /\ tasks'[i] \in InnerTasks
  BY <1>1, <1>2, <1>3, Closed
<1>5. Kind' = "rollback"
  BY <1>1, <1>4 DEF Kind
<1>6. Len(tasks') - 1 = Len(Rollback)
  BY <1>2, <1>4
<1>7. \A i \in 1..(Len(tasks') - 1) :
        tasks'[i].op = "rollback" /\ kept'[tasks'[i].file] # None
  BY <1>4, <1>6, RollbackList
<1>8. \A f \in Files : kept[f] # None => \E i \in 1..(Len(tasks') - 1) : tasks'[i].file = f
  BY <1>4, <1>6, RollbackList
<1> QED
  BY <1>1, <1>4, <1>5, <1>7, <1>8 DEF ListInv

---------------------------------------------------------------------------
(* Every step keeps the shape *)

LEMMA FileStays ==
  ASSUME FileInv, UNCHANGED <<file, backups, kept, user>>,
         flow' \in [agents : SUBSET Agents, restored : SUBSET Agents, removed : BOOLEAN]
  PROVE  FileInv'
  BY DEF FileInv

LEMMA FileChanges ==
  ASSUME FileInv, NEW f \in Files, NEW x \in StatesOf(f), file' = [file EXCEPT ![f] = x],
         UNCHANGED <<backups, kept, user, flow>>
  PROVE  FileInv'
<1>1. x \in States
  BY Kinds DEF StatesOf, States
<1> QED
  BY <1>1 DEF FileInv

LEMMA StageReads == ASSUME stage' = "read" PROVE StageInv'
  BY DEF StageInv

\* The step writes further, or the list moves on.
LEMMA StageGoesOn ==
  ASSUME StageInv, UNCHANGED <<tasks, draft>>, Task \in FileTasks, draft \in StatesOf(Task.file),
         stage' \in {"truncate", "write"}
  PROVE  StageInv'
  BY DEF StageInv, Task, Idle

LEMMA DraftsAreFiles ==
  ASSUME FileInv, ListInv, StageInv, ~Idle
  PROVE  /\ stage # "read" =>
              Task \in FileTasks /\ Task.file \in Files /\ draft \in StatesOf(Task.file)
         /\ Task.op \in {"hook", "remove"} => Task \in HookTasks /\ Task.file \in HookFiles
         /\ Task.op \in {"enable", "disable"} => Task \in FlagTasks /\ Task.file = "config"
         /\ Task.op \in {"restore", "rollback"} => Task \in CopyTasks /\ Task.file \in Files
  BY Rest, TaskKinds DEF StageInv

\* Tasks that change no file.
Aside ==
  \/ Posture \/ WriteContext \/ LoadPolicy
  \/ InstallService \/ RemoveService \/ PurgeHome \/ RemoveBinaries

LEMMA AsideMoves ==
  ASSUME Aside
  PROVE  /\ ~Idle /\ Task.op \in {"posture", "context", "policy", "service", "unservice", "home",
                                 "binaries"}
         /\ tasks' \in {Tail(tasks), <<>>} /\ stage' = "read"
         /\ UNCHANGED <<file, backups, draft, kept, flow, last, user, raced, excused>>
         /\ installed' = installed \/ (Task.op = "binaries" /\ tasks' = Tail(tasks))
  BY DEF Aside, Posture, WriteContext, LoadPolicy, InstallService, RemoveService, PurgeHome,
         RemoveBinaries, Doing, Finish, Fail, host

LEMMA InitShape == Init => Shape
<1> SUFFICES ASSUME Init PROVE FileInv /\ ListInv /\ StageInv
  BY DEF Shape
<1>1. /\ file \in [Files -> Documents \union {Absent}]
      /\ \A f \in Files : file[f] \in Contents[f] \union {Absent}
  BY HomesAreTyped DEF Init
<1>3. user \in [Files -> SUBSET Group]
  <2>1. ASSUME NEW f \in Files, file[f] # Absent PROVE GroupsOf(f, file[f]) \in SUBSET Group
    BY <1>1, <2>1, GroupsAreGroups
  <2> QED
    BY <2>1 DEF Init
<1>6. FileInv
  <2>1. \A f \in Files : file[f] \in StatesOf(f)
    BY <1>1 DEF StatesOf
  <2>2. file \in [Files -> States]
    BY <1>1 DEF States
  <2>3. /\ backups = [f \in Files |-> <<>>] /\ kept = [f \in Files |-> None]
        /\ flow = [agents |-> {}, restored |-> {}, removed |-> FALSE]
    BY DEF Init, FlowOf
  <2>4. <<>> \in Seq(States) /\ DOMAIN <<>> = {}
    OBVIOUS
  <2>5. backups \in [Files -> Seq(States)] /\ \A f \in Files : backups[f] = <<>>
    BY <2>3, <2>4
  <2>6. \A f \in Files : \A i \in DOMAIN backups[f] : backups[f][i] \in StatesOf(f)
    BY <2>4, <2>5
  <2>7. /\ kept \in [Files -> States \union {None}]
        /\ \A f \in Files : kept[f] \in StatesOf(f) \union {None}
        /\ flow \in [agents : SUBSET Agents, restored : SUBSET Agents, removed : BOOLEAN]
    BY <2>3
  <2> QED
    BY <1>3, <2>1, <2>2, <2>5, <2>6, <2>7 DEF FileInv
<1>4. ListInv
  BY DEF Init, ListInv, Idle
<1>5. StageInv
  BY DEF Init, StageInv, Idle
<1> QED
  BY <1>4, <1>5, <1>6

\* A list that moves on, with the files as they are.
LEMMA Continues ==
  ASSUME Shape, ~Idle, tasks' \in {Tail(tasks), <<>>}, stage' = "read",
         UNCHANGED <<file, backups, kept, user>>,
         flow' \in [agents : SUBSET Agents, restored : SUBSET Agents, removed : BOOLEAN]
  PROVE  Shape'
  BY FileStays, ListAdvances, ListEnds, StageReads DEF Shape

\* A command begins.
LEMMA BeginShape ==
  ASSUME Shape, Install \/ Uninstall \/ Quickstart
  PROVE  Shape'
<1>1. PICK kind \in {"install", "uninstall", "quickstart"}, agents \in SUBSET Agents,
           replace \in BOOLEAN, import \in BOOLEAN, list \in Seq(Fresh) :
             Begin(kind, agents, replace, import, list)
  BY Beginnings
<1>2. ListInv'
  BY <1>1, ListBegins
<1>3. StageInv'
  BY <1>1, StageReads DEF Begin
<1>4. FileInv'
  BY <1>1 DEF Begin, Shape, FileInv, FlowOf
<1> QED
  BY <1>2, <1>3, <1>4 DEF Shape

\* A read that decides what is written, or that nothing is.
LEMMA ReadShape ==
  ASSUME Shape, ReadToInstall \/ ReadToRemove \/ ReadToDisable \/ ReadToRestore
  PROVE  Shape'
<1> USE DEF Shape
<1>0. ~Idle /\ UNCHANGED <<file, backups, kept, user>> /\ FileInv
  BY DEF ReadToInstall, ReadToRemove, ReadToDisable, ReadToRestore, Doing
<1>1. flow' \in [agents : SUBSET Agents, restored : SUBSET Agents, removed : BOOLEAN]
  <2>1. flow \in [agents : SUBSET Agents, restored : SUBSET Agents, removed : BOOLEAN] /\ \A f : AgentOf(f) \in Agents
    BY DEF FileInv, AgentOf, Agents
  <2>2. \/ flow' = flow
        \/ \E b \in BOOLEAN : flow' = [flow EXCEPT !.removed = b]
        \/ \E f : flow' = [flow EXCEPT !.restored = @ \union {AgentOf(f)}]
    BY DEF ReadToInstall, ReadToRemove, ReadToDisable, ReadToRestore
  <2> QED
    BY <2>1, <2>2
<1>2. FileInv'
  BY <1>0, <1>1, FileStays
<1>3. CASE tasks' \in {Tail(tasks), <<>>} /\ stage' = "read"
  BY <1>0, <1>1, <1>3, Continues
<1>4. ASSUME UNCHANGED tasks, stage' \in {"backup", "truncate"}, Task \in FileTasks,
             draft' \in StatesOf(Task.file), stage' = "backup" => Task \in HookTasks \union FlagTasks
      PROVE  Shape'
  <2>1. ListInv'
    BY <1>0, <1>4, ListStays
  <2>2. StageInv'
    BY <1>0, <1>4 DEF StageInv, Task, Idle
  <2> QED
    BY <1>2, <2>1, <2>2
<1>5. ASSUME NEW f \in Files, Readable(f) PROVE Document(f) \in Contents[f]
  BY <1>0, <1>5, DocumentHasItsShape
<1>6. CASE ReadToInstall
  <2>1. CASE tasks' \in {Tail(tasks), <<>>} /\ stage' = "read"
    BY <2>1, <1>3
  <2>2. CASE ~(tasks' \in {Tail(tasks), <<>>} /\ stage' = "read")
    <3>1. /\ Readable(Task.file) /\ UNCHANGED tasks /\ stage' = "backup"
          /\ Task.op \in {"hook", "enable"}
          /\ draft' = IF Task.file = "config" THEN [Document(Task.file) EXCEPT !.hooks = TRUE]
                      ELSE WithHook(Task.file, Document(Task.file), Task.replace)
      BY <1>6, <2>2 DEF ReadToInstall, Doing, Finish, Fail
    <3>2. CASE Task.op = "hook"
      <4>1. Task \in HookTasks /\ Task.file \in HookFiles /\ Task.replace \in BOOLEAN
        BY <1>0, <3>2, DraftsAreFiles, Rest, TaskKinds
      <4>2. Task.file # "config" /\ Task.file \in Files
        BY <4>1 DEF HookFiles, Files
      <4>3. draft' \in Contents[Task.file]
        BY <1>5, <3>1, <4>1, <4>2, HookedHasItsShape
      <4> QED
        BY <1>4, <3>1, <4>1, <4>3 DEF StatesOf, FileTasks
    <3>3. CASE Task.op = "enable"
      <4>1. Task \in FlagTasks /\ Task.file = "config" /\ "config" \in Files
        BY <1>0, <3>3, DraftsAreFiles DEF Files
      <4>2. Document("config") \in Contents["config"]
        BY <1>5, <3>1, <4>1
      <4>3. draft' \in Contents["config"]
        <5> DEFINE doc == Document("config")
        <5>1. draft' = [doc EXCEPT !.hooks = TRUE]
          BY <3>1, <4>1
        <5> HIDE DEF doc
        <5>2. doc \in [hooks : {None} \union BOOLEAN, legacy : {None} \union BOOLEAN]
          BY <4>2, Kinds DEF doc
        <5>3. draft' \in [hooks : {None} \union BOOLEAN, legacy : {None} \union BOOLEAN]
          BY <5>1, <5>2
        <5> QED
          BY <5>3, Kinds
      <4> QED
        BY <1>4, <3>1, <4>1, <4>3 DEF StatesOf, FileTasks
    <3> QED
      BY <3>1, <3>2, <3>3
  <2> QED
    BY <2>1, <2>2
<1>7. CASE ReadToRemove
  <2>1. CASE tasks' \in {Tail(tasks), <<>>} /\ stage' = "read"
    BY <2>1, <1>3
  <2>2. CASE ~(tasks' \in {Tail(tasks), <<>>} /\ stage' = "read")
    <3>1. /\ Readable(Task.file) /\ UNCHANGED tasks /\ stage' = "backup" /\ Task.op = "remove"
          /\ draft' = WithoutHook(Task.file, Document(Task.file))
      BY <1>7, <2>2 DEF ReadToRemove, Doing, Finish, Fail
    <3>2. Task \in HookTasks /\ Task.file \in HookFiles /\ Task.file \in Files
      BY <1>0, <3>1, DraftsAreFiles DEF HookFiles, Files
    <3>3. draft' \in Contents[Task.file]
      BY <1>5, <3>1, <3>2, UnhookedHasNone
    <3> QED
      BY <1>4, <3>1, <3>2, <3>3 DEF StatesOf, FileTasks
  <2> QED
    BY <2>1, <2>2
<1>8. CASE ReadToDisable
  <2>1. CASE tasks' \in {Tail(tasks), <<>>} /\ stage' = "read"
    BY <2>1, <1>3
  <2>2. CASE ~(tasks' \in {Tail(tasks), <<>>} /\ stage' = "read")
    <3>1. /\ UNCHANGED tasks /\ stage' = "backup" /\ Task.op = "disable"
          /\ draft' = Disabled(Document("config"))
      BY <1>8, <2>2 DEF ReadToDisable, Doing, Finish, Fail
    <3>2. Task \in FlagTasks /\ Task.file = "config"
      BY <1>0, <3>1, DraftsAreFiles
    <3>3. draft' \in Contents["config"]
      BY <3>1, DisabledHasItsShape
    <3> QED
      BY <1>4, <3>1, <3>2, <3>3 DEF StatesOf, FileTasks
  <2> QED
    BY <2>1, <2>2
<1>9. CASE ReadToRestore
  <2>1. CASE tasks' \in {Tail(tasks), <<>>} /\ stage' = "read"
    BY <2>1, <1>3
  <2>2. CASE ~(tasks' \in {Tail(tasks), <<>>} /\ stage' = "read")
    <3>1. /\ UNCHANGED tasks /\ stage' = "truncate" /\ Task.op = "restore"
          /\ backups[Task.file] # <<>> /\ draft' = Last(backups[Task.file])
      BY <1>9, <2>2 DEF ReadToRestore, Doing, Finish, Fail
    <3>2. Task \in CopyTasks /\ Task.file \in Files
      BY <1>0, <3>1, DraftsAreFiles
    <3>3. backups[Task.file] \in Seq(States)
      BY <3>2 DEF FileInv
    <3>4. Len(backups[Task.file]) \in DOMAIN backups[Task.file]
      BY <3>1, <3>3
    <3>5. draft' \in StatesOf(Task.file)
      BY <3>1, <3>2, <3>4 DEF FileInv, Last
    <3> QED
      BY <1>4, <3>1, <3>2, <3>5 DEF FileTasks
  <2> QED
    BY <2>1, <2>2
<1> QED
  BY <1>6, <1>7, <1>8, <1>9

\* What the writing of a file does.
LEMMA WriteShape ==
  ASSUME Shape, Backup \/ Truncate \/ Write
  PROVE  Shape'
<1>0. FileInv /\ ListInv /\ StageInv /\ ~Idle /\ stage # "read"
  BY DEF Shape, Backup, Truncate, Write
<1>1. Task \in FileTasks /\ Task.file \in Files /\ draft \in StatesOf(Task.file)
  BY <1>0, DraftsAreFiles
<1>2. Blank \in StatesOf(Task.file)
  BY DEF StatesOf
<1>3. CASE Truncate
  <2>1. FileInv'
    BY <1>0, <1>1, <1>2, <1>3, FileChanges DEF Truncate
  <2>2. ListInv'
    BY <1>0, <1>3, ListStays DEF Truncate
  <2>3. StageInv'
    BY <1>0, <1>1, <1>3, StageGoesOn DEF Truncate
  <2> QED
    BY <2>1, <2>2, <2>3 DEF Shape
<1>4. CASE Write
  <2>1. FileInv'
    BY <1>0, <1>1, <1>4, FileChanges DEF Write
  <2>2. ListInv'
    BY <1>0, <1>4, ListAdvances DEF Write, Finish
  <2>3. StageInv'
    BY <1>4, StageReads DEF Write, Finish
  <2> QED
    BY <2>1, <2>2, <2>3 DEF Shape
<1>5. CASE Backup
  <2>1. CASE file[Task.file] = draft
    <3>1. /\ tasks' = Tail(tasks) /\ stage' = "read" /\ UNCHANGED <<file, backups, kept, user, flow>>
      BY <1>5, <2>1 DEF Backup, Finish
    <3>2. flow' \in [agents : SUBSET Agents, restored : SUBSET Agents, removed : BOOLEAN]
      BY <1>0, <3>1 DEF FileInv
    <3> QED
      BY <1>0, <3>1, <3>2, Continues
  <2>2. CASE file[Task.file] # draft
    <3>1. /\ UNCHANGED <<file, tasks, draft, kept, flow, user>> /\ stage' = "truncate"
          /\ backups' = IF file[Task.file] = Absent THEN backups
                        ELSE [backups EXCEPT ![Task.file] = Append(@, file[Task.file])]
      BY <1>5, <2>2 DEF Backup
    <3>2. ListInv'
      BY <1>0, <3>1, ListStays
    <3>3. StageInv'
      BY <1>0, <1>1, <3>1, StageGoesOn
    <3>4. CASE file[Task.file] = Absent
      BY <1>0, <3>1, <3>2, <3>3, <3>4 DEF Shape, FileInv
    <3>5. CASE file[Task.file] # Absent
      <4> DEFINE f == Task.file
                 old == backups[f]
                 new == Append(old, file[f])
      <4>1. old \in Seq(States) /\ file[f] \in States /\ file[f] \in StatesOf(f)
        BY <1>0, <1>1 DEF FileInv
      <4>2. /\ new \in Seq(States)
            /\ \A i \in DOMAIN new : (i \in DOMAIN old /\ new[i] = old[i]) \/ new[i] = file[f]
        BY <4>1
      <4>3. backups' = [backups EXCEPT ![f] = new]
        BY <3>1, <3>5
      <4> HIDE DEF new
      <4>4. backups' \in [Files -> Seq(States)]
        BY <1>0, <4>2, <4>3 DEF FileInv
      <4>5. ASSUME NEW g \in Files, NEW i \in DOMAIN backups'[g]
            PROVE  backups'[g][i] \in StatesOf(g)
        <5>1. CASE g = f
          <6>1. backups'[f] = new
            BY <1>0, <1>1, <4>3 DEF FileInv
          <6>2. \A k \in DOMAIN old : old[k] \in StatesOf(f)
            BY <1>0, <1>1 DEF FileInv
          <6> QED
            BY <4>1, <4>2, <4>5, <5>1, <6>1, <6>2
        <5>2. CASE g # f
          BY <1>0, <1>1, <4>3, <4>5, <5>2 DEF FileInv
        <5> QED
          BY <5>1, <5>2
      <4>6. FileInv'
        BY <1>0, <3>1, <4>4, <4>5 DEF FileInv
      <4> QED
        BY <3>2, <3>3, <4>6 DEF Shape
    <3> QED
      BY <3>4, <3>5
  <2> QED
    BY <2>1, <2>2
<1> QED
  BY <1>3, <1>4, <1>5

\* Snapshots, self tests and rollbacks.
LEMMA RollShape ==
  ASSUME Shape, TakeSnapshot \/ SelfTest \/ ReadToRollBack
  PROVE  Shape'
<1>0. FileInv /\ ListInv /\ StageInv /\ ~Idle
  BY DEF Shape, TakeSnapshot, SelfTest, ReadToRollBack, Doing
<1>1. CASE TakeSnapshot
  <2>1. ListInv' /\ StageInv'
    BY <1>0, <1>1, ListAdvances, StageReads DEF TakeSnapshot, Doing, Finish
  <2>2. kept' \in [Files -> States \union {None}] /\ \A f \in Files : kept'[f] \in {file[f], None}
    BY <1>0, <1>1 DEF TakeSnapshot, FileInv
  <2>3. FileInv'
    BY <1>0, <1>1, <2>2 DEF TakeSnapshot, FileInv
  <2> QED
    BY <2>1, <2>3 DEF Shape
<1>2. CASE SelfTest
  <2>1. stage' = "read" /\ UNCHANGED <<file, backups, draft, kept, flow, user>>
    BY <1>2 DEF SelfTest, Finish, Fail
  <2>2. FileInv'
    BY <1>0, <2>1 DEF FileInv
  <2>3. \/ tasks' \in {Tail(tasks), <<>>}
        \/ tasks' = Append(Rollback, [Last(tasks) EXCEPT !.file.kind = "rollback"])
    BY <1>2 DEF SelfTest, Finish, Fail
  <2>4. ListInv'
    BY <1>0, <2>1, <2>3, ListAdvances, ListEnds, ListRollsBack
  <2> QED
    BY <2>1, <2>2, <2>4, StageReads DEF Shape
<1>3. CASE ReadToRollBack
  <2>0. /\ Task.op = "rollback" /\ Task \in CopyTasks /\ Task.file \in Files
        /\ kept[Task.file] # None /\ UNCHANGED <<backups, kept, flow, user>>
    BY <1>0, <1>3, DraftsAreFiles, EndIsLast DEF ReadToRollBack, Doing
  <2>1. CASE kept[Task.file] = Absent
    <3>1. /\ file' = [file EXCEPT ![Task.file] = Absent] /\ tasks' = Tail(tasks) /\ stage' = "read"
      BY <1>3, <2>1 DEF ReadToRollBack, Finish
    <3>2. Absent \in StatesOf(Task.file)
      BY DEF StatesOf
    <3>3. FileInv'
      BY <1>0, <2>0, <3>1, <3>2, FileChanges
    <3> QED
      BY <1>0, <2>0, <3>1, <3>3, ListAdvances, StageReads DEF Shape
  <2>2. CASE kept[Task.file] # Absent
    <3>1. draft' = kept[Task.file] /\ stage' = "truncate" /\ UNCHANGED <<file, tasks>>
      BY <1>3, <2>2 DEF ReadToRollBack
    <3>2. draft' \in StatesOf(Task.file)
      BY <1>0, <2>0, <3>1 DEF FileInv
    <3>3. StageInv'
      BY <1>0, <2>0, <3>1, <3>2 DEF StageInv, Task, Idle, FileTasks
    <3>4. FileInv'
      BY <1>0, <2>0, <3>1 DEF FileInv
    <3> QED
      BY <1>0, <2>0, <3>1, <3>3, <3>4, ListStays DEF Shape
  <2> QED
    BY <2>1, <2>2
<1> QED
  BY <1>1, <1>2, <1>3

LEMMA NextShape == Shape /\ [Next]_vars => Shape'
<1> SUFFICES ASSUME Shape, [Next]_vars PROVE Shape'
  OBVIOUS
<1>0. FileInv /\ ListInv /\ StageInv
  BY DEF Shape
<1>1. CASE Aside
  <2>1. flow' \in [agents : SUBSET Agents, restored : SUBSET Agents, removed : BOOLEAN]
    BY <1>0, <1>1, AsideMoves DEF FileInv
  <2> QED
    BY <1>1, <2>1, AsideMoves, Continues
<1>2. CASE PurgeBackups
  <2>1. FileInv'
    <3>1. <<>> \in Seq(States) /\ DOMAIN <<>> = {}
      OBVIOUS
    <3>2. backups' \in [Files -> Seq(States)] /\ \A f \in Files : DOMAIN backups'[f] = {}
      BY <1>2, <3>1 DEF PurgeBackups
    <3> QED
      BY <1>0, <1>2, <3>2 DEF PurgeBackups, FileInv
  <2> QED
    BY <1>0, <1>2, <2>1, ListAdvances, StageReads DEF PurgeBackups, Finish, Doing, Shape
<1>3. CASE End
  <2>1. ListInv'
    BY <1>3, ListEnds DEF End
  <2>2. FileInv'
    BY <1>0, <1>3 DEF End, FileInv
  <2>3. StageInv'
    BY <1>0, <1>3 DEF End, StageInv, Idle
  <2> QED
    BY <2>1, <2>2, <2>3 DEF Shape
<1>4. CASE Abort
  <2>1. ListInv' /\ StageInv'
    BY <1>4, ListEnds, StageReads DEF Abort, Fail
  <2>2. CASE UNCHANGED file
    BY <1>0, <1>4, <2>1, <2>2 DEF Abort, FileInv, Shape
  <2>3. CASE stage = "write" /\ file' = [file EXCEPT ![Task.file] = Broken]
    <3>1. Task.file \in Files /\ Broken \in StatesOf(Task.file)
      BY <1>0, <1>4, <2>3, DraftsAreFiles DEF Abort, StatesOf
    <3>2. FileInv'
      BY <1>0, <1>4, <2>3, <3>1, FileChanges DEF Abort
    <3> QED
      BY <2>1, <3>2 DEF Shape
  <2> QED
    BY <1>4, <2>2, <2>3 DEF Abort
<1>5. CASE Edit
  <2>1. PICK f \in Files : Readable(f) /\ \E doc \in Edited(f, Document(f)) :
             file' = [file EXCEPT ![f] = doc] /\ user' = [user EXCEPT ![f] = @ \union Mine(f, doc)]
    BY <1>5 DEF Edit
  <2>2. PICK doc \in Edited(f, Document(f)) :
             file' = [file EXCEPT ![f] = doc] /\ user' = [user EXCEPT ![f] = @ \union Mine(f, doc)]
    BY <2>1
  <2>3. Document(f) \in Contents[f]
    BY <1>0, <2>1, DocumentHasItsShape
  <2>4. doc \in Contents[f] /\ Mine(f, doc) \subseteq Group
    BY <2>3, EditAdds
  <2>5. doc \in States /\ doc \in StatesOf(f)
    BY <2>4, Kinds DEF States, StatesOf
  <2>6. UNCHANGED <<backups, tasks, stage, draft, kept, flow>>
    BY <1>5 DEF Edit
  <2>7. FileInv'
    BY <1>0, <2>2, <2>4, <2>5, <2>6 DEF FileInv
  <2>8. ListInv' /\ StageInv'
    BY <1>0, <2>6, ListStays DEF StageInv, Idle, Task
  <2> QED
    BY <2>7, <2>8 DEF Shape
<1>6. CASE UNCHANGED vars
  BY <1>0, <1>6, ListStays DEF vars, work, Shape, FileInv, StageInv, Idle, Task
<1> QED
  BY <1>1, <1>2, <1>3, <1>4, <1>5, <1>6, BeginShape, ReadShape, WriteShape, RollShape
     DEF Next, Steps, Aside

---------------------------------------------------------------------------
(* The user's groups are in the file or in a backup *)

LEMMA InitUser == Init => UserInv
<1> SUFFICES ASSUME Init PROVE UserInv
  OBVIOUS
<1>1. ASSUME NEW f \in HookFiles, NEW g \in user[f] PROVE InFile(f, g)
  <2>1. f \in Files
    BY DEF HookFiles, Files
  <2>2. user[f] = IF file[f] = Absent THEN {} ELSE GroupsOf(f, file[f])
    BY <2>1 DEF Init
  <2>3. file[f] # Absent /\ g \in GroupsOf(f, file[f])
    BY <1>1, <2>2
  <2>4. file[f] \in Contents[f]
    BY <2>1, <2>3, HomesAreTyped DEF Init
  <2> QED
    BY <2>1, <2>3, <2>4, DocumentsAreUnmarked DEF InFile, IsDocument
<1>2. tasks = <<>> /\ DOMAIN tasks = {}
  BY DEF Init
<1> QED
  BY <1>1, <1>2 DEF UserInv, Idle

LEMMA NoRollbacksLeft ==
  ASSUME ListInv, ~Idle, tasks' \in {tasks, Tail(tasks), <<>>},
         \A i \in DOMAIN tasks : tasks[i].op # "rollback"
  PROVE  \A i \in DOMAIN tasks' : tasks'[i].op # "rollback"
<1>1. CASE tasks' = Tail(tasks)
  <2>1. /\ DOMAIN tasks' = 1..Len(tasks') /\ Len(tasks') = Len(tasks) - 1
        /\ \A i \in 1..(Len(tasks) - 1) : tasks'[i] = tasks[i + 1]
        /\ DOMAIN tasks = 1..Len(tasks) /\ Len(tasks) \in Nat
    BY <1>1, Rest
  <2>2. ASSUME NEW i \in DOMAIN tasks' PROVE tasks'[i].op # "rollback"
    <3>1. i + 1 \in DOMAIN tasks /\ tasks'[i] = tasks[i + 1]
      BY <2>1
    <3> QED
      BY <3>1
  <2> QED
    BY <2>2
<1>2. CASE tasks' = <<>>
  BY <1>2
<1>3. CASE tasks' = tasks
  BY <1>3
<1> QED
  BY <1>1, <1>2, <1>3

\* What excuses a loss is not forgotten.
LEMMA HistoryGrows == [Next]_vars => (raced => raced') /\ (excused => excused')
<1> SUFFICES ASSUME [Next]_vars PROVE (raced => raced') /\ (excused => excused')
  OBVIOUS
<1>1. CASE Install \/ Uninstall \/ Quickstart
  <2>1. PICK kind \in {"install", "uninstall", "quickstart"}, agents \in SUBSET Agents,
             replace \in BOOLEAN, import \in BOOLEAN, list \in Seq(Fresh) :
               Begin(kind, agents, replace, import, list)
    BY <1>1, Beginnings
  <2>2. raced' = raced /\ excused' = excused
    BY <2>1 DEF Begin
  <2> QED
    BY <2>2
<1>2. CASE Aside
  BY <1>2, AsideMoves
<1>3. CASE ReadToInstall \/ ReadToRemove \/ ReadToDisable \/ ReadToRestore
  BY <1>3 DEF ReadToInstall, ReadToRemove, ReadToDisable, ReadToRestore
<1>4. CASE Backup \/ Truncate \/ Write \/ TakeSnapshot \/ SelfTest \/ ReadToRollBack
  BY <1>4 DEF Backup, Truncate, Write, TakeSnapshot, SelfTest, ReadToRollBack
<1>5. CASE PurgeBackups \/ End \/ Abort \/ UNCHANGED vars
  BY <1>5 DEF PurgeBackups, End, Abort, vars
<1>6. CASE Edit
  <2>1. raced' = (raced \/ ~Idle) /\ excused' = excused
    BY <1>6 DEF Edit
  <2> QED
    BY <2>1
<1> QED
  BY <1>1, <1>2, <1>3, <1>4, <1>5, <1>6 DEF Next, Steps, Aside

LEMMA NextUser == Shape /\ UserInv /\ [Next]_vars => UserInv'
<1> SUFFICES ASSUME Shape, UserInv, [Next]_vars, ~raced', ~excused' PROVE UserInv'
  BY DEF UserInv
<1>0. FileInv /\ ListInv /\ StageInv
  BY DEF Shape
<1> DEFINE Kept == \A f \in HookFiles : \A g \in user[f] : InFile(f, g) \/ InBackup(f, g)
           Saved == \A f \in HookFiles : Task.file = f => \A g \in user[f] : InBackup(f, g)
           Forward == \A i \in DOMAIN tasks : tasks[i].op # "rollback"
<1>1. ~raced /\ ~excused
  BY HistoryGrows
<1>2. Kept /\ Forward /\ (~Idle /\ stage \in {"truncate", "write"} => Saved)
  BY <1>1 DEF UserInv
<1>3. ASSUME ~Idle, tasks' \in {tasks, Tail(tasks), <<>>} PROVE Forward'
  BY <1>0, <1>2, <1>3, NoRollbacksLeft
<1>4. HookFiles \subseteq Files
  BY DEF HookFiles, Files
<1>5. ASSUME UNCHANGED <<file, backups, user>>, Forward', tasks' = <<>> \/ stage' \in {"read", "backup"}
      PROVE  UserInv'
  BY <1>2, <1>5 DEF UserInv, InFile, InBackup, IsDocument, Idle
<1>6. ~Idle /\ stage # "read" => Task.file \in Files /\ Task.op # "rollback"
  <2>1. ~Idle => Task.op # "rollback"
    BY <1>0, <1>2, Rest
  <2> QED
    BY <1>0, <2>1, DraftsAreFiles
<1>7. CASE Aside
  BY <1>3, <1>5, <1>7, AsideMoves
<1>8. CASE ReadToInstall \/ ReadToRemove \/ ReadToDisable
  <2>1. /\ ~Idle /\ tasks' \in {tasks, Tail(tasks), <<>>} /\ stage' \in {"read", "backup"}
        /\ UNCHANGED <<file, backups, user>>
    BY <1>8 DEF ReadToInstall, ReadToRemove, ReadToDisable, Doing, Finish, Fail
  <2> QED
    BY <1>3, <1>5, <2>1
<1>9. CASE ReadToRestore
  <2>1. /\ ~Idle /\ tasks' = Tail(tasks) /\ stage' = "read" /\ UNCHANGED <<file, backups, user>>
    BY <1>9 DEF ReadToRestore, Doing, Finish
  <2> QED
    BY <1>3, <1>5, <2>1
<1>10. CASE Backup
  <2>1. /\ ~Idle /\ stage = "backup" /\ UNCHANGED <<file, user>> /\ tasks' \in {tasks, Tail(tasks)}
    BY <1>10 DEF Backup, Finish
  <2>2. Forward'
    BY <1>3, <2>1
  <2>3. CASE file[Task.file] = draft
    <3>1. stage' = "read" /\ UNCHANGED backups
      BY <1>10, <2>3 DEF Backup, Finish
    <3> QED
      BY <1>5, <2>1, <2>2, <3>1
  <2>4. CASE file[Task.file] # draft
    <3>1. /\ UNCHANGED tasks
          /\ backups' = IF file[Task.file] = Absent THEN backups
                        ELSE [backups EXCEPT ![Task.file] = Append(@, file[Task.file])]
      BY <1>10, <2>4 DEF Backup
    <3>2. ASSUME NEW f \in HookFiles, NEW g, InBackup(f, g) PROVE InBackup(f, g)'
      <4>1. PICK i \in DOMAIN backups[f] :
               backups[f][i] \notin {Blank, Broken} /\ g \in GroupsOf(f, backups[f][i])
        BY <3>2 DEF InBackup
      <4>2. backups[f] \in Seq(States) /\ file[Task.file] \in States /\ f \in Files
        BY <1>0, <1>4, <1>6, <2>1 DEF FileInv
      <4>3. i \in DOMAIN backups'[f] /\ backups'[f][i] = backups[f][i]
        BY <1>0, <3>1, <4>1, <4>2 DEF FileInv
      <4> QED
        BY <4>1, <4>3 DEF InBackup
    <3>3. ASSUME NEW f \in HookFiles, f = Task.file, NEW g, InFile(f, g) PROVE InBackup(f, g)'
      <4>1. file[f] \notin {Absent, Blank, Broken} /\ g \in GroupsOf(f, file[f])
        BY <3>3 DEF InFile, IsDocument
      <4>2. backups[f] \in Seq(States) /\ file[f] \in States /\ f \in Files
        BY <1>0, <1>4 DEF FileInv
      <4>3. backups'[f] = Append(backups[f], file[f])
        BY <1>0, <3>1, <3>3, <4>1, <4>2 DEF FileInv
      <4>4. Len(backups[f]) + 1 \in DOMAIN backups'[f] /\ backups'[f][Len(backups[f]) + 1] = file[f]
        BY <4>2, <4>3
      <4> QED
        BY <4>1, <4>4 DEF InBackup
    <3>4. Kept'
      BY <1>2, <2>1, <3>2 DEF InFile, IsDocument
    <3>5. Saved'
      BY <1>2, <2>1, <3>1, <3>2, <3>3 DEF Task
    <3> QED
      BY <2>2, <3>4, <3>5 DEF UserInv
  <2> QED
    BY <2>3, <2>4
<1>11. ASSUME NEW new, ~Idle, stage \in {"truncate", "write"}, file' = [file EXCEPT ![Task.file] = new],
              UNCHANGED <<backups, user>>
       PROVE  Kept' /\ (UNCHANGED tasks => Saved')
  <2>1. Saved /\ Task.file \in Files
    BY <1>2, <1>6, <1>11
  <2>2. \A f \in HookFiles : f # Task.file => file'[f] = file[f]
    BY <1>0, <1>4, <1>11 DEF FileInv
  <2> QED
    BY <1>2, <1>11, <2>1, <2>2 DEF InFile, InBackup, IsDocument, Task
<1>12. CASE Truncate
  <2>1. Kept' /\ Saved' /\ Forward'
    BY <1>3, <1>11, <1>12 DEF Truncate
  <2> QED
    BY <2>1 DEF UserInv
<1>13. CASE Write
  <2>1. Kept' /\ Forward' /\ stage' = "read"
    BY <1>3, <1>11, <1>13 DEF Write, Finish
  <2> QED
    BY <2>1 DEF UserInv
<1>14. CASE Abort
  <2>1. Forward' /\ Idle' /\ UNCHANGED <<backups, user>> /\ ~Idle
    BY <1>3, <1>14 DEF Abort, Fail, Idle
  <2>2. CASE UNCHANGED file
    BY <1>2, <2>1, <2>2 DEF UserInv, InFile, InBackup, IsDocument
  <2>3. CASE stage = "write" /\ file' = [file EXCEPT ![Task.file] = Broken]
    BY <1>11, <2>1, <2>3 DEF UserInv
  <2> QED
    BY <1>14, <2>2, <2>3 DEF Abort
<1>15. CASE TakeSnapshot \/ SelfTest
  <2>1. /\ ~Idle /\ tasks' \in {Tail(tasks), <<>>} /\ stage' = "read"
        /\ UNCHANGED <<file, backups, user>>
    BY <1>15 DEF TakeSnapshot, SelfTest, Doing, Finish, Fail
  <2> QED
    BY <1>3, <1>5, <2>1
<1>16. CASE End
  <2>1. ~Idle /\ tasks' = <<>> /\ UNCHANGED <<file, backups, user>>
    BY <1>16 DEF End, Doing
  <2> QED
    BY <1>3, <1>5, <2>1
<1>17. ~ReadToRollBack /\ ~PurgeBackups
  BY <1>0, <1>2, Rest DEF ReadToRollBack, PurgeBackups, Doing
<1>18. CASE Install \/ Uninstall \/ Quickstart
  <2>1. PICK kind \in {"install", "uninstall", "quickstart"}, agents \in SUBSET Agents,
             replace \in BOOLEAN, import \in BOOLEAN, list \in Seq(Fresh) :
               Begin(kind, agents, replace, import, list)
    BY <1>18, Beginnings
  <2>2. ListInv' /\ ~Idle' /\ Kind' # "rollback"
    BY <2>1, ListBegins
  <2>3. Forward'
    <3>1. tasks' \in Seq(Tasks) /\ Last(tasks') \in EndTasks /\ Len(tasks') \in Nat
          /\ DOMAIN tasks' = 1..Len(tasks')
      BY <2>2 DEF ListInv
    <3>2. Last(tasks').op = "end"
      BY <3>1, TaskKinds DEF Tasks
    <3>3. \A i \in 1..(Len(tasks') - 1) : tasks'[i].op # "rollback"
      BY <2>2 DEF ListInv
    <3> QED
      BY <3>1, <3>2, <3>3 DEF Last
  <2> QED
    BY <1>5, <2>1, <2>3 DEF Begin
<1>19. CASE Edit
  <2>1. Idle /\ UNCHANGED <<backups, tasks>>
    BY <1>19 DEF Edit
  <2>2. PICK f \in Files : Readable(f) /\ \E doc \in Edited(f, Document(f)) :
             file' = [file EXCEPT ![f] = doc] /\ user' = [user EXCEPT ![f] = @ \union Mine(f, doc)]
    BY <1>19 DEF Edit
  <2>3. PICK doc \in Edited(f, Document(f)) :
             file' = [file EXCEPT ![f] = doc] /\ user' = [user EXCEPT ![f] = @ \union Mine(f, doc)]
    BY <2>2
  <2>4. Document(f) \in Contents[f]
    BY <1>0, <2>2, DocumentHasItsShape
  <2>5. doc \in Contents[f] /\ GroupsOf(f, Document(f)) \subseteq GroupsOf(f, doc)
        /\ Mine(f, doc) \subseteq GroupsOf(f, doc)
    BY <2>4, EditAdds
  <2>6. file'[f] = doc /\ doc \notin {Absent, Blank, Broken}
    BY <1>0, <2>3, <2>5, DocumentsAreUnmarked DEF FileInv
  <2>7. ASSUME NEW h \in HookFiles, NEW g \in user'[h] PROVE InFile(h, g)' \/ InBackup(h, g)'
    <3>1. CASE h # f
      <4>1. file'[h] = file[h] /\ user'[h] = user[h] /\ backups' = backups
        BY <1>0, <1>4, <2>1, <2>3, <3>1 DEF FileInv
      <4> QED
        BY <1>2, <2>7, <4>1 DEF InFile, InBackup, IsDocument
    <3>2. CASE h = f
      <4>1. user'[f] = user[f] \union Mine(f, doc)
        BY <1>0, <2>3 DEF FileInv
      <4>2. CASE g \in Mine(f, doc)
        BY <2>5, <2>6, <3>2, <4>2 DEF InFile, IsDocument
      <4>3. CASE g \in user[f] /\ InFile(f, g)
        <5>1. Document(f) = file[f]
          BY <4>3 DEF InFile, IsDocument, Document
        <5> QED
          BY <2>5, <2>6, <3>2, <4>3, <5>1 DEF InFile, IsDocument
      <4>4. CASE g \in user[f] /\ InBackup(f, g)
        BY <2>1, <3>2, <4>4 DEF InBackup
      <4> QED
        BY <1>2, <2>7, <3>2, <4>1, <4>2, <4>3, <4>4
    <3> QED
      BY <3>1, <3>2
  <2> QED
    BY <1>2, <2>1, <2>7 DEF UserInv, Idle
<1>20. CASE UNCHANGED vars
  BY <1>2, <1>20 DEF vars, work, UserInv, InFile, InBackup, IsDocument, Idle, Task
<1> QED
  BY <1>7, <1>8, <1>9, <1>10, <1>12, <1>13, <1>14, <1>15, <1>16, <1>17, <1>18, <1>19, <1>20
     DEF Next, Steps, Aside

\* OthersKept: "changed host files are backed up next to the original".  With the
\* writes of write_text cut anywhere, and edits between the commands: a group of
\* the user's is in its file or in a backup of it, unless an edit fell into a
\* command or a backup was put back or purged.
THEOREM OthersAreKept == Spec => []OthersKept
<1>1. UserInv => OthersKept
  BY DEF UserInv, OthersKept, InFile, InBackup, HookFiles
<1> QED
  BY <1>1, InitShape, InitUser, NextShape, NextUser, PTL DEF Spec

---------------------------------------------------------------------------
(* A rollback that ends has put every snapshot back *)

LEMMA InitRoll == Init => RollInv
  BY DEF Init, RollInv, Idle, RollbackIsExact

LEMMA NextRoll == Shape /\ RollInv /\ [Next]_vars => RollInv'
<1> SUFFICES ASSUME Shape, RollInv, [Next]_vars PROVE RollInv'
  OBVIOUS
<1>0. FileInv /\ ListInv /\ StageInv
  BY DEF Shape
<1>1. ASSUME last' = None, ~Idle' => Kind' # "rollback" PROVE RollInv'
  BY <1>1 DEF RollInv, RollbackIsExact
<1>2. ASSUME ~Idle, tasks' \in {tasks, Tail(tasks), <<>>} PROVE ~Idle' => Kind' = Kind
  BY <1>0, <1>2, Rest DEF Idle, Kind
<1>3. ASSUME ~Idle, Kind # "rollback", tasks' \in {tasks, Tail(tasks), <<>>}, last' = last
      PROVE  RollInv'
  BY <1>1, <1>2, <1>3 DEF RollInv
<1>4. ASSUME ~Idle, Task.op \notin {"rollback", "end"} PROVE Kind # "rollback"
  BY <1>0, <1>4, EndIsLast
<1>5. CASE Aside
  <2>1. ~Idle /\ Task.op \notin {"rollback", "end"} /\ last' = last
        /\ tasks' \in {tasks, Tail(tasks), <<>>}
    BY <1>5, AsideMoves
  <2> QED
    BY <1>3, <1>4, <2>1
<1>6. CASE ReadToInstall \/ ReadToRemove \/ ReadToDisable \/ ReadToRestore \/ TakeSnapshot \/ PurgeBackups
  <2>1. ~Idle /\ Task.op \notin {"rollback", "end"} /\ last' = last
        /\ tasks' \in {tasks, Tail(tasks), <<>>}
    BY <1>6 DEF ReadToInstall, ReadToRemove, ReadToDisable, ReadToRestore, TakeSnapshot,
       PurgeBackups, Doing, Finish, Fail
  <2> QED
    BY <1>3, <1>4, <2>1
<1>7. CASE Backup
  <2>1. ~Idle /\ stage = "backup" /\ last' = last /\ tasks' \in {tasks, Tail(tasks), <<>>}
    BY <1>7 DEF Backup, Finish
  <2>2. Kind # "rollback"
    BY <2>1 DEF RollInv
  <2> QED
    BY <1>3, <2>1, <2>2
<1>8. ASSUME ~Idle, Kind = "rollback", tasks' = Tail(tasks), stage' = "read", last' = last,
             UNCHANGED <<kept, raced>>, Task.file \in Files,
             file' = [file EXCEPT ![Task.file] = kept[Task.file]]
      PROVE  RollInv'
  <2>1. last' = None
    BY <1>8 DEF RollInv
  <2>2. ASSUME ~Idle', ~raced, NEW f \in Files
        PROVE  kept[f] \in {None, file'[f]} \/ \E i \in 1..(Len(tasks') - 1) : tasks'[i].file = f
    <3>1. CASE f = Task.file
      BY <1>0, <1>8, <3>1 DEF FileInv
    <3>2. CASE f # Task.file /\ kept[f] \in {None, file[f]}
      BY <1>0, <1>8, <3>2 DEF FileInv
    <3>3. CASE f # Task.file /\ \E i \in 1..(Len(tasks) - 1) : tasks[i].file = f
      <4>1. PICK i \in 1..(Len(tasks) - 1) : tasks[i].file = f
        BY <3>3
      <4>2. i # 1
        BY <1>0, <1>8, <3>3, <4>1, Rest
      <4>3. /\ Len(tasks') = Len(tasks) - 1 /\ Len(tasks) \in Nat
            /\ \A k \in 1..(Len(tasks) - 1) : tasks'[k] = tasks[k + 1]
        BY <1>0, <1>8, Rest
      <4>4. i - 1 \in 1..(Len(tasks') - 1) /\ tasks'[i - 1] = tasks[i]
        BY <4>1, <4>2, <4>3
      <4> QED
        BY <4>1, <4>4
    <3> QED
      BY <1>8, <2>2, <3>1, <3>2, <3>3 DEF RollInv
  <2> QED
    BY <1>8, <2>1, <2>2 DEF RollInv, RollbackIsExact
<1>9. CASE Truncate \/ Write
  <2>1. ~Idle /\ stage \in {"truncate", "write"} /\ UNCHANGED <<draft, kept, last, raced>>
        /\ tasks' \in {tasks, Tail(tasks), <<>>}
    BY <1>9 DEF Truncate, Write, Finish
  <2>2. Task.file \in Files
    BY <1>0, <2>1, DraftsAreFiles
  <2>3. CASE Kind # "rollback"
    BY <1>3, <2>1, <2>3
  <2>4. CASE Kind = "rollback" /\ Write
    <3>1. draft = kept[Task.file]
      BY <2>1, <2>4 DEF RollInv
    <3> QED
      BY <1>8, <2>1, <2>2, <2>4, <3>1 DEF Write, Finish
  <2>5. CASE Kind = "rollback" /\ Truncate
    <3>1. /\ tasks' = tasks /\ stage' = "write" /\ file' = [file EXCEPT ![Task.file] = Blank]
      BY <2>5 DEF Truncate
    <3>2. draft = kept[Task.file] /\ last' = None
      BY <2>1, <2>5 DEF RollInv
    <3>3. \E i \in 1..(Len(tasks) - 1) : tasks[i].file = Task.file
      <4>1. Task.op # "end"
        BY <1>0, <2>1, DraftsAreFiles, TaskKinds, Rest
      <4> QED
        BY <1>0, <2>1, <4>1, Rest, EndIsLast
    <3>4. \A f \in Files : f # Task.file => file'[f] = file[f]
      BY <1>0, <3>1 DEF FileInv
    <3>5. ASSUME ~raced, NEW f \in Files
          PROVE  kept[f] \in {None, file'[f]} \/ \E i \in 1..(Len(tasks) - 1) : tasks[i].file = f
      BY <2>1, <2>5, <3>3, <3>4, <3>5 DEF RollInv
    <3> QED
      BY <2>1, <3>1, <3>2, <3>5 DEF RollInv, RollbackIsExact, Idle, Kind, Task
  <2> QED
    BY <1>9, <2>3, <2>4, <2>5
<1>10. CASE ReadToRollBack
  <2>1. ~Idle /\ Task.op = "rollback" /\ UNCHANGED <<kept, raced>>
    BY <1>10 DEF ReadToRollBack, Doing
  <2>2. Kind = "rollback" /\ Task.file \in Files
    BY <1>0, <2>1, EndIsLast, DraftsAreFiles
  <2>3. CASE kept[Task.file] = Absent
    BY <1>8, <1>10, <2>1, <2>2, <2>3 DEF ReadToRollBack, Finish
  <2>4. CASE kept[Task.file] # Absent
    <3>1. draft' = kept[Task.file] /\ stage' = "truncate" /\ UNCHANGED <<file, tasks, last>>
      BY <1>10, <2>4 DEF ReadToRollBack
    <3> QED
      BY <2>1, <3>1 DEF RollInv, RollbackIsExact, Idle, Kind, Task
  <2> QED
    BY <2>3, <2>4
<1>11. CASE SelfTest
  <2>1. /\ ~Idle /\ Task.op \notin {"rollback", "end"} /\ last' = last /\ stage' = "read"
        /\ UNCHANGED <<file, kept, raced>>
    BY <1>11 DEF SelfTest, Doing, Finish, Fail
  <2>2. CASE tasks' \in {Tail(tasks), <<>>}
    BY <1>3, <1>4, <2>1, <2>2
  <2>3. CASE tasks' = Append(Rollback, [Last(tasks) EXCEPT !.file.kind = "rollback"])
    <3>1. \A f \in Files : kept[f] # None => \E i \in 1..(Len(tasks') - 1) : tasks'[i].file = f
      BY <1>0, <2>1, <2>3, ListRollsBack
    <3>2. last' = None
      BY <2>1 DEF RollInv
    <3> QED
      BY <2>1, <3>1, <3>2 DEF RollInv, RollbackIsExact
  <2> QED
    BY <1>11, <2>2, <2>3 DEF SelfTest, Finish, Fail
<1>12. CASE End
  <2>1. ~Idle /\ Task.op = "end" /\ last' = Task.file /\ tasks' = <<>> /\ UNCHANGED <<file, kept, raced>>
    BY <1>12 DEF End, Doing
  <2>2. Len(tasks) = 1 /\ Task = Last(tasks)
    BY <1>0, <2>1, EndIsLast, Rest DEF Last
  <2>3. ASSUME Kind = "rollback", ~raced PROVE \A f \in Files : kept[f] \in {None, file[f]}
    <3>1. 1..(Len(tasks) - 1) = {}
      BY <2>2
    <3> QED
      BY <2>1, <2>3, <3>1 DEF RollInv
  <2> QED
    BY <2>1, <2>2, <2>3 DEF RollInv, RollbackIsExact, Idle, Kind
<1>13. CASE Abort
  <2>1. Idle' /\ last' = None
    BY <1>13 DEF Abort, Fail, Idle, RollInv
  <2> QED
    BY <1>1, <2>1
<1>14. CASE Install \/ Uninstall \/ Quickstart
  <2>1. PICK kind \in {"install", "uninstall", "quickstart"}, agents \in SUBSET Agents,
             replace \in BOOLEAN, import \in BOOLEAN, list \in Seq(Fresh) :
               Begin(kind, agents, replace, import, list)
    BY <1>14, Beginnings
  <2>2. Kind' # "rollback" /\ last' = None
    BY <2>1, ListBegins DEF Begin
  <2> QED
    BY <1>1, <2>2
<1>15. CASE Edit
  <2>1. last' = None /\ raced' = (raced \/ ~Idle) /\ UNCHANGED <<tasks, stage, draft, kept>>
    BY <1>15 DEF Edit
  <2> QED
    BY <2>1 DEF RollInv, RollbackIsExact, Idle, Kind, Task
<1>16. CASE UNCHANGED vars
  BY <1>16 DEF vars, work, RollInv, RollbackIsExact, Idle, Kind, Task
<1> QED
  BY <1>5, <1>6, <1>7, <1>9, <1>10, <1>11, <1>12, <1>13, <1>14, <1>15, <1>16
     DEF Next, Steps, Aside

\* RollbackIsExact: "restores touched agent config snapshots if the post-install
\* self-test fails".  A rollback that comes to its end has every snapshot of
\* capture_agent_config_snapshots back, in whatever order
\* rollback_agent_config_snapshots takes the files, the missing ones missing.
THEOREM RollbacksAreExact == Spec => []RollbackIsExact
<1>1. RollInv => RollbackIsExact
  BY DEF RollInv
<1> QED
  BY <1>1, InitShape, InitRoll, NextShape, NextRoll, PTL DEF Spec

---------------------------------------------------------------------------
(* The hooks go before the binaries *)

LEMMA InitClean == Init => CleanInv
<1> SUFFICES ASSUME Init PROVE CleanStage /\ CleanList /\ CleanHost
  BY DEF CleanInv
<1>1. tasks = <<>> /\ DOMAIN tasks = {} /\ installed
  BY DEF Init
<1> QED
  BY <1>1 DEF CleanStage, CleanList, CleanHost, Idle

\* A step that puts no hook into a file, and takes it out where it ends a removal.
LEMMA CleanMoves ==
  ASSUME ListInv, ~Idle, CleanList, CleanHost, UNCHANGED installed,
         \A f \in HookFiles : Clean(f) => Clean(f)',
         \/ tasks' \in {tasks, <<>>}
         \/ tasks' = Tail(tasks) /\ \A f \in HookFiles : Task.op = "remove" /\ Task.file = f => Clean(f)'
  PROVE  CleanList' /\ CleanHost'
<1>1. CASE tasks' = tasks
  BY <1>1 DEF CleanList, CleanHost
<1>2. CASE tasks' = <<>>
  <2>1. DOMAIN tasks' = {}
    BY <1>2
  <2> QED
    BY <2>1 DEF CleanList, CleanHost
<1>3. CASE /\ tasks' = Tail(tasks)
           /\ \A f \in HookFiles : Task.op = "remove" /\ Task.file = f => Clean(f)'
  <2>1. /\ DOMAIN tasks' = 1..Len(tasks') /\ Len(tasks') = Len(tasks) - 1
        /\ DOMAIN tasks = 1..Len(tasks) /\ Len(tasks) \in Nat /\ Task = tasks[1]
        /\ \A i \in 1..(Len(tasks) - 1) : tasks'[i] = tasks[i + 1]
    <3>1. tasks' \in Seq(Tasks)
      BY <1>3, Rest
    <3> QED
      <4>1. DOMAIN tasks' = 1..Len(tasks')
        BY <3>1
      <4> QED
        BY <1>3, <4>1, Rest
  <2>2. ASSUME NEW j \in DOMAIN tasks', tasks'[j].op = "binaries"
        PROVE  /\ \A i \in 1..(j - 1) :
                    tasks'[i].op \in Early
               /\ \A i \in (j + 1)..Len(tasks') : tasks'[i].op \in {"purge", "end"}
               /\ \A f \in HookFiles :
                    Clean(f)' \/ \E i \in 1..(j - 1) : tasks'[i].op = "remove" /\ tasks'[i].file = f
    <3>1. j + 1 \in DOMAIN tasks /\ tasks[j + 1].op = "binaries" /\ j \in Nat
      BY <2>1, <2>2
    <3>2. /\ \A i \in 1..j :
               tasks[i].op \in Early
          /\ \A i \in (j + 2)..Len(tasks) : tasks[i].op \in {"purge", "end"}
          /\ \A f \in HookFiles :
               Clean(f) \/ \E i \in 1..j : tasks[i].op = "remove" /\ tasks[i].file = f
      <4>1. (j + 1) - 1 = j /\ (j + 1) + 1 = j + 2
        BY <3>1
      <4> QED
        BY <3>1, <4>1 DEF CleanList
    <3>3. ASSUME NEW i \in 1..(j - 1)
          PROVE  tasks'[i].op \in Early
      <4>1. i + 1 \in 1..j /\ tasks'[i] = tasks[i + 1]
        BY <2>1, <2>2, <3>1
      <4> QED
        BY <3>2, <4>1
    <3>4. ASSUME NEW i \in (j + 1)..Len(tasks') PROVE tasks'[i].op \in {"purge", "end"}
      <4>1. i + 1 \in (j + 2)..Len(tasks) /\ tasks'[i] = tasks[i + 1]
        BY <2>1, <3>1
      <4> QED
        BY <3>2, <4>1
    <3>5. ASSUME NEW f \in HookFiles, ~Clean(f)'
          PROVE  \E i \in 1..(j - 1) : tasks'[i].op = "remove" /\ tasks'[i].file = f
      <4>1. PICK i \in 1..j : tasks[i].op = "remove" /\ tasks[i].file = f
        BY <3>2, <3>5
      <4>2. i # 1
        BY <1>3, <2>1, <3>5, <4>1
      <4>3. i - 1 \in 1..(j - 1) /\ tasks'[i - 1] = tasks[i]
        BY <2>1, <2>2, <3>1, <4>1, <4>2
      <4> QED
        BY <4>1, <4>3
    <3> QED
      BY <3>3, <3>4, <3>5
  <2>3. CleanList'
    BY <2>2 DEF CleanList
  <2>4. ASSUME ~installed, NEW i \in DOMAIN tasks' PROVE tasks'[i].op \in {"purge", "end"}
    <3>1. i + 1 \in DOMAIN tasks /\ tasks'[i] = tasks[i + 1]
      BY <2>1
    <3> QED
      BY <2>4, <3>1 DEF CleanHost
  <2> QED
    BY <2>3, <2>4 DEF CleanHost
<1> QED
  BY <1>1, <1>2, <1>3

\* A restore only spares more files.
LEMMA StaysClean ==
  ASSUME NEW f, file'[f] = file[f], flow'.agents = flow.agents, flow.restored \subseteq flow'.restored,
         Clean(f)
  PROVE  Clean(f)'
  BY DEF Clean, Named, IsDocument, CleanIn

\* A file that is cut off or away holds no hook, and an edit puts none in.
LEMMA Marked ==
  ASSUME NEW f, file'[f] \in {Absent, Blank, Broken}
  PROVE  Clean(f)'
  BY DEF Clean, IsDocument

LEMMA EditKeepsClean ==
  ASSUME FileInv, Edit, NEW h \in HookFiles, Clean(h)
  PROVE  Clean(h)'
<1>1. PICK f \in Files :
        Readable(f) /\ \E doc \in Edited(f, Document(f)) : file' = [file EXCEPT ![f] = doc]
  BY DEF Edit
<1>2. PICK doc \in Edited(f, Document(f)) : file' = [file EXCEPT ![f] = doc]
  BY <1>1
<1>3. h \in Files
  BY DEF HookFiles, Files
<1>4. CASE h # f
  <2>1. file'[h] = file[h] /\ flow' = flow
    BY <1>2, <1>3, <1>4 DEF FileInv, Edit
  <2> QED
    BY <2>1, StaysClean
<1>5. CASE h = f
  <2>1. Document(h) \in Contents[h] /\ doc \in Edited(h, Document(h)) /\ file'[h] = doc
    BY <1>1, <1>2, <1>3, <1>5, DocumentHasItsShape DEF FileInv
  <2>2. \A g \in GroupsOf(h, doc) \ GroupsOf(h, Document(h)) : ~g.gommage
    BY <1>3, <2>1, EditAdds
  <2>3. ASSUME Named(h) PROVE \A g \in GroupsOf(h, Document(h)) : ~g.gommage
    <3>1. CASE file[h] \in {Absent, Blank}
      <4>1. GroupsOf(h, EmptyOf[h]) = {}
        <5>1. CASE h = "settings"
          BY <5>1 DEF GroupsOf, EmptyOf
        <5>2. CASE h = "hooks"
          BY <5>2 DEF GroupsOf, EmptyOf, OrEmpty
        <5> QED
          BY <5>1, <5>2 DEF HookFiles
      <4> QED
        BY <3>1, <4>1 DEF Document
    <3>2. CASE file[h] \notin {Absent, Blank}
      BY <1>1, <1>5, <2>3, <3>2 DEF Document, Clean, CleanIn, IsDocument, Readable
    <3> QED
      BY <3>1, <3>2
  <2>4. Named(h) => \A g \in GroupsOf(h, doc) : ~g.gommage
    BY <2>2, <2>3
  <2>5. Named(h)' <=> Named(h)
    BY DEF Named, Edit
  <2> QED
    BY <2>1, <2>4, <2>5 DEF Clean, CleanIn
<1> QED
  BY <1>4, <1>5

\* A command begins while the binaries are there.
LEMMA BeginClean ==
  ASSUME NEW kind \in {"install", "uninstall", "quickstart"}, NEW agents \in SUBSET Agents,
         NEW replace \in BOOLEAN, NEW import \in BOOLEAN, NEW list \in Seq(Fresh),
         BinariesLast(list, agents), Begin(kind, agents, replace, import, list)
  PROVE  CleanInv'
<1>1. flow'.agents = agents /\ stage' = "read" /\ installed'
  BY DEF Begin, FlowOf, host
<1> DEFINE end == Closing(kind, agents, replace, import)
<1>2. end \in EndTasks /\ end.op = "end"
  BY DEF Closing, ReportOf, Do, On, EndTasks, Reports
<1>3. tasks' = Append(list, end)
  BY DEF Begin, Closing, ReportOf
<1>4. list \in Seq(InnerTasks)
  BY DEF Fresh
<1> HIDE DEF end
<1>5. /\ Len(tasks') = Len(list) + 1 /\ Len(list) \in Nat /\ tasks'[Len(list) + 1] = end
      /\ \A i \in 1..Len(list) : tasks'[i] = list[i]
      /\ DOMAIN tasks' = 1..(Len(list) + 1) /\ DOMAIN list = 1..Len(list)
  BY <1>2, <1>3, <1>4
<1>6. ASSUME NEW j \in DOMAIN tasks', tasks'[j].op = "binaries"
      PROVE  /\ \A i \in 1..(j - 1) :
                  tasks'[i].op \in Early
             /\ \A i \in (j + 1)..Len(tasks') : tasks'[i].op \in {"purge", "end"}
             /\ \A f \in HookFiles :
                  Clean(f)' \/ \E i \in 1..(j - 1) : tasks'[i].op = "remove" /\ tasks'[i].file = f
  <2>1. j \in DOMAIN list /\ list[j].op = "binaries"
    BY <1>2, <1>5, <1>6
  <2>2. /\ \A i \in 1..(j - 1) :
             list[i].op \in Early
        /\ \A i \in (j + 1)..Len(list) : list[i].op = "purge"
        /\ \A f \in HookFiles : AgentOf(f) \in agents =>
             \E i \in 1..(j - 1) : list[i].op = "remove" /\ list[i].file = f
    BY <2>1 DEF BinariesLast
  <2>3. \A i \in 1..(j - 1) : tasks'[i] = list[i]
    BY <1>5, <2>1
  <2>4. \A i \in (j + 1)..Len(tasks') : tasks'[i].op \in {"purge", "end"}
    BY <1>2, <1>5, <2>1, <2>2
  <2>5. ASSUME NEW f \in HookFiles, ~Clean(f)'
        PROVE  \E i \in 1..(j - 1) : tasks'[i].op = "remove" /\ tasks'[i].file = f
    <3>1. AgentOf(f) \in agents
      BY <1>1, <2>5 DEF Clean, Named
    <3>2. PICK i \in 1..(j - 1) : list[i].op = "remove" /\ list[i].file = f
      BY <2>2, <3>1
    <3> QED
      BY <2>3, <3>2
  <2>6. \A i \in 1..(j - 1) :
          tasks'[i].op \in Early
    BY <2>2, <2>3
  <2> QED
    BY <2>4, <2>5, <2>6
<1>7. CleanList'
  BY <1>6 DEF CleanList
<1> QED
  BY <1>1, <1>7 DEF CleanInv, CleanStage, CleanHost

LEMMA NextClean == Shape /\ CleanInv /\ [Next]_vars => CleanInv'
<1> SUFFICES ASSUME Shape, CleanInv, [Next]_vars PROVE CleanInv'
  OBVIOUS
<1>0. FileInv /\ ListInv /\ StageInv
  BY DEF Shape
<1>1. CleanStage /\ CleanList /\ CleanHost
  BY DEF CleanInv
<1>2. ASSUME UNCHANGED <<file, flow>> PROVE \A f \in HookFiles : Clean(f) => Clean(f)'
  BY <1>2, StaysClean
<1>3. ASSUME ~Idle, UNCHANGED <<file, flow, installed>>, tasks' \in {tasks, Tail(tasks), <<>>},
             Task.op # "remove", stage' = "read" \/ (UNCHANGED tasks /\ Task.op # "restore")
      PROVE  CleanInv'
  <2>1. CleanList' /\ CleanHost'
    BY <1>0, <1>1, <1>2, <1>3, CleanMoves
  <2> QED
    BY <1>1, <1>3, <2>1 DEF CleanInv, CleanStage, Task
<1>4. CASE Install \/ Uninstall \/ Quickstart
  <2>1. PICK kind \in {"install", "uninstall", "quickstart"}, agents \in SUBSET Agents,
             replace \in BOOLEAN, import \in BOOLEAN, list \in Seq(Fresh) :
               BinariesLast(list, agents) /\ Begin(kind, agents, replace, import, list)
    BY <1>4, Beginnings
  <2> QED
    BY <2>1, BeginClean
<1>5. CASE Aside /\ Task.op # "binaries"
  <2>1. /\ ~Idle /\ Task.op # "remove" /\ tasks' \in {Tail(tasks), <<>>} /\ stage' = "read"
        /\ UNCHANGED <<file, flow, installed>>
    BY <1>5, AsideMoves
  <2> QED
    BY <1>3, <2>1
<1>6. CASE Aside /\ Task.op = "binaries"
  <2>1. ~Idle /\ tasks' = Tail(tasks) /\ stage' = "read" /\ UNCHANGED <<file, flow>>
    BY <1>6 DEF Aside, Posture, WriteContext, LoadPolicy, InstallService, RemoveService, PurgeHome,
       RemoveBinaries, Doing, Finish
  <2>2. /\ DOMAIN tasks = 1..Len(tasks) /\ Len(tasks) \in Nat /\ Len(tasks) > 0
        /\ Task = tasks[1] /\ DOMAIN tasks' = 1..Len(tasks') /\ Len(tasks') = Len(tasks) - 1
        /\ \A i \in 1..(Len(tasks) - 1) : tasks'[i] = tasks[i + 1]
    BY <1>0, <2>1, Rest
  <2>3. 1 \in DOMAIN tasks /\ 1..(1 - 1) = {}
    BY <2>2
  <2>4. /\ \A f \in HookFiles : Clean(f)
        /\ \A i \in (1 + 1)..Len(tasks) : tasks[i].op \in {"purge", "end"}
    BY <1>1, <1>6, <2>2, <2>3 DEF CleanList
  <2>5. \A i \in DOMAIN tasks' : tasks'[i].op \in {"purge", "end"}
    <3>1. ASSUME NEW i \in DOMAIN tasks' PROVE tasks'[i].op \in {"purge", "end"}
      <4>1. i + 1 \in (1 + 1)..Len(tasks) /\ tasks'[i] = tasks[i + 1]
        BY <2>2
      <4> QED
        BY <2>4, <4>1
    <3> QED
      BY <3>1
  <2>6. \A f \in HookFiles : Clean(f)'
    BY <1>2, <2>1, <2>4
  <2> QED
    BY <1>1, <2>1, <2>5, <2>6 DEF CleanInv, CleanStage, CleanList, CleanHost
<1>7. CASE ReadToInstall \/ ReadToDisable
  <2>1. /\ ~Idle /\ Task.op \in {"hook", "enable", "disable"} /\ UNCHANGED <<file, flow, installed>>
        /\ (tasks' \in {Tail(tasks), <<>>} /\ stage' = "read") \/ UNCHANGED tasks
    BY <1>7 DEF ReadToInstall, ReadToDisable, Doing, Finish, Fail, host
  <2> QED
    BY <1>3, <2>1
<1>8. CASE ReadToRemove
  <2>1. /\ ~Idle /\ Task.op = "remove" /\ UNCHANGED <<file, installed>> /\ Task.file \in HookFiles
        /\ Task.file \in Files
    BY <1>0, <1>8, DraftsAreFiles DEF ReadToRemove, Doing, host, HookFiles, Files
  <2>2. flow'.agents = flow.agents /\ flow'.restored = flow.restored
    BY <1>0, <1>8 DEF ReadToRemove, FileInv
  <2>3. \A f \in HookFiles : Clean(f) => Clean(f)'
    BY <2>1, <2>2, StaysClean
  <2>4. ASSUME Readable(Task.file)
        PROVE  CleanIn(Task.file, WithoutHook(Task.file, Document(Task.file)))
    BY <1>0, <2>1, <2>4, DocumentHasItsShape, UnhookedHasNone
  <2>5. CASE tasks' = <<>> /\ stage' = "read"
    BY <1>0, <1>1, <2>1, <2>3, <2>5, CleanMoves DEF CleanInv, CleanStage
  <2>6. CASE tasks' = Tail(tasks) /\ stage' = "read"
    <3>1. \/ file[Task.file] = Absent
          \/ AgentOf(Task.file) \in flow.restored
          \/ ~Readable(Task.file)
          \/ Readable(Task.file) /\ WithoutHook(Task.file, Document(Task.file)) = Document(Task.file)
      BY <1>8, <2>6 DEF ReadToRemove, Finish, Fail
    <3>2. Clean(Task.file)
      BY <2>4, <3>1 DEF Clean, Named, IsDocument, Readable, Document
    <3>3. \A f \in HookFiles : Task.op = "remove" /\ Task.file = f => Clean(f)'
      BY <2>3, <3>2
    <3> QED
      BY <1>0, <1>1, <2>1, <2>3, <2>6, <3>3, CleanMoves DEF CleanInv, CleanStage
  <2>7. CASE UNCHANGED tasks /\ stage' = "backup"
    <3>1. Readable(Task.file) /\ draft' = WithoutHook(Task.file, Document(Task.file))
      BY <1>8, <2>7 DEF ReadToRemove, Finish, Fail
    <3>2. CleanStage'
      BY <2>1, <2>4, <2>7, <3>1 DEF CleanStage, CleanIn, Task
    <3> QED
      BY <1>0, <1>1, <2>1, <2>3, <2>7, <3>2, CleanMoves DEF CleanInv
  <2> QED
    BY <1>8, <2>5, <2>6, <2>7 DEF ReadToRemove, Finish, Fail
<1>9. CASE ReadToRestore
  <2>1. ~Idle /\ Task.op = "restore" /\ UNCHANGED <<file, installed>>
    BY <1>9 DEF ReadToRestore, Doing, host
  <2>2. CASE backups[Task.file] = <<>>
    <3>1. tasks' = Tail(tasks) /\ stage' = "read" /\ flow' = flow
      BY <1>9, <2>2 DEF ReadToRestore, Finish
    <3> QED
      BY <1>3, <2>1, <3>1
  <2>3. CASE backups[Task.file] # <<>>
    <3>1. /\ UNCHANGED tasks
          /\ flow' = [flow EXCEPT !.restored = @ \union {AgentOf(Task.file)}]
      BY <1>9, <2>3 DEF ReadToRestore
    <3>2. /\ flow'.agents = flow.agents /\ flow.restored \subseteq flow'.restored
          /\ AgentOf(Task.file) \in flow'.restored
      BY <1>0, <3>1 DEF FileInv
    <3>3. \A f \in HookFiles : Clean(f) => Clean(f)'
      BY <2>1, <3>2, StaysClean
    <3>4. CleanList' /\ CleanHost'
      BY <1>0, <1>1, <2>1, <3>1, <3>3, CleanMoves
    <3>5. CleanStage'
      BY <2>1, <3>1, <3>2 DEF CleanStage, Task
    <3> QED
      BY <3>4, <3>5 DEF CleanInv
  <2> QED
    BY <2>2, <2>3
<1>10. CASE Backup
  <2>1. ~Idle /\ stage = "backup" /\ UNCHANGED <<file, flow, draft, installed>>
    BY <1>10 DEF Backup, host
  <2>2. /\ Task.op = "restore" => AgentOf(Task.file) \in flow.restored
        /\ Task.op = "remove" => CleanIn(Task.file, draft)
    BY <1>1, <2>1 DEF CleanStage
  <2>3. CASE file[Task.file] = draft
    <3>1. tasks' = Tail(tasks) /\ stage' = "read"
      BY <1>10, <2>3 DEF Backup, Finish
    <3>2. \A f \in HookFiles : Task.op = "remove" /\ Task.file = f => Clean(f)'
      BY <2>1, <2>2, <2>3 DEF Clean, CleanIn, IsDocument
    <3> QED
      BY <1>0, <1>1, <1>2, <2>1, <3>1, <3>2, CleanMoves DEF CleanInv, CleanStage
  <2>4. CASE file[Task.file] # draft
    <3>1. UNCHANGED tasks
      BY <1>10, <2>4 DEF Backup
    <3> QED
      BY <1>0, <1>1, <1>2, <2>1, <2>2, <3>1, CleanMoves DEF CleanInv, CleanStage, CleanIn, Task
  <2> QED
    BY <2>3, <2>4
<1>11. ASSUME NEW f \in Files, NEW x \in {Absent, Blank, Broken}, UNCHANGED flow,
              file' = [file EXCEPT ![f] = x]
       PROVE  (\A h \in HookFiles : Clean(h) => Clean(h)') /\ Clean(f)'
  <2>1. file'[f] = x /\ \A h \in Files : h # f => file'[h] = file[h]
    BY <1>0, <1>11 DEF FileInv
  <2>2. Clean(f)'
    BY <2>1, Marked
  <2>3. HookFiles \subseteq Files
    BY DEF HookFiles, Files
  <2> QED
    BY <1>11, <2>1, <2>2, <2>3, StaysClean
<1>12. CASE Truncate
  <2>1. /\ ~Idle /\ stage = "truncate" /\ UNCHANGED <<flow, draft, installed, tasks>>
        /\ file' = [file EXCEPT ![Task.file] = Blank] /\ Task.file \in Files
    BY <1>0, <1>12, DraftsAreFiles DEF Truncate, host
  <2>2. CleanList' /\ CleanHost'
    BY <1>0, <1>1, <1>11, <2>1, CleanMoves
  <2> QED
    BY <1>1, <2>1, <2>2 DEF CleanInv, CleanStage, CleanIn, Task
<1>13. CASE Write
  <2>1. /\ ~Idle /\ stage = "write" /\ UNCHANGED <<flow, installed>> /\ tasks' = Tail(tasks)
        /\ stage' = "read" /\ file' = [file EXCEPT ![Task.file] = draft]
    BY <1>13 DEF Write, Finish, host
  <2>2. /\ Task \in FileTasks /\ Task.file \in Files
        /\ Task.op = "restore" => AgentOf(Task.file) \in flow.restored
        /\ Task.op = "remove" => CleanIn(Task.file, draft)
    BY <1>0, <1>1, <2>1, DraftsAreFiles DEF CleanStage
  <2>3. file'[Task.file] = draft /\ \A h \in Files : h # Task.file => file'[h] = file[h]
    BY <1>0, <2>1, <2>2 DEF FileInv
  <2>4. HookFiles \subseteq Files /\ "config" \notin HookFiles
    BY DEF HookFiles, Files
  <2>5. CASE Task.op \in {"remove", "restore"} \/ Task.file = "config"
    <3>1. ASSUME NEW h \in HookFiles, Clean(h) PROVE Clean(h)'
      <4>1. CASE h # Task.file
        BY <2>1, <2>3, <2>4, <3>1, <4>1, StaysClean
      <4>2. CASE h = Task.file /\ Task.op = "remove"
        BY <2>2, <2>3, <4>2 DEF Clean, CleanIn
      <4>3. CASE h = Task.file /\ Task.op = "restore"
        BY <2>1, <2>2, <4>3 DEF Clean, Named
      <4> QED
        BY <2>4, <2>5, <4>1, <4>2, <4>3
    <3>2. \A f \in HookFiles : Task.op = "remove" /\ Task.file = f => Clean(f)'
      BY <2>2, <2>3 DEF Clean, CleanIn
    <3> QED
      BY <1>0, <1>1, <2>1, <3>1, <3>2, CleanMoves DEF CleanInv, CleanStage
  <2>6. CASE Task.op \in {"hook", "rollback"}
    <3>1. /\ DOMAIN tasks = 1..Len(tasks) /\ Len(tasks) \in Nat /\ Len(tasks) > 0
          /\ Task = tasks[1] /\ DOMAIN tasks' = 1..Len(tasks') /\ Len(tasks') = Len(tasks) - 1
          /\ \A i \in 1..(Len(tasks) - 1) : tasks'[i] = tasks[i + 1]
      BY <1>0, <2>1, Rest
    <3>2. installed
      BY <1>1, <2>6, <3>1 DEF CleanHost
    <3>3. ASSUME NEW j \in DOMAIN tasks, tasks[j].op = "binaries" PROVE FALSE
      <4>1. j # 1 /\ 1 \in 1..(j - 1)
        BY <2>6, <3>1, <3>3
      <4> QED
        BY <1>1, <2>6, <3>1, <3>3, <4>1 DEF CleanList, Early
    <3>4. ASSUME NEW j \in DOMAIN tasks', tasks'[j].op = "binaries" PROVE FALSE
      <4>1. j + 1 \in DOMAIN tasks /\ tasks'[j] = tasks[j + 1]
        BY <3>1
      <4> QED
        BY <3>3, <3>4, <4>1
    <3> QED
      BY <1>1, <2>1, <3>2, <3>4 DEF CleanInv, CleanStage, CleanList, CleanHost
  <2>7. Task.op \in {"remove", "restore", "hook", "rollback"} \/ Task.file = "config"
    BY <2>2 DEF FileTasks, HookTasks, FlagTasks, CopyTasks
  <2> QED
    BY <2>5, <2>6, <2>7
<1>14. CASE TakeSnapshot \/ PurgeBackups
  <2>1. /\ ~Idle /\ Task.op \in {"snapshot", "purge"} /\ UNCHANGED <<file, flow, installed>>
        /\ tasks' = Tail(tasks) /\ stage' = "read"
    BY <1>14 DEF TakeSnapshot, PurgeBackups, Doing, Finish, host
  <2> QED
    BY <1>3, <2>1
<1>15. CASE SelfTest
  <2>1. /\ ~Idle /\ Task.op = "selftest" /\ UNCHANGED <<file, flow, installed, kept>> /\ stage' = "read"
    BY <1>15 DEF SelfTest, Doing, Finish, Fail, host
  <2>2. CASE tasks' \in {Tail(tasks), <<>>}
    BY <1>3, <2>1, <2>2
  <2>3. CASE tasks' = Append(Rollback, [Last(tasks) EXCEPT !.file.kind = "rollback"])
    <3>1. ListInv' /\ Kind' = "rollback"
      BY <1>0, <2>1, <2>3, ListRollsBack
    <3>2. ASSUME NEW j \in DOMAIN tasks' PROVE tasks'[j].op \in {"rollback", "end"}
      <4>1. tasks' \in Seq(Tasks) /\ Len(tasks') \in Nat /\ DOMAIN tasks' = 1..Len(tasks')
        BY <3>1 DEF ListInv
      <4>2. /\ Last(tasks') = tasks'[Len(tasks')] /\ Last(tasks') \in EndTasks
            /\ \A i \in 1..(Len(tasks') - 1) : tasks'[i].op = "rollback"
        BY <3>1, <3>2, <4>1 DEF ListInv, Last, Idle
      <4>3. Last(tasks').op = "end"
        BY <4>2, TaskKinds DEF Tasks
      <4> QED
        BY <4>1, <4>2, <4>3
    <3>3. installed
      <4>1. 1 \in DOMAIN tasks /\ Task = tasks[1]
        BY <1>0, <2>1, Rest
      <4> QED
        BY <1>1, <2>1, <4>1 DEF CleanHost
    <3> QED
      BY <2>1, <3>2, <3>3 DEF CleanInv, CleanStage, CleanList, CleanHost
  <2> QED
    BY <1>15, <2>2, <2>3 DEF SelfTest, Finish, Fail
<1>16. CASE ReadToRollBack
  <2>1. ~Idle /\ Task.op = "rollback" /\ UNCHANGED <<flow, installed>> /\ Task.file \in Files
    BY <1>0, <1>16, DraftsAreFiles DEF ReadToRollBack, Doing, host
  <2>2. CASE kept[Task.file] = Absent
    <3>1. file' = [file EXCEPT ![Task.file] = Absent] /\ tasks' = Tail(tasks) /\ stage' = "read"
      BY <1>16, <2>2 DEF ReadToRollBack, Finish
    <3>2. CleanList' /\ CleanHost'
      BY <1>0, <1>1, <1>11, <2>1, <3>1, CleanMoves
    <3> QED
      BY <1>1, <2>1, <3>1, <3>2 DEF CleanInv, CleanStage
  <2>3. CASE kept[Task.file] # Absent
    <3>1. UNCHANGED <<file, tasks>>
      BY <1>16, <2>3 DEF ReadToRollBack
    <3> QED
      BY <1>3, <2>1, <3>1
  <2> QED
    BY <2>2, <2>3
<1>17. CASE End
  <2>1. /\ ~Idle /\ tasks' = <<>> /\ UNCHANGED <<file, flow, installed>>
    BY <1>17 DEF End, Doing, host
  <2>2. CleanList' /\ CleanHost'
    BY <1>0, <1>1, <1>2, <2>1, CleanMoves
  <2> QED
    BY <1>1, <2>1, <2>2 DEF CleanInv, CleanStage, Idle
<1>18. CASE Abort
  <2>1. ~Idle /\ tasks' = <<>> /\ stage' = "read" /\ UNCHANGED <<flow, installed>>
    BY <1>18 DEF Abort, Fail, host
  <2>2. \A f \in HookFiles : Clean(f) => Clean(f)'
    <3>1. CASE UNCHANGED file
      BY <1>2, <2>1, <3>1
    <3>2. CASE stage = "write" /\ file' = [file EXCEPT ![Task.file] = Broken]
      <4>1. Task.file \in Files
        BY <1>0, <2>1, <3>2, DraftsAreFiles
      <4> QED
        BY <1>11, <2>1, <3>2, <4>1
    <3> QED
      BY <1>18, <3>1, <3>2 DEF Abort
  <2>3. CleanList' /\ CleanHost'
    BY <1>0, <1>1, <2>1, <2>2, CleanMoves
  <2> QED
    BY <1>1, <2>1, <2>3 DEF CleanInv, CleanStage
<1>19. CASE Edit
  <2>1. UNCHANGED <<flow, installed, tasks, stage, draft>>
    BY <1>19 DEF Edit, host
  <2>2. \A f \in HookFiles : Clean(f) => Clean(f)'
    BY <1>0, <1>19, EditKeepsClean
  <2> QED
    BY <1>1, <2>1, <2>2 DEF CleanInv, CleanStage, CleanList, CleanHost, CleanIn, Task, Idle
<1>20. CASE UNCHANGED vars
  <2>1. UNCHANGED <<file, flow, installed, tasks, stage, draft>>
    BY <1>20 DEF vars, work, host
  <2>2. \A f \in HookFiles : Clean(f) => Clean(f)'
    BY <1>2, <2>1
  <2> QED
    BY <1>1, <2>1, <2>2 DEF CleanInv, CleanStage, CleanList, CleanHost, CleanIn, Task, Idle
<1> QED
  BY <1>4, <1>5, <1>6, <1>7, <1>8, <1>9, <1>10, <1>12, <1>13, <1>14, <1>15, <1>16, <1>17, <1>18,
     <1>19, <1>20 DEF Next, Steps, Aside

\* NoDanglingHook: `uninstall`, whatever it is to take away, takes every Gommage
\* hook out of the files of the agents it names, from both places of Codex's,
\* before it removes the binaries, however edits come between and wherever a
\* failure ends it.  Only what a restore put back may hold one.
THEOREM NoHookDangles == Spec => []NoDanglingHook
<1>1. CleanInv => NoDanglingHook
  <2> SUFFICES ASSUME CleanInv, ~installed, NEW f \in Files,
                      AgentOf(f) \in flow.agents \ flow.restored, IsDocument(f),
                      NEW g \in GroupsOf(f, file[f])
               PROVE  ~g.gommage
    BY DEF NoDanglingHook, HookFree
  <2>1. CASE f = "config"
    BY <2>1 DEF GroupsOf
  <2>2. CASE f \in HookFiles
    BY <2>2 DEF CleanInv, CleanHost, Clean, CleanIn, Named
  <2> QED
    BY <2>1, <2>2, Kinds
<1> QED
  BY <1>1, InitShape, InitClean, NextShape, NextClean, PTL DEF Spec

---------------------------------------------------------------------------
(* The plan and the reports change nothing *)

\* `quickstart --dry-run` and `agent status` only read: with the plan beside it
\* every step of SetupReports is a step of HostSetup or none, so that the
\* theorems above are about RSpec too.
THEOREM ReportsOnlyRead == RSpec => Spec
<1>1. RInit => Init
  BY DEF RInit
<1>2. [RNext]_rvars => [Next]_vars
  BY DEF RNext, PlannedQuickstart, OtherCommand, Continue, Next, rvars
<1> QED
  BY <1>1, <1>2, PTL DEF RSpec, Spec

---------------------------------------------------------------------------
(* What an install puts into a document, and what the readers make of it *)

Wanted(a, doc) == IF a = "claude" THEN Matcher(doc) ELSE Tools

\* The hook is where the reader looks, with the tools it asks for, and is the
\* only one; with --replace-hooks it is the only group.
Hooked(a, doc, replace) ==
  LET our == OurGroup(Wanted(a, doc)) IN
    /\ our \in HooksAt(a, doc)
    /\ \A g \in HooksAt(a, doc) : g.gommage \/ replace => g = our

\* existing_hook_group_plans and permission_import_plan, of a document as it is now.
FitsPlan(a, doc, plan, end) ==
  /\ plan.hook.preserved = IF end.replace THEN {} ELSE Others(HooksAt(a, doc))
  /\ plan.matcher = Wanted(a, doc)
  /\ plan.would_write = {f \in Files : AgentOf(f) = a}
  /\ plan.import = IF a = "codex" THEN "not_supported"
                   ELSE IF ~end.import THEN "skipped_disabled"
                   ELSE IF doc.allow \in {None, {}} THEN "skipped_no_importable_rules"
                   ELSE IF plan.imports = None THEN "would_write"
                   ELSE IF end.replace THEN "would_replace" ELSE "would_preserve"

\* What the plan makes of the imported rules.
AfterImport(plan, doc) ==
  IF plan.import \in {"would_write", "would_replace"} THEN doc.allow ELSE plan.imports

LEMMA InstalledIs ==
  ASSUME NEW groups, NEW tools, NEW replace \in BOOLEAN
  PROVE  LET new == Installed(groups, replace, tools)
             our == OurGroup(tools) IN
         /\ our \in new /\ \A g \in new : g.gommage \/ replace => g = our
         /\ ~replace => Others(new) = Others(groups)
<1>1. OurGroup(tools).gommage = TRUE
  BY DEF OurGroup
<1>2. \A g \in Others(groups) : ~g.gommage
  BY DEF Others
<1>3. CASE replace
  BY <1>3 DEF Installed
<1>4. CASE ~replace
  <2>1. Installed(groups, replace, tools) = Others(groups) \union {OurGroup(tools)}
    BY <1>4 DEF Installed
  <2>2. \A g : g \in Others(Others(groups) \union {OurGroup(tools)}) <=> g \in Others(groups)
    BY <1>1 DEF Others
  <2> QED
    BY <1>2, <1>4, <2>1, <2>2
<1> QED
  BY <1>3, <1>4

\* WithHook writes where HooksAt reads.
LEMMA HookIsRead ==
  ASSUME NEW a \in Agents, NEW doc \in Contents[PlaceOf(a)], NEW replace \in BOOLEAN
  PROVE  LET new == WithHook(PlaceOf(a), doc, replace) IN
         /\ HooksAt(a, new) = Installed(HooksAt(a, doc), replace, Wanted(a, doc))
         /\ a = "claude" => new.allow = doc.allow
<1>1. CASE a = "claude"
  <2>1. PlaceOf(a) = "settings" /\ doc \in [groups : SUBSET Group, allow : {None} \union SUBSET Tools]
    BY <1>1, Kinds DEF PlaceOf
  <2> DEFINE groups == Installed(doc.groups, replace, Matcher(doc))
             new == [doc EXCEPT !.groups = groups]
  <2>2. WithHook(PlaceOf(a), doc, replace) = new
    BY <2>1 DEF WithHook
  <2> HIDE DEF groups
  <2>3. new.groups = groups /\ new.allow = doc.allow
    BY <2>1
  <2> HIDE DEF new
  <2> QED
    BY <1>1, <2>2, <2>3 DEF HooksAt, Wanted, groups
<1>2. CASE a = "codex"
  <2> DEFINE p == Primary(doc)
             groups == Installed(OrEmpty(doc[p]), replace, Tools)
             new == [doc EXCEPT ![p] = groups]
  <2>1. PlaceOf(a) = "hooks"
        /\ doc \in [nested : {None} \union SUBSET Group, top : {None} \union SUBSET Group]
    BY <1>2, Kinds DEF PlaceOf
  <2>2. WithHook(PlaceOf(a), doc, replace) = new
    BY <2>1 DEF WithHook
  <2>3. groups # None /\ p \in {"nested", "top"} /\ (p = "nested" <=> doc.nested # None)
    <3>1. p \in {"nested", "top"} /\ (p = "nested" <=> doc.nested # None)
      BY DEF Primary
    <3>2. OrEmpty(doc[p]) \in SUBSET Group
      BY <2>1, <3>1 DEF OrEmpty
    <3>3. OurGroup(Tools) \in Group
      BY DEF OurGroup, Group
    <3>4. groups \in SUBSET Group
      BY <3>2, <3>3 DEF Installed, Others
    <3> QED
      BY <3>1, <3>4, MarksAreNoDocuments
  <2> HIDE DEF groups, p
  <2>4. new[p] = groups /\ (p = "top" => new.nested = doc.nested)
    BY <2>1, <2>3
  <2>5. Primary(new) = p
    BY <2>3, <2>4 DEF Primary
  <2>6. HooksAt(a, new) = OrEmpty(groups)
    BY <1>2, <2>4, <2>5 DEF HooksAt
  <2>7. HooksAt(a, new) = groups
    BY <2>3, <2>6 DEF OrEmpty
  <2> HIDE DEF new
  <2> QED
    BY <1>2, <2>2, <2>7 DEF HooksAt, Wanted, groups, p
<1> QED
  BY <1>1, <1>2 DEF Agents

LEMMA HookInstalls ==
  ASSUME NEW a \in Agents, NEW doc \in Contents[PlaceOf(a)], NEW replace \in BOOLEAN
  PROVE  LET new == WithHook(PlaceOf(a), doc, replace) IN
         /\ Hooked(a, new, replace)
         /\ Wanted(a, new) = Wanted(a, doc)
         /\ ~replace => Others(HooksAt(a, new)) = Others(HooksAt(a, doc))
         /\ a = "claude" => new.allow = doc.allow /\ Matcher(new) = Matcher(doc)
<1> DEFINE new == WithHook(PlaceOf(a), doc, replace)
<1>1. /\ HooksAt(a, new) = Installed(HooksAt(a, doc), replace, Wanted(a, doc))
      /\ a = "claude" => new.allow = doc.allow
  BY HookIsRead
<1> HIDE DEF new
<1>2. a = "claude" => Matcher(new) = Matcher(doc)
  BY <1>1 DEF Matcher
<1>3. Wanted(a, new) = Wanted(a, doc)
  BY <1>2 DEF Wanted
<1> QED
  BY <1>1, <1>2, <1>3, InstalledIs DEF Hooked, new

\* What is written fits the plan as what was read did.
LEMMA HookFits ==
  ASSUME NEW a \in Agents, NEW plan, NEW doc \in Contents[PlaceOf(a)], NEW end \in Reports,
         FitsPlan(a, doc, plan, end)
  PROVE  FitsPlan(a, WithHook(PlaceOf(a), doc, end.replace), plan, end)
<1> DEFINE new == WithHook(PlaceOf(a), doc, end.replace)
<1>1. /\ ~end.replace => Others(HooksAt(a, new)) = Others(HooksAt(a, doc))
      /\ Wanted(a, new) = Wanted(a, doc)
      /\ a = "claude" => new.allow = doc.allow
  <2>1. end.replace \in BOOLEAN
    BY DEF Reports
  <2> QED
    BY <2>1, HookInstalls
<1> HIDE DEF new
<1> QED
  BY <1>1 DEF FitsPlan, Agents, new

\* Once more, an import changes nothing; the first time it does what the plan says.
LEMMA ImportFits ==
  ASSUME NEW doc \in Contents["settings"], NEW plan, NEW end \in Reports, end.import,
         FitsPlan("claude", doc, plan, end), imports \in {plan.imports, AfterImport(plan, doc)}
  PROVE  Imported(doc, end.replace) = AfterImport(plan, doc)
<1>1. doc.allow \in {None} \union SUBSET Tools
  BY Kinds
<1>2. doc.allow \in SUBSET Tools => doc.allow # None
  BY MarksAreNoDocuments
<1>3. plan.import = IF doc.allow \in {None, {}} THEN "skipped_no_importable_rules"
                    ELSE IF plan.imports = None THEN "would_write"
                    ELSE IF end.replace THEN "would_replace" ELSE "would_preserve"
  BY DEF FitsPlan
<1> QED
  BY <1>1, <1>2, <1>3 DEF Imported, ImportOf, AfterImport

---------------------------------------------------------------------------
(* What a setup under way still has to do, and what it has done *)

SetupOps ==
  {"snapshot", "posture", "hook", "enable", "context", "service", "policy", "selftest"}
WriteOps == {"hook", "enable"}

FilesOf(end) == {f \in Files : AgentOf(f) \in end.agents}

\* A file as a setup leaves it.
DoneDoc(f, doc, rules, end) ==
  /\ f = "settings" =>
       /\ Matcher(doc) # {} => Hooked("claude", doc, end.replace)
       /\ end.import => doc.allow \in {None, {}} \/ rules # None
  /\ f = "hooks" => Hooked("codex", doc, end.replace)
  /\ f = "config" => doc.hooks = TRUE

Done(f, end) ==
  /\ Readable(f) /\ DoneDoc(f, Document(f), imports, end)
  /\ f = "config" => IsDocument(f)

Ahead(f) == \E i \in 1..(Len(tasks) - 1) : tasks[i].op \in WriteOps /\ tasks[i].file = f

SetupTask(t, end) ==
  /\ t.op \in SetupOps
  /\ t.op \in WriteOps => AgentOf(t.file) \in end.agents
  /\ t.op = "hook" => t.replace = end.replace
  /\ t.import => t.op = "hook" /\ t.file = "settings"
  /\ t.op = "hook" /\ t.file = "settings" => t.import = end.import

SetupFor(end) ==
  /\ \A i \in 1..(Len(tasks) - 1) : SetupTask(tasks[i], end)
  /\ \A f \in FilesOf(end) : Ahead(f) \/ Done(f, end)
  /\ stage # "read" => /\ draft \in Contents[Task.file]
                       /\ DoneDoc(Task.file, draft, imports, end)

\* Claude's hook task is still to read its file.
Importing(t) == t.op = "hook" /\ t.file = "settings"
Unread == \E i \in 1..(Len(tasks) - 1) : Importing(tasks[i]) /\ (i > 1 \/ stage = "read")

Setups == {"install", "quickstart"}

\* Every file of the agents is to be written or is as it should be.
SetupInv ==
  \A end \in Reports :
    ~Idle /\ ~raced /\ Last(tasks).file = end /\ end.kind \in Setups => SetupFor(end)

\* How a setup goes on.
Beside == Task.op \notin WriteOps /\ stage = "read" /\ tasks' = Tail(tasks) /\ UNCHANGED <<file, imports>>
Skipped ==
  /\ stage = "read" /\ Task.op = "hook" /\ Task.file = "settings"
  /\ Readable("settings") /\ Matcher(Document("settings")) = {}
  /\ tasks' = Tail(tasks) /\ UNCHANGED file
  /\ imports' = IF Task.import THEN Imported(Document(Task.file), Task.replace) ELSE imports
Drafted ==
  /\ stage = "read" /\ stage' = "backup" /\ Task.op \in WriteOps /\ Readable(Task.file)
  /\ draft' = IF Task.file = "config" THEN [Document(Task.file) EXCEPT !.hooks = TRUE]
              ELSE WithHook(Task.file, Document(Task.file), Task.replace)
  /\ imports' = IF Task.import THEN Imported(Document(Task.file), Task.replace) ELSE imports
  /\ UNCHANGED <<tasks, file>>
Same ==
  /\ stage = "backup" /\ file[Task.file] = draft
  /\ tasks' = Tail(tasks) /\ UNCHANGED <<file, imports>>
Copied == stage = "backup" /\ stage' = "truncate" /\ UNCHANGED <<tasks, file, imports, draft>>

LEMMA SetupGoesOn ==
  ASSUME Shape, NEW end \in Reports, ~Idle, Last(tasks).file = end, end.kind \in Setups,
         \A i \in 1..(Len(tasks) - 1) : SetupTask(tasks[i], end),
         Next, ~raced', ~Idle', Last(tasks').file = end
  PROVE  /\ \/ stage' = "read" /\ (Beside \/ Skipped \/ Same \/ Write)
            \/ Drafted \/ Copied \/ Truncate
         /\ SetupTask(Task, end) /\ 1 \in 1..(Len(tasks) - 1) /\ Task = tasks[1]
         /\ Task.op \in WriteOps => Task.file \in Files
         /\ stage # "read" => Task.op \in WriteOps
<1>0. FileInv /\ ListInv /\ StageInv
  BY DEF Shape
<1>1. Task.op # "end"
  <2> SUFFICES ASSUME Task.op = "end" PROVE FALSE
    OBVIOUS
  <2>1. stage = "read"
    BY <1>0, Rest, TaskKinds DEF StageInv
  <2>2. ~Edit /\ ~End /\ ~Abort
    BY DEF Edit, End, Abort, Fail, Idle
  <2>3. ~(Install \/ Uninstall \/ Quickstart)
    BY Beginnings DEF Begin
  <2>4. ~Aside
    BY AsideMoves
  <2> QED
    BY <2>1, <2>2, <2>3, <2>4 DEF Next, Steps, Aside, Doing, ReadToInstall, ReadToRemove,
       ReadToDisable, ReadToRestore, Backup, Truncate, Write, TakeSnapshot, SelfTest,
       ReadToRollBack, PurgeBackups
<1>2. /\ 1 \in 1..(Len(tasks) - 1) /\ Task = tasks[1] /\ Task \in InnerTasks /\ Task \in Tasks
      /\ SetupTask(Task, end)
  <2>1. Len(tasks) > 1 /\ Task \in InnerTasks
    BY <1>0, <1>1, EndIsLast
  <2>2. 1 \in 1..(Len(tasks) - 1) /\ Task = tasks[1]
    BY <1>0, <2>1, Rest
  <2> QED
    BY <2>1, <2>2 DEF Tasks
<1>3. Task.op \in SetupOps
  BY <1>2 DEF SetupTask
<1>4. Task.op \in WriteOps => Task.file \in Files
  BY <1>2, TaskKinds DEF WriteOps, HookFiles, Files
<1>5. stage # "read" => Task.op \in WriteOps
  BY <1>0, <1>3 DEF StageInv, FileTasks, HookTasks, FlagTasks, CopyTasks, SetupOps, WriteOps
<1>6. tasks' # <<>>
  BY DEF Idle
<1>7. ~Edit /\ ~End /\ ~Abort
  BY <1>6 DEF Edit, End, Abort, Fail
<1>8. ~(Install \/ Uninstall \/ Quickstart)
  BY Beginnings DEF Begin
<1>9. CASE Aside
  <2>1. /\ Task.op \in {"posture", "context", "policy", "service"} /\ stage' = "read"
        /\ tasks' = Tail(tasks) /\ UNCHANGED file
    BY <1>3, <1>6, <1>9, AsideMoves DEF SetupOps
  <2>2. UNCHANGED imports
    BY <1>9, <2>1 DEF Aside, Posture, WriteContext, LoadPolicy, InstallService, RemoveService,
       PurgeHome, RemoveBinaries, Doing, host
  <2>3. Task.op \notin WriteOps
    BY <2>1 DEF WriteOps
  <2> QED
    BY <1>2, <1>4, <1>5, <2>1, <2>2, <2>3 DEF Beside
<1>10. CASE TakeSnapshot \/ SelfTest
  <2>1. Task.op \in {"snapshot", "selftest"} /\ UNCHANGED <<file, imports>> /\ stage' = "read"
    BY <1>10 DEF TakeSnapshot, SelfTest, Doing, Finish, Fail, host
  <2>2. tasks' = Tail(tasks)
    <3>1. CASE tasks' = Append(Rollback, [Last(tasks) EXCEPT !.file.kind = "rollback"]) /\ SelfTest
      <4>1. kept' = kept
        BY <3>1 DEF SelfTest
      <4>2. Kind' = "rollback"
        BY <1>0, <3>1, <4>1, ListRollsBack
      <4> QED
        BY <4>2 DEF Kind, Setups
    <3> QED
      BY <1>6, <1>10, <3>1 DEF TakeSnapshot, SelfTest, Finish, Fail
  <2>3. Task.op \notin WriteOps
    BY <2>1 DEF WriteOps
  <2> QED
    BY <1>2, <1>4, <1>5, <2>1, <2>2, <2>3 DEF Beside
<1>11. CASE ReadToInstall
  <2>1. Task.op \in WriteOps /\ stage = "read" /\ UNCHANGED file /\ Readable(Task.file)
    BY <1>6, <1>11 DEF ReadToInstall, Doing, WriteOps, Fail
  <2>2. imports' = IF Task.import THEN Imported(Document(Task.file), Task.replace) ELSE imports
    BY <1>11, <2>1 DEF ReadToInstall
  <2>3. CASE Task.file = "settings" /\ Matcher(Document(Task.file)) = {}
    <3>1. tasks' = Tail(tasks) /\ stage' = "read"
      BY <1>6, <1>11, <2>1, <2>3 DEF ReadToInstall, Finish, Fail
    <3>2. Task.op = "hook"
      BY <1>2, <2>1, <2>3, TaskKinds DEF WriteOps
    <3> QED
      BY <1>2, <1>4, <1>5, <2>1, <2>2, <2>3, <3>1, <3>2 DEF Skipped
  <2>4. CASE ~(Task.file = "settings" /\ Matcher(Document(Task.file)) = {})
    <3>1. /\ stage' = "backup" /\ UNCHANGED tasks
          /\ draft' = IF Task.file = "config" THEN [Document(Task.file) EXCEPT !.hooks = TRUE]
                      ELSE WithHook(Task.file, Document(Task.file), Task.replace)
      BY <1>6, <1>11, <2>1, <2>4 DEF ReadToInstall, Fail
    <3> QED
      BY <1>2, <1>4, <1>5, <2>1, <2>2, <3>1 DEF Drafted
  <2> QED
    BY <2>3, <2>4
<1>12. CASE Backup
  <2>1. UNCHANGED <<file, imports, draft>> /\ stage = "backup"
    BY <1>12 DEF Backup, host
  <2>2. CASE file[Task.file] = draft
    BY <1>2, <1>4, <1>5, <1>12, <2>1, <2>2 DEF Backup, Finish, Same
  <2>3. CASE file[Task.file] # draft
    BY <1>2, <1>4, <1>5, <1>12, <2>1, <2>3 DEF Backup, Copied
  <2> QED
    BY <2>2, <2>3
<1>13. CASE Truncate
  BY <1>2, <1>4, <1>5, <1>13
<1>14. CASE Write
  <2>1. stage' = "read"
    BY <1>14 DEF Write, Finish
  <2> QED
    BY <1>2, <1>4, <1>5, <1>14, <2>1
<1>15. ~(ReadToRemove \/ ReadToDisable \/ ReadToRestore \/ ReadToRollBack \/ PurgeBackups)
  BY <1>3 DEF ReadToRemove, ReadToDisable, ReadToRestore, ReadToRollBack, PurgeBackups, Doing,
     SetupOps
<1> QED
  BY <1>7, <1>8, <1>9, <1>10, <1>11, <1>12, <1>13, <1>14, <1>15 DEF Next, Steps, Aside


\* A list that has gone on: the tasks ahead are the ones that were, but the first.
LEMMA SetupTail ==
  ASSUME ListInv, ~Idle, 1 \in 1..(Len(tasks) - 1), tasks' = Tail(tasks), NEW end
  PROVE  /\ (\A i \in 1..(Len(tasks) - 1) : SetupTask(tasks[i], end)) =>
              \A i \in 1..(Len(tasks') - 1) : SetupTask(tasks'[i], end)
         /\ \A f : Ahead(f) => Ahead(f)' \/ (Task.op \in WriteOps /\ Task.file = f)
         /\ stage' = "read" /\ Unread /\ (stage = "read" => ~Importing(Task)) => Unread'
<1>1. /\ Len(tasks) \in Nat /\ Task = tasks[1] /\ Len(tasks') = Len(tasks) - 1
      /\ \A i \in 1..(Len(tasks) - 1) : tasks'[i] = tasks[i + 1]
  BY Rest
<1>2. \A i \in 1..(Len(tasks') - 1) : i + 1 \in 1..(Len(tasks) - 1) /\ tasks'[i] = tasks[i + 1]
  BY <1>1
<1>3. ASSUME NEW i \in 1..(Len(tasks) - 1), i # 1
      PROVE  i - 1 \in 1..(Len(tasks') - 1) /\ tasks'[i - 1] = tasks[i]
  <2>1. i - 1 \in 1..(Len(tasks) - 1) /\ i - 1 \in 1..(Len(tasks') - 1) /\ (i - 1) + 1 = i
    BY <1>1, <1>3
  <2> QED
    BY <1>1, <2>1
<1>4. ASSUME NEW f, Ahead(f) PROVE Ahead(f)' \/ (Task.op \in WriteOps /\ Task.file = f)
  <2>1. PICK i \in 1..(Len(tasks) - 1) : tasks[i].op \in WriteOps /\ tasks[i].file = f
    BY <1>4 DEF Ahead
  <2>2. CASE i = 1
    BY <1>1, <2>1, <2>2
  <2>3. CASE i # 1
    BY <1>3, <2>1, <2>3 DEF Ahead
  <2> QED
    BY <2>2, <2>3
<1>5. ASSUME stage' = "read", Unread, stage = "read" => ~Importing(Task) PROVE Unread'
  <2>1. PICK i \in 1..(Len(tasks) - 1) : Importing(tasks[i]) /\ (i > 1 \/ stage = "read")
    BY <1>5 DEF Unread
  <2>2. i # 1
    BY <1>1, <1>5, <2>1
  <2>3. i - 1 \in 1..(Len(tasks') - 1) /\ Importing(tasks'[i - 1])
    BY <1>3, <2>1, <2>2
  <2> QED
    BY <1>5, <2>3 DEF Unread
<1> QED
  BY <1>2, <1>4, <1>5

\* Imported rules stay.
LEMMA ImportsStay ==
  ASSUME NEW doc \in Contents["settings"], NEW replace \in BOOLEAN
  PROVE  /\ imports # None => Imported(doc, replace) # None
         /\ doc.allow \in {None, {}} \/ Imported(doc, replace) # None
<1>1. doc.allow \in {None} \union SUBSET Tools
  BY Kinds
<1>2. doc.allow \in SUBSET Tools => doc.allow # None
  BY MarksAreNoDocuments
<1> QED
  BY <1>1, <1>2 DEF Imported, ImportOf

LEMMA DoneStays ==
  ASSUME NEW f, NEW doc, NEW rules, NEW later, NEW end, DoneDoc(f, doc, rules, end),
         rules # None => later # None
  PROVE  DoneDoc(f, doc, later, end)
  BY DEF DoneDoc

\* What becomes of the imported rules.
LEMMA ImportsMove ==
  ASSUME Shape, NEW end, ~Idle, SetupTask(Task, end), Task.op \in WriteOps, Readable(Task.file),
         imports' = IF Task.import THEN Imported(Document(Task.file), Task.replace) ELSE imports
  PROVE  /\ imports # None => imports' # None
         /\ Task.op = "hook" /\ Task.file = "settings" /\ end.import =>
              Document("settings").allow \in {None, {}} \/ imports' # None
<1>0. FileInv /\ ListInv /\ StageInv
  BY DEF Shape
<1>1. CASE Task.op = "hook" /\ Task.file = "settings"
  <2>1. Task.replace \in BOOLEAN /\ "settings" \in Files
    BY <1>0, Rest, TaskKinds DEF Files
  <2>2. Document("settings") \in Contents["settings"]
    BY <1>0, <1>1, <2>1, DocumentHasItsShape
  <2>3. /\ imports # None => Imported(Document("settings"), Task.replace) # None
        /\ Document("settings").allow \in {None, {}}
             \/ Imported(Document("settings"), Task.replace) # None
    BY <2>1, <2>2, ImportsStay
  <2> QED
    BY <1>1, <2>3 DEF SetupTask
<1>2. CASE ~(Task.op = "hook" /\ Task.file = "settings")
  BY <1>2 DEF SetupTask
<1> QED
  BY <1>1, <1>2

\* What an install is about to write is what a finished setup has.
LEMMA DraftIsDone ==
  ASSUME Shape, NEW end \in Reports, ~Idle, SetupTask(Task, end), Drafted
  PROVE  draft' \in Contents[Task.file] /\ DoneDoc(Task.file, draft', imports', end)
<1>0. FileInv /\ ListInv /\ StageInv
  BY DEF Shape
<1>1. Task.op \in WriteOps /\ Readable(Task.file)
  BY DEF Drafted
<1>2. /\ Task.op = "hook" => Task.file \in HookFiles /\ Task.replace = end.replace
      /\ Task.op = "enable" => Task.file = "config"
      /\ Task.file \in Files /\ Task.replace \in BOOLEAN
  BY <1>0, <1>1, Rest, TaskKinds DEF SetupTask, WriteOps, HookFiles, Files
<1> DEFINE doc == Document(Task.file)
<1>3. doc \in Contents[Task.file]
  BY <1>0, <1>1, <1>2, DocumentHasItsShape
<1>4. CASE Task.op = "enable"
  <2>1. draft' = [doc EXCEPT !.hooks = TRUE] /\ Task.file = "config"
    BY <1>2, <1>4 DEF Drafted
  <2> HIDE DEF doc
  <2>2. doc \in [hooks : {None} \union BOOLEAN, legacy : {None} \union BOOLEAN]
    BY <1>3, <2>1, Kinds
  <2>3. /\ draft' \in [hooks : {None} \union BOOLEAN, legacy : {None} \union BOOLEAN]
        /\ draft'.hooks = TRUE
    BY <2>1, <2>2
  <2> QED
    BY <2>1, <2>3, Kinds DEF DoneDoc
<1>5. CASE Task.op = "hook"
  <2>1. Task.file \in HookFiles /\ Task.file # "config"
    BY <1>2, <1>5 DEF HookFiles
  <2>2. draft' = WithHook(Task.file, doc, end.replace)
    BY <1>2, <1>5, <2>1 DEF Drafted
  <2> HIDE DEF doc
  <2>3. draft' \in Contents[Task.file]
    BY <1>2, <1>3, <1>5, <2>1, <2>2, HookedHasItsShape
  <2> DEFINE a == IF Task.file = "settings" THEN "claude" ELSE "codex"
  <2>4. a \in Agents /\ PlaceOf(a) = Task.file /\ end.replace \in BOOLEAN
    BY <1>2, <1>5, <2>1 DEF Agents, PlaceOf, HookFiles
  <2> HIDE DEF a
  <2>5. /\ Hooked(a, draft', end.replace)
        /\ a = "claude" => draft'.allow = doc.allow
    BY <1>3, <2>2, <2>4, HookInstalls
  <2>6. Task.file = "settings" /\ end.import =>
          doc.allow \in {None, {}} \/ imports' # None
    <3>1. imports' = IF Task.import THEN Imported(Document(Task.file), Task.replace) ELSE imports
      BY DEF Drafted
    <3> QED
      BY <1>1, <1>5, <3>1, ImportsMove DEF doc
  <2>7. Task.file = "settings" => a = "claude"
    BY DEF a
  <2>8. Task.file = "hooks" => a = "codex"
    BY DEF a
  <2> QED
    BY <2>1, <2>3, <2>5, <2>6, <2>7, <2>8 DEF DoneDoc
<1> QED
  BY <1>1, <1>4, <1>5 DEF WriteOps

\* A file that is as it should be stays so while other files are written.
LEMMA DoneFileStays ==
  ASSUME NEW f, NEW end, Done(f, end), file'[f] = file[f], imports # None => imports' # None
  PROVE  Done(f, end)'
<1>1. UNCHANGED <<Document(f), Readable(f), IsDocument(f)>>
  BY DEF Document, Readable, IsDocument
<1>2. DoneDoc(f, Document(f), imports', end)
  BY DoneStays DEF Done
<1> QED
  BY <1>1, <1>2 DEF Done

\* A draft that is in its file makes the file as it should be.
LEMMA WrittenIsDone ==
  ASSUME NEW f \in Files, NEW end, file'[f] = draft, UNCHANGED imports, draft \in Contents[f],
         DoneDoc(f, draft, imports, end)
  PROVE  Done(f, end)' /\ Document(f)' = draft
<1>1. draft \notin {Absent, Blank, Broken, None}
  BY DocumentsAreUnmarked
<1>2. Document(f)' = draft /\ Readable(f)' /\ IsDocument(f)'
  BY <1>1 DEF Document, Readable, IsDocument
<1> QED
  BY <1>2 DEF Done

LEMMA SetupStays ==
  ASSUME Shape, NEW end \in Reports, ~Idle, Last(tasks).file = end, end.kind \in Setups,
         SetupFor(end), Next, ~raced', ~Idle', Last(tasks').file = end
  PROVE  SetupFor(end)'
<1>0. FileInv /\ ListInv /\ StageInv
  BY DEF Shape
<1>1. \A i \in 1..(Len(tasks) - 1) : SetupTask(tasks[i], end)
  BY DEF SetupFor
<1>2. /\ \/ stage' = "read" /\ (Beside \/ Skipped \/ Same \/ Write)
         \/ Drafted \/ Copied \/ Truncate
      /\ SetupTask(Task, end) /\ 1 \in 1..(Len(tasks) - 1) /\ Task = tasks[1]
      /\ Task.op \in WriteOps => Task.file \in Files
      /\ stage # "read" => Task.op \in WriteOps
  BY <1>1, SetupGoesOn
<1>3. \A f \in FilesOf(end) : f \in Files
  BY DEF FilesOf
<1>4. stage # "read" => /\ draft \in Contents[Task.file]
                        /\ DoneDoc(Task.file, draft, imports, end)
  BY DEF SetupFor
\* A name for the file that does not change with the list.
<1>5. PICK mine : mine = Task.file
  OBVIOUS
\* The list goes on.
<1>6. ASSUME tasks' = Tail(tasks), stage' = "read", imports # None => imports' # None,
             \A f \in Files : f # Task.file \/ Task.op \notin WriteOps => file'[f] = file[f],
             Task.op \in WriteOps => Done(mine, end)'
      PROVE  SetupFor(end)'
  <2>1. /\ \A i \in 1..(Len(tasks') - 1) : SetupTask(tasks'[i], end)
        /\ \A f : Ahead(f) => Ahead(f)' \/ (Task.op \in WriteOps /\ Task.file = f)
    BY <1>0, <1>1, <1>2, <1>6, SetupTail
  <2>2. ASSUME NEW f \in FilesOf(end) PROVE Ahead(f)' \/ Done(f, end)'
    <3>1. CASE Task.op \in WriteOps /\ Task.file = f
      BY <1>6, <1>5, <3>1
    <3>2. CASE ~(Task.op \in WriteOps /\ Task.file = f)
      <4>1. file'[f] = file[f]
        BY <1>3, <1>6, <3>2
      <4>2. Ahead(f) \/ Done(f, end)
        BY DEF SetupFor
      <4>3. Done(f, end) => Done(f, end)'
        BY <1>6, <4>1, DoneFileStays
      <4> QED
        BY <2>1, <3>2, <4>2, <4>3
    <3> QED
      BY <3>1, <3>2
  <2> QED
    BY <1>6, <2>1, <2>2 DEF SetupFor, FilesOf
\* The task goes on.
<1>7. ASSUME UNCHANGED tasks, imports # None => imports' # None,
             \A f \in Files : f # Task.file => file'[f] = file[f], Task.op \in WriteOps,
             draft' \in Contents[Task.file], DoneDoc(Task.file, draft', imports', end)
      PROVE  SetupFor(end)'
  <2>1. UNCHANGED Task /\ \A f : Ahead(f)' = Ahead(f)
    BY <1>7 DEF Task, Ahead
  <2>2. ASSUME NEW f \in FilesOf(end) PROVE Ahead(f)' \/ Done(f, end)'
    <3>1. CASE Task.file = f
      BY <1>2, <1>7, <2>1, <3>1 DEF Ahead
    <3>2. CASE Task.file # f
      <4>1. Done(f, end) => Done(f, end)'
        BY <1>3, <1>7, <3>2, DoneFileStays
      <4> QED
        BY <2>1, <4>1 DEF SetupFor
    <3> QED
      BY <3>1, <3>2
  <2>3. \A i \in 1..(Len(tasks') - 1) : SetupTask(tasks'[i], end)
    BY <1>1, <1>7
  <2> QED
    BY <1>7, <2>1, <2>2, <2>3 DEF SetupFor, FilesOf
<1>8. CASE Beside /\ stage' = "read"
  <2>1. tasks' = Tail(tasks) /\ UNCHANGED <<file, imports>> /\ Task.op \notin WriteOps
    BY <1>8 DEF Beside
  <2> QED
    BY <1>6, <1>8, <2>1
<1>9. CASE Skipped /\ stage' = "read"
  <2>1. /\ tasks' = Tail(tasks) /\ UNCHANGED file /\ Task.op = "hook" /\ Task.op \in WriteOps
        /\ Task.file = "settings" /\ Readable("settings") /\ Matcher(Document("settings")) = {}
        /\ imports' = IF Task.import THEN Imported(Document(Task.file), Task.replace) ELSE imports
    BY <1>9 DEF Skipped, WriteOps
  <2>2. imports # None => imports' # None
    BY <1>2, <2>1, ImportsMove
  <2>3. Document("settings").allow \in {None, {}}
    BY <2>1 DEF Matcher
  <2>4. DoneDoc("settings", Document("settings"), imports', end)
    BY <2>1, <2>3 DEF DoneDoc
  <2>5. Done("settings", end)'
    BY <2>1, <2>4 DEF Done, Readable, Document, IsDocument
  <2> QED
    BY <1>6, <1>9, <1>5, <2>1, <2>2, <2>5
<1>10. CASE Same /\ stage' = "read"
  <2>1. /\ tasks' = Tail(tasks) /\ UNCHANGED <<file, imports>> /\ file[Task.file] = draft
        /\ stage # "read"
    BY <1>10 DEF Same
  <2>2. Done(mine, end)'
    BY <1>2, <1>4, <1>5, <2>1, WrittenIsDone
  <2> QED
    BY <1>6, <1>10, <2>1, <2>2
<1>11. CASE Write /\ stage' = "read"
  <2>1. /\ tasks' = Tail(tasks) /\ UNCHANGED imports /\ stage # "read"
        /\ file' = [file EXCEPT ![Task.file] = draft]
    BY <1>11 DEF Write, Finish, host
  <2>2. file'[Task.file] = draft /\ \A f \in Files : f # Task.file => file'[f] = file[f]
    BY <1>0, <1>2, <2>1 DEF FileInv
  <2>3. Done(mine, end)'
    BY <1>2, <1>4, <1>5, <2>1, <2>2, WrittenIsDone
  <2> QED
    BY <1>2, <1>6, <1>11, <2>1, <2>2, <2>3
<1>12. CASE Drafted
  <2>1. /\ UNCHANGED <<tasks, file>> /\ Task.op \in WriteOps /\ Readable(Task.file)
        /\ imports' = IF Task.import THEN Imported(Document(Task.file), Task.replace) ELSE imports
    BY <1>12 DEF Drafted
  <2>2. imports # None => imports' # None
    BY <1>2, <2>1, ImportsMove
  <2>3. draft' \in Contents[Task.file] /\ DoneDoc(Task.file, draft', imports', end)
    BY <1>2, <1>12, DraftIsDone
  <2> QED
    BY <1>7, <2>1, <2>2, <2>3
<1>13. CASE Copied
  <2>1. UNCHANGED <<tasks, file, imports, draft>> /\ stage # "read"
    BY <1>13 DEF Copied
  <2> QED
    BY <1>2, <1>4, <1>7, <2>1
<1>14. CASE Truncate
  <2>1. /\ UNCHANGED <<tasks, imports, draft>> /\ stage # "read"
        /\ file' = [file EXCEPT ![Task.file] = Blank]
    BY <1>14 DEF Truncate, host
  <2>2. \A f \in Files : f # Task.file => file'[f] = file[f]
    BY <1>0, <2>1 DEF FileInv
  <2> QED
    BY <1>2, <1>4, <1>7, <2>1, <2>2
<1> QED
  BY <1>2, <1>8, <1>9, <1>10, <1>11, <1>12, <1>13, <1>14

---------------------------------------------------------------------------
(* A setup that begins *)

SetupTasks(end) == {t \in Plain : SetupTask(t, end)}
Writes(list, f) == \E i \in 1..Len(list) : list[i].op \in WriteOps /\ list[i].file = f
Imports(list) == \E i \in 1..Len(list) : Importing(list[i])

\* A list writes every file of these agents, and reads Claude's rules.
Complete(list, agents) ==
  /\ \A f \in Files : AgentOf(f) \in agents => Writes(list, f)
  /\ "claude" \in agents => Imports(list)

LEMMA InstallSets ==
  ASSUME NEW a \in Agents, NEW end \in Reports, a \in end.agents
  PROVE  LET list == InstallTasks(a, end.replace, end.import) IN
         list \in Seq(SetupTasks(end)) /\ Complete(list, {a})
<1> DEFINE replace == end.replace
           import == end.import
           list == InstallTasks(a, replace, import)
<1>0. replace \in BOOLEAN /\ import \in BOOLEAN
  BY DEF Reports
<1>1. Do("posture") \in SetupTasks(end)
  <2>1. Do("posture") \in Plain
    BY TaskSets
  <2>2. Do("posture").op = "posture" /\ Do("posture").import = FALSE
    BY DEF Do, On
  <2> QED
    BY <2>1, <2>2 DEF SetupTasks, SetupTask, SetupOps, WriteOps
<1>2. CASE a = "claude"
  <2> DEFINE hook == [On("hook", "settings") EXCEPT !.replace = replace, !.import = import]
  <2>1. hook \in Plain
    BY <1>0 DEF On, Plain, Fresh, InnerTasks, FileTasks, HookTasks, HookFiles
  <2>2. list = <<Do("posture"), hook>>
    BY <1>2 DEF InstallTasks
  <2>3. /\ hook.op = "hook" /\ hook.file = "settings" /\ hook.replace = replace
        /\ hook.import = import
    BY DEF On
  <2> HIDE DEF hook, list
  <2>4. SetupTask(hook, end)
    BY <1>2, <2>3 DEF SetupTask, SetupOps, WriteOps, AgentOf
  <2>5. /\ list \in Seq(SetupTasks(end)) /\ Len(list) = 2 /\ list[2] = hook
    BY <1>1, <2>1, <2>2, <2>4 DEF SetupTasks
  <2>6. \A f \in Files : AgentOf(f) = a => f = "settings"
    BY <1>2 DEF AgentOf
  <2>7. Writes(list, "settings") /\ Imports(list)
    BY <2>3, <2>5 DEF Imports, Importing, Writes, WriteOps
  <2> QED
    BY <2>5, <2>6, <2>7 DEF Complete, list
<1>3. CASE a = "codex"
  <2> DEFINE hook == [On("hook", "hooks") EXCEPT !.replace = replace]
             flag == On("enable", "config")
  <2>1. hook \in Plain /\ flag \in Plain
    <3>1. hook \in Plain
      BY <1>0 DEF On, Plain, Fresh, InnerTasks, FileTasks, HookTasks, HookFiles
    <3> QED
      BY <3>1, TaskSets
  <2>2. list = <<Do("posture"), hook, flag>>
    BY <1>3 DEF InstallTasks
  <2>3. /\ hook.op = "hook" /\ hook.file = "hooks" /\ hook.replace = replace
        /\ hook.import = FALSE
        /\ flag.op = "enable" /\ flag.file = "config" /\ flag.import = FALSE
    BY DEF On
  <2> HIDE DEF hook, flag, list
  <2>4. SetupTask(hook, end) /\ SetupTask(flag, end)
    BY <1>3, <2>3 DEF SetupTask, SetupOps, WriteOps, AgentOf
  <2>5. /\ list \in Seq(SetupTasks(end)) /\ Len(list) = 3 /\ list[2] = hook /\ list[3] = flag
    BY <1>1, <2>1, <2>2, <2>4 DEF SetupTasks
  <2>6. \A f \in Files : AgentOf(f) = a => f \in {"hooks", "config"}
    BY <1>3 DEF AgentOf, Files
  <2>7. Writes(list, "hooks") /\ Writes(list, "config")
    BY <2>3, <2>5 DEF Writes, WriteOps
  <2>8. "claude" \notin {a}
    BY <1>3
  <2> QED
    BY <2>5, <2>6, <2>7, <2>8 DEF Complete, list
<1> QED
  BY <1>2, <1>3 DEF Agents

\* What is in a list is in a list that holds it.
LEMMA JoinedHas ==
  ASSUME NEW S, NEW s \in Seq(S), NEW t \in Seq(S)
  PROVE  /\ s \o t \in Seq(S)
         /\ \A A, B : Complete(s, A) /\ Complete(t, B) => Complete(s \o t, A \union B)
         /\ \A A : Complete(s, A) \/ Complete(t, A) => Complete(s \o t, A)
<1>1. /\ s \o t \in Seq(S) /\ Len(s \o t) = Len(s) + Len(t)
      /\ \A i \in 1..(Len(s) + Len(t)) :
           (s \o t)[i] = IF i <= Len(s) THEN s[i] ELSE t[i - Len(s)]
  BY ConcatProperties
<1>2. Len(s) \in Nat /\ Len(t) \in Nat
  OBVIOUS
<1>3. ASSUME NEW i \in 1..Len(s) PROVE i \in 1..Len(s \o t) /\ (s \o t)[i] = s[i]
  BY <1>1, <1>2
<1>4. ASSUME NEW i \in 1..Len(t)
      PROVE  Len(s) + i \in 1..Len(s \o t) /\ (s \o t)[Len(s) + i] = t[i]
  <2>1. /\ Len(s) + i \in 1..(Len(s) + Len(t)) /\ ~(Len(s) + i <= Len(s))
        /\ (Len(s) + i) - Len(s) = i
    BY <1>2
  <2> QED
    BY <1>1, <2>1
<1>5. Imports(s) \/ Imports(t) => Imports(s \o t)
  BY <1>3, <1>4 DEF Imports
<1>6. \A f : Writes(s, f) \/ Writes(t, f) => Writes(s \o t, f)
  BY <1>3, <1>4 DEF Writes
<1>7. ASSUME NEW A, NEW B, Complete(s, A), Complete(t, B) PROVE Complete(s \o t, A \union B)
  BY <1>5, <1>6, <1>7 DEF Complete
<1>8. ASSUME NEW A, Complete(s, A) \/ Complete(t, A) PROVE Complete(s \o t, A)
  BY <1>5, <1>6, <1>8 DEF Complete
<1> QED
  BY <1>1, <1>7, <1>8

\* The installs of a quickstart, one after the other.
LEMMA InstallAllSets ==
  ASSUME NEW end \in Reports, NEW first \in end.agents
  PROVE  LET list == InstallAll(end.agents, first, end.replace, end.import) IN
         list \in Seq(SetupTasks(end)) /\ Complete(list, end.agents)
<1> DEFINE S == SetupTasks(end)
           other == IF first = "claude" THEN "codex" ELSE "claude"
           l1 == InstallTasks(first, end.replace, end.import)
           l2 == InstallTasks(other, end.replace, end.import)
<1>1. end.agents \subseteq Agents /\ first \in Agents
  BY DEF Reports
<1>2. l1 \in Seq(S) /\ Complete(l1, {first})
  BY <1>1, InstallSets
<1>3. InstallAll(end.agents, first, end.replace, end.import) = l1 \o When(other \in end.agents, l2)
  BY DEF InstallAll
<1>4. CASE other \in end.agents
  <2>1. l2 \in Seq(S) /\ Complete(l2, {other})
    BY <1>1, <1>4, InstallSets
  <2>2. end.agents = {first} \union {other}
    BY <1>1, <1>4 DEF Agents
  <2>3. When(other \in end.agents, l2) = l2
    BY <1>4 DEF When
  <2> HIDE DEF l1, l2, other, S
  <2>4. l1 \o l2 \in Seq(S) /\ Complete(l1 \o l2, {first} \union {other})
    BY <1>2, <2>1, JoinedHas
  <2> QED
    BY <1>3, <2>2, <2>3, <2>4 DEF S
<1>5. CASE other \notin end.agents
  <2>1. end.agents = {first}
    BY <1>1, <1>5 DEF Agents
  <2>2. When(other \in end.agents, l2) = <<>>
    BY <1>5 DEF When
  <2> HIDE DEF l1, l2, other, S
  <2>3. l1 \o <<>> = l1
    BY <1>2
  <2> QED
    BY <1>2, <1>3, <2>1, <2>2, <2>3 DEF S
<1> QED
  BY <1>4, <1>5

\* A setup begins with every file of its agents to be written.
LEMMA SetupBegins ==
  ASSUME NEW end \in Reports, end.kind \in Setups, NEW list \in Seq(SetupTasks(end)),
         Begin(end.kind, end.agents, end.replace, end.import, list), Complete(list, end.agents)
  PROVE  /\ Last(tasks').file = end /\ ~Idle' /\ SetupFor(end)'
         /\ "claude" \in end.agents => Unread'
         /\ stage' = "read" /\ UNCHANGED <<file, imports>>
<1> DEFINE close == [Do("end") EXCEPT !.file = end]
<1>1. close \in EndTasks /\ close.file = end
  BY DEF Do, On, EndTasks
<1>2. end = [kind |-> end.kind, agents |-> end.agents, replace |-> end.replace,
             import |-> end.import]
  BY DEF Reports
<1>3. tasks' = Append(list, close) /\ stage' = "read" /\ UNCHANGED <<file, imports>>
  BY <1>2 DEF Begin, host
<1> HIDE DEF close
<1>4. \A t \in SetupTasks(end) : t \in InnerTasks /\ SetupTask(t, end)
  BY DEF SetupTasks, Plain, Fresh
<1>5. list \in Seq(InnerTasks) /\ \A i \in 1..Len(list) : SetupTask(list[i], end)
  BY <1>4
<1>6. /\ tasks' # <<>> /\ Last(tasks') = close /\ Len(tasks') - 1 = Len(list)
      /\ \A i \in 1..(Len(tasks') - 1) : tasks'[i] = list[i]
  BY <1>1, <1>3, <1>5, Closed
<1>7. \A i \in 1..(Len(tasks') - 1) : SetupTask(tasks'[i], end)
  BY <1>5, <1>6
<1>8. ASSUME NEW f \in FilesOf(end) PROVE Ahead(f)'
  <2>1. Writes(list, f)
    BY <1>8 DEF FilesOf, Complete
  <2> QED
    BY <1>6, <2>1 DEF Ahead, Writes
<1>9. "claude" \in end.agents => Unread'
  BY <1>3, <1>6 DEF Unread, Imports, Complete
<1>10. SetupFor(end)'
  BY <1>3, <1>7, <1>8 DEF SetupFor, FilesOf
<1> QED
  BY <1>1, <1>3, <1>6, <1>9, <1>10 DEF Idle

LEMMA InstallBegins ==
  ASSUME Install
  PROVE  \E end \in Reports : Last(tasks').file = end /\ ~Idle' /\ SetupFor(end)'
<1>1. PICK a \in Agents, replace \in BOOLEAN, import \in BOOLEAN :
        Begin("install", {a}, replace, import, InstallTasks(a, replace, import))
  BY DEF Install
<1>2. PICK end \in Reports : end = ReportOf("install", {a}, replace, import)
  BY DEF ReportOf, Reports
<1>3. /\ end.kind = "install" /\ end.agents = {a} /\ end.replace = replace
      /\ end.import = import
  BY <1>2 DEF ReportOf
<1> DEFINE list == InstallTasks(a, replace, import)
<1>4. list \in Seq(SetupTasks(end)) /\ Complete(list, end.agents)
  BY <1>3, InstallSets
<1>5. Begin(end.kind, end.agents, end.replace, end.import, list)
  BY <1>1, <1>3
<1> HIDE DEF list
<1> QED
  BY <1>3, <1>4, <1>5, SetupBegins DEF Setups

LEMMA QuickstartBegins ==
  ASSUME Quickstart
  PROVE  \E end \in Reports :
           /\ Last(tasks').file = end /\ ~Idle' /\ SetupFor(end)'
           /\ "claude" \in end.agents => Unread'
           /\ stage' = "read" /\ UNCHANGED <<file, imports>>
<1>1. PICK agents \in SUBSET Agents, replace \in BOOLEAN, import \in BOOLEAN,
           daemon \in BOOLEAN, selfTest \in BOOLEAN :
        \E first \in agents :
          Begin("quickstart", agents, replace, import,
            When(selfTest, <<Do("snapshot")>>)
              \o InstallAll(agents, first, replace, import) \o <<Do("context")>>
              \o When(daemon, <<Do("service")>>) \o <<Do("policy")>>
              \o When(selfTest, <<Do("selftest")>>))
  BY Quickstarts
<1>2. PICK first \in agents :
        Begin("quickstart", agents, replace, import,
          When(selfTest, <<Do("snapshot")>>)
            \o InstallAll(agents, first, replace, import) \o <<Do("context")>>
            \o When(daemon, <<Do("service")>>) \o <<Do("policy")>>
            \o When(selfTest, <<Do("selftest")>>))
  BY <1>1
<1>3. PICK end \in Reports : end = ReportOf("quickstart", agents, replace, import)
  BY DEF ReportOf, Reports
<1>4. /\ end.kind = "quickstart" /\ end.agents = agents /\ end.replace = replace
      /\ end.import = import
  BY <1>3 DEF ReportOf
<1> DEFINE S == SetupTasks(end)
           l1 == When(selfTest, <<Do("snapshot")>>)
           l2 == InstallAll(agents, first, replace, import)
           l3 == <<Do("context")>>
           l4 == When(daemon, <<Do("service")>>)
           l5 == <<Do("policy")>>
           l6 == When(selfTest, <<Do("selftest")>>)
           list == l1 \o l2 \o l3 \o l4 \o l5 \o l6
<1>5. \A op \in {"snapshot", "context", "service", "policy", "selftest"} : Do(op) \in S
  <2> SUFFICES ASSUME NEW op \in {"snapshot", "context", "service", "policy", "selftest"}
               PROVE  Do(op) \in S
    OBVIOUS
  <2>1. Do(op) \in Plain /\ Do(op).op = op /\ Do(op).import = FALSE
    BY TaskSets DEF Do, On
  <2> QED
    BY <2>1 DEF SetupTasks, SetupTask, SetupOps, WriteOps
<1>6. l2 \in Seq(S) /\ Complete(l2, agents)
  BY <1>2, <1>4, InstallAllSets
<1>7. Begin(end.kind, end.agents, end.replace, end.import, list)
  BY <1>2, <1>4
<1> HIDE DEF S, l2
<1>8. /\ l1 \in Seq(S) /\ l3 \in Seq(S) /\ l4 \in Seq(S)
      /\ l5 \in Seq(S) /\ l6 \in Seq(S)
  BY <1>5 DEF When
<1> HIDE DEF l1, l3, l4, l5, l6
<1> DEFINE m2 == l1 \o l2
           m3 == m2 \o l3
           m4 == m3 \o l4
           m5 == m4 \o l5
           m6 == m5 \o l6
<1>9. m2 \in Seq(S) /\ Complete(m2, agents)
  BY <1>6, <1>8, JoinedHas
<1> HIDE DEF m2
<1>10. m3 \in Seq(S) /\ Complete(m3, agents)
  BY <1>8, <1>9, JoinedHas
<1> HIDE DEF m3
<1>11. m4 \in Seq(S) /\ Complete(m4, agents)
  BY <1>8, <1>10, JoinedHas
<1> HIDE DEF m4
<1>12. m5 \in Seq(S) /\ Complete(m5, agents)
  BY <1>8, <1>11, JoinedHas
<1> HIDE DEF m5
<1>13. m6 \in Seq(S) /\ Complete(m6, agents)
  BY <1>8, <1>12, JoinedHas
<1>14. list = m6
  BY DEF m2, m3, m4, m5
<1> HIDE DEF list, m6
<1> QED
  BY <1>4, <1>7, <1>13, <1>14, SetupBegins DEF Setups, S

---------------------------------------------------------------------------

\* A report stays the last of its list until the command ends or rolls back.
LEMMA ReportStays ==
  ASSUME Shape, Steps \/ Abort, ~Idle', Kind' # "rollback"
  PROVE  ~Idle /\ Last(tasks') = Last(tasks)
<1>0. FileInv /\ ListInv /\ StageInv
  BY DEF Shape
<1>1. ~Idle
  BY AsideMoves DEF Steps, Aside, Abort, Doing, ReadToInstall, ReadToRemove, ReadToDisable,
     ReadToRestore, Backup, Truncate, Write, TakeSnapshot, SelfTest, ReadToRollBack, PurgeBackups,
     End
<1>2. tasks' # <<>>
  BY DEF Idle
<1>3. CASE tasks' \in {tasks, Tail(tasks)}
  BY <1>0, <1>1, <1>2, <1>3, Rest
<1>4. CASE SelfTest
  <2>1. CASE tasks' = Append(Rollback, [Last(tasks) EXCEPT !.file.kind = "rollback"])
    <3>1. kept' = kept
      BY <1>4 DEF SelfTest
    <3> QED
      BY <1>0, <1>1, <2>1, <3>1, ListRollsBack
  <2> QED
    BY <1>2, <1>3, <1>4, <2>1 DEF SelfTest, Finish, Fail
<1>5. CASE Aside
  BY <1>2, <1>3, <1>5, AsideMoves
<1>6. CASE Backup \/ Truncate \/ Write \/ TakeSnapshot \/ ReadToRollBack \/ PurgeBackups
  BY <1>3, <1>6 DEF Backup, Truncate, Write, TakeSnapshot, ReadToRollBack, PurgeBackups, Finish
<1>7. CASE ReadToInstall \/ ReadToRemove \/ ReadToDisable \/ ReadToRestore
  BY <1>2, <1>3, <1>7 DEF ReadToInstall, ReadToRemove, ReadToDisable, ReadToRestore, Finish, Fail
<1>8. ~End /\ ~Abort
  BY <1>2 DEF End, Abort, Fail
<1> QED
  BY <1>4, <1>5, <1>6, <1>7, <1>8 DEF Steps, Aside

LEMMA NextSetup == Shape /\ SetupInv /\ [Next]_vars => SetupInv'
<1> SUFFICES ASSUME Shape, SetupInv, [Next]_vars, NEW end \in Reports, ~Idle', ~raced',
                    Last(tasks').file = end, end.kind \in Setups
             PROVE  SetupFor(end)'
  BY DEF SetupInv
<1>1. Kind' \in Setups /\ Kind' # "rollback" /\ Kind' # "uninstall"
  BY DEF Kind, Setups
<1>2. ~raced
  BY HistoryGrows
<1>3. CASE Install
  BY <1>3, InstallBegins
<1>4. CASE Quickstart
  BY <1>4, QuickstartBegins
<1>5. ~Uninstall
  <2> SUFFICES ASSUME Uninstall PROVE FALSE
    OBVIOUS
  <2>1. PICK agents \in SUBSET Agents, list \in Seq(Fresh) :
          Begin("uninstall", agents, FALSE, FALSE, list)
    BY Uninstallings
  <2>2. FALSE \in BOOLEAN
    OBVIOUS
  <2>3. Kind' = "uninstall"
    BY <2>1, <2>2, ListBegins
  <2> QED
    BY <1>1, <2>3
<1>6. CASE Steps \/ Abort
  <2>1. ~Idle /\ Last(tasks).file = end
    BY <1>1, <1>6, ReportStays
  <2>2. SetupFor(end)
    BY <1>2, <2>1 DEF SetupInv
  <2> QED
    BY <1>6, <2>1, <2>2, SetupStays DEF Next
<1>7. ~Edit
  BY DEF Edit, Idle
<1>8. CASE UNCHANGED vars
  <2>1. UNCHANGED <<tasks, stage, draft, file, imports, raced>>
    BY <1>8 DEF vars, host, work
  <2>2. SetupFor(end)
    BY <2>1 DEF SetupInv, Idle
  <2> QED
    BY <2>1, <2>2 DEF SetupFor, Ahead, Done, Document, Readable, IsDocument, Task
<1> QED
  BY <1>3, <1>4, <1>5, <1>6, <1>7, <1>8 DEF Next

---------------------------------------------------------------------------
(* A quickstart and its plan *)

\* The document a file holds, or is about to hold while it is truncated.
Now(f) == IF stage = "write" /\ Task.file = f THEN draft ELSE Document(f)

\* What is written of an agent's hooks fits its plan.
DraftFits(a, end) ==
  stage # "read" /\ Task.file = PlaceOf(a) =>
    /\ FitsPlan(a, draft, planned[a], end)
    /\ PlaceOf(a) = "settings" => draft.allow = Now(PlaceOf(a)).allow

\* The import is done once Claude's file is read.
RulesFit ==
  LET after == AfterImport(planned["claude"], Now("settings")) IN
    /\ imports \in {planned["claude"].imports, after}
    /\ Unread \/ imports = after

PlanOf(end) ==
  /\ \A a \in end.agents : FitsPlan(a, Now(PlaceOf(a)), planned[a], end) /\ DraftFits(a, end)
  /\ "claude" \in end.agents => RulesFit

PlanInv ==
  \A end \in Reports :
    ~Idle /\ ~raced /\ Last(tasks).file = end /\ end.kind = "quickstart" /\ planned # None =>
      PlanOf(end)

LEMMA Places ==
  \A a \in Agents :
    /\ PlaceOf(a) \in HookFiles /\ PlaceOf(a) \in Files /\ PlaceOf(a) # "config"
    /\ AgentOf(PlaceOf(a)) = a
    /\ PlaceOf(a) = "settings" <=> a = "claude"
  BY DEF Agents, PlaceOf, HookFiles, AgentOf, Files

\* The plan is what its files are when it is made.
LEMMA PlanBegins ==
  ASSUME PlannedQuickstart, planned' # None
  PROVE  \E end \in Reports : Last(tasks').file = end /\ PlanOf(end)'
<1>1. PICK end \in Reports :
        /\ Last(tasks').file = end
        /\ "claude" \in end.agents => Unread'
        /\ stage' = "read" /\ UNCHANGED <<file, imports>>
  BY QuickstartBegins DEF PlannedQuickstart
<1>2. planned' = [a \in end.agents |-> PlanFor(a, end.replace, end.import)]
  BY <1>1 DEF PlannedQuickstart
<1>3. \A f : UNCHANGED Document(f) /\ Now(f)' = Document(f)
  BY <1>1 DEF Document, Now
<1>4. ASSUME NEW a \in end.agents
      PROVE  FitsPlan(a, Document(PlaceOf(a)), planned'[a], end) /\ planned'[a].imports = imports
  <2>1. planned'[a] = PlanFor(a, end.replace, end.import)
    BY <1>2
  <2> DEFINE plan == planned'[a]
             doc == Document(PlaceOf(a))
  <2>2. /\ plan.imports = imports
        /\ plan.hook.preserved = IF end.replace THEN {} ELSE Others(HooksAt(a, doc))
        /\ plan.matcher = Wanted(a, doc)
        /\ plan.would_write = {f \in Files : AgentOf(f) = a}
        /\ plan.import = IF a = "claude" THEN ImportAction(doc, end.replace, end.import)
                         ELSE "not_supported"
    BY <2>1 DEF PlanFor, HookPlan, Wanted
  <2>3. a = "codex" <=> a # "claude"
    BY DEF Reports, Agents
  <2> HIDE DEF plan, doc
  <2>4. FitsPlan(a, doc, plan, end) /\ plan.imports = imports
    BY <2>2, <2>3 DEF FitsPlan, ImportAction
  <2> QED
    BY <2>4 DEF plan, doc
<1>5. ASSUME NEW a \in end.agents
      PROVE  FitsPlan(a, Now(PlaceOf(a))', planned'[a], end) /\ DraftFits(a, end)'
  BY <1>1, <1>3, <1>4 DEF DraftFits
<1>6. "claude" \in end.agents => RulesFit'
  BY <1>1, <1>4 DEF RulesFit
<1>7. PlanOf(end)'
  BY <1>5, <1>6 DEF PlanOf
<1> QED
  BY <1>1, <1>7

LEMMA PlanStays ==
  ASSUME Shape, NEW end \in Reports, ~Idle, Last(tasks).file = end, end.kind = "quickstart",
         SetupFor(end), PlanOf(end), Next, UNCHANGED planned,
         ~raced', ~Idle', Last(tasks').file = end
  PROVE  PlanOf(end)'
<1>0. FileInv /\ ListInv /\ StageInv
  BY DEF Shape
<1>1. \A i \in 1..(Len(tasks) - 1) : SetupTask(tasks[i], end)
  BY DEF SetupFor
<1>2. /\ \/ stage' = "read" /\ (Beside \/ Skipped \/ Same \/ Write)
         \/ Drafted \/ Copied \/ Truncate
      /\ SetupTask(Task, end) /\ 1 \in 1..(Len(tasks) - 1) /\ Task = tasks[1]
      /\ Task.op \in WriteOps => Task.file \in Files
      /\ stage # "read" => Task.op \in WriteOps
  BY <1>1, SetupGoesOn DEF Setups
<1>3. PICK mine : mine = Task.file
  OBVIOUS
<1>4. end.agents \subseteq Agents /\ end.replace \in BOOLEAN
  BY DEF Reports
<1>5. \A a \in end.agents : FitsPlan(a, Now(PlaceOf(a)), planned[a], end) /\ DraftFits(a, end)
  BY DEF PlanOf
<1>6. stage # "read" => draft \in Contents[mine]
  BY <1>3 DEF SetupFor
\* What is there stays; the rules stay too, or follow the plan.
<1>7. ASSUME \A f \in HookFiles : Now(f)' = Now(f),
             "claude" \in end.agents =>
               \/ UNCHANGED imports /\ (Unread => Unread')
               \/ imports' = AfterImport(planned["claude"], Now("settings")),
             \A a \in end.agents : DraftFits(a, end)'
      PROVE  PlanOf(end)'
  <2>1. \A a \in end.agents : FitsPlan(a, Now(PlaceOf(a))', planned'[a], end)
    BY <1>4, <1>5, <1>7, Places
  <2>2. "settings" \in HookFiles
    BY DEF HookFiles
  <2>3. "claude" \in end.agents => RulesFit'
    BY <1>7, <2>2 DEF RulesFit, PlanOf
  <2> QED
    BY <1>7, <2>1, <2>3 DEF PlanOf
\* What was written of goes on being written, or nothing is.
<1>8. ASSUME \A f \in HookFiles : Now(f)' = Now(f),
             stage' # "read" => UNCHANGED <<Task, draft>> /\ stage # "read"
      PROVE  \A a \in end.agents : DraftFits(a, end)'
  BY <1>4, <1>5, <1>8, Places DEF DraftFits
<1>9. CASE Beside /\ stage' = "read"
  <2>1. /\ tasks' = Tail(tasks) /\ UNCHANGED <<file, imports>> /\ Task.op # "hook" /\ stage = "read"
    BY <1>9 DEF Beside, WriteOps
  <2>2. Unread => Unread'
    BY <1>0, <1>2, <1>9, <2>1, SetupTail DEF Importing
  <2>3. \A f : Now(f)' = Now(f)
    BY <1>9, <2>1 DEF Now, Document
  <2> QED
    BY <1>7, <1>8, <1>9, <2>1, <2>2, <2>3
\* What reading Claude's file makes of the rules.
<1>10. ASSUME Task.op = "hook", mine = "settings", stage = "read", Readable(mine),
              "claude" \in end.agents,
              imports' = IF Task.import THEN Imported(Document(Task.file), Task.replace) ELSE imports
       PROVE  imports' = AfterImport(planned["claude"], Now("settings"))
  <2>1. Now("settings") = Document("settings")
    BY <1>10 DEF Now
  <2>2. Task.replace = end.replace /\ Task.import = end.import
    BY <1>2, <1>3, <1>10 DEF SetupTask
  <2>3. FitsPlan("claude", Document("settings"), planned["claude"], end)
    <3>1. PlaceOf("claude") = "settings"
      BY DEF PlaceOf
    <3> QED
      BY <1>5, <1>10, <2>1, <3>1
  <2>4. imports \in {planned["claude"].imports,
                     AfterImport(planned["claude"], Document("settings"))}
    BY <1>10, <2>1 DEF PlanOf, RulesFit
  <2>5. CASE end.import
    <3>1. imports' = Imported(Document("settings"), end.replace)
      BY <1>3, <1>10, <2>2, <2>5
    <3>2. Document("settings") \in Contents["settings"]
      <4>1. "settings" \in Files
        BY DEF Files
      <4> QED
        BY <1>0, <1>10, <4>1, DocumentHasItsShape
    <3> QED
      BY <2>1, <2>3, <2>4, <2>5, <3>1, <3>2, ImportFits
  <2>6. CASE ~end.import
    <3>1. imports' = imports
      BY <1>10, <2>2, <2>6
    <3>2. planned["claude"].import = "skipped_disabled"
      BY <2>3, <2>6 DEF FitsPlan
    <3> QED
      BY <2>1, <2>4, <3>1, <3>2 DEF AfterImport
  <2> QED
    BY <2>5, <2>6
<1>11. CASE Skipped /\ stage' = "read"
  <2>1. /\ Task.op = "hook" /\ stage = "read" /\ UNCHANGED file /\ Readable(mine)
        /\ mine = "settings"
        /\ imports' = IF Task.import THEN Imported(Document(Task.file), Task.replace) ELSE imports
    BY <1>3, <1>11 DEF Skipped
  <2>2. "claude" \in end.agents => imports' = AfterImport(planned["claude"], Now("settings"))
    BY <1>10, <2>1
  <2>3. \A f : Now(f)' = Now(f)
    BY <1>11, <2>1 DEF Now, Document
  <2> QED
    BY <1>7, <1>8, <1>11, <2>2, <2>3
<1>12. CASE Drafted
  <2>1. /\ stage = "read" /\ stage' = "backup" /\ UNCHANGED <<tasks, file>> /\ Task.op \in WriteOps
        /\ Readable(mine)
        /\ imports' = IF Task.import THEN Imported(Document(Task.file), Task.replace) ELSE imports
        /\ draft' = IF Task.file = "config" THEN [Document(Task.file) EXCEPT !.hooks = TRUE]
                    ELSE WithHook(Task.file, Document(Task.file), Task.replace)
    BY <1>3, <1>12 DEF Drafted
  <2>2. Task' = Task /\ \A f : Now(f)' = Now(f) /\ Now(f) = Document(f)
    BY <2>1 DEF Now, Document, Task
  <2>3. mine \in Files /\ AgentOf(mine) \in end.agents
    BY <1>2, <1>3, <2>1 DEF SetupTask
  <2>4. ASSUME NEW a \in end.agents PROVE DraftFits(a, end)'
    <3> SUFFICES ASSUME mine = PlaceOf(a)
                 PROVE  /\ FitsPlan(a, draft', planned[a], end)
                        /\ PlaceOf(a) = "settings" => draft'.allow = Now(PlaceOf(a))'.allow
      BY <1>3, <2>2 DEF DraftFits
    <3>1. a \in Agents /\ mine # "config" /\ (mine = "settings" <=> a = "claude")
          /\ mine \in HookFiles
      BY <1>4, Places
    <3>2. Task.op = "hook"
      BY <1>0, <1>2, <1>3, <2>1, <3>1, Rest, TaskKinds DEF WriteOps
    <3>3. draft' = WithHook(PlaceOf(a), Document(PlaceOf(a)), end.replace)
      BY <1>2, <1>3, <2>1, <3>1, <3>2 DEF SetupTask
    <3>4. Document(PlaceOf(a)) \in Contents[PlaceOf(a)]
      BY <1>0, <2>1, <2>3, DocumentHasItsShape
    <3>5. FitsPlan(a, draft', planned[a], end)
      BY <1>5, <2>2, <3>1, <3>3, <3>4, HookFits
    <3>6. a = "claude" => draft'.allow = Document(PlaceOf(a)).allow
      BY <1>4, <3>1, <3>3, <3>4, HookIsRead
    <3> QED
      BY <2>2, <3>1, <3>5, <3>6
  <2>5. CASE Task.op = "hook" /\ mine = "settings"
    <3>1. "claude" \in end.agents
      BY <2>3, <2>5 DEF AgentOf
    <3>2. imports' = AfterImport(planned["claude"], Now("settings"))
      BY <1>10, <2>1, <2>5, <3>1
    <3> QED
      BY <1>7, <2>2, <2>4, <3>2
  <2>6. CASE ~(Task.op = "hook" /\ mine = "settings")
    <3>1. UNCHANGED imports
      BY <1>2, <1>3, <2>1, <2>6 DEF SetupTask
    <3>2. Unread => Unread'
      <4> SUFFICES ASSUME NEW i \in 1..(Len(tasks) - 1), Importing(tasks[i]) PROVE Unread'
        BY DEF Unread
      <4>1. i # 1 /\ i > 1
        BY <1>2, <1>3, <2>6 DEF Importing
      <4> QED
        BY <2>1, <4>1 DEF Unread
    <3> QED
      BY <1>7, <2>2, <2>4, <3>1, <3>2
  <2> QED
    BY <2>5, <2>6
<1>13. CASE Same /\ stage' = "read"
  <2>1. /\ tasks' = Tail(tasks) /\ UNCHANGED <<file, imports>> /\ stage = "backup"
    BY <1>13 DEF Same
  <2>2. Unread => Unread'
    BY <1>0, <1>2, <1>13, <2>1, SetupTail
  <2>3. \A f : Now(f)' = Now(f)
    BY <1>13, <2>1 DEF Now, Document
  <2> QED
    BY <1>7, <1>8, <1>13, <2>1, <2>2, <2>3
<1>14. CASE Copied
  <2>1. UNCHANGED <<tasks, file, imports, draft>> /\ stage = "backup" /\ stage' = "truncate"
    BY <1>14 DEF Copied
  <2>2. (\A f : Now(f)' = Now(f)) /\ (Unread => Unread') /\ UNCHANGED Task
    BY <2>1 DEF Now, Document, Unread, Task
  <2> QED
    BY <1>7, <1>8, <2>1, <2>2
<1>15. CASE Truncate
  <2>1. /\ UNCHANGED <<tasks, imports, draft>> /\ stage = "truncate" /\ stage' = "write"
        /\ file' = [file EXCEPT ![mine] = Blank]
    BY <1>3, <1>15 DEF Truncate, host
  <2>2. UNCHANGED Task /\ (Unread => Unread')
    BY <2>1 DEF Unread, Task
  <2>3. /\ Now(mine)' = draft
        /\ \A f \in HookFiles : f # mine => Now(f)' = Now(f)
    <3>1. HookFiles \subseteq Files
      BY DEF HookFiles, Files
    <3> QED
      BY <1>0, <1>3, <2>1, <2>2, <3>1 DEF Now, Document, FileInv
  <2>4. ASSUME NEW a \in end.agents
        PROVE  FitsPlan(a, Now(PlaceOf(a))', planned[a], end) /\ DraftFits(a, end)'
    <3>1. PlaceOf(a) \in HookFiles
      BY <1>4, Places
    <3>2. CASE PlaceOf(a) = mine
      BY <1>3, <1>5, <2>1, <2>2, <2>3, <3>2 DEF DraftFits
    <3>3. CASE PlaceOf(a) # mine
      BY <1>3, <1>5, <2>2, <2>3, <3>1, <3>3 DEF DraftFits
    <3> QED
      BY <3>2, <3>3
  <2>5. ASSUME "claude" \in end.agents PROVE RulesFit'
    <3>1. AfterImport(planned["claude"], Now("settings")') =
            AfterImport(planned["claude"], Now("settings"))
      <4>1. PlaceOf("claude") = "settings" /\ "settings" \in HookFiles
        BY DEF PlaceOf, HookFiles
      <4>2. CASE mine = "settings"
        <5>1. draft.allow = Now("settings").allow
          BY <1>3, <1>5, <2>1, <2>5, <4>1, <4>2 DEF DraftFits
        <5>2. Now("settings")' = draft
          BY <2>3, <4>2
        <5> QED
          BY <5>1, <5>2 DEF AfterImport
      <4>3. CASE mine # "settings"
        BY <2>3, <4>1, <4>3
      <4> QED
        BY <4>2, <4>3
    <3> QED
      BY <2>1, <2>2, <2>5, <3>1 DEF RulesFit, PlanOf
  <2> QED
    BY <2>4, <2>5 DEF PlanOf
<1>16. CASE Write /\ stage' = "read"
  <2>1. /\ tasks' = Tail(tasks) /\ UNCHANGED imports /\ stage = "write"
        /\ file' = [file EXCEPT ![mine] = draft]
    BY <1>3, <1>16 DEF Write, Finish, host
  <2>2. mine \in Files
    BY <1>2, <1>3, <2>1
  <2>3. Unread => Unread'
    BY <1>0, <1>2, <1>16, <2>1, SetupTail
  <2>4. file'[mine] = draft /\ \A f \in Files : f # mine => file'[f] = file[f]
    BY <1>0, <2>1, <2>2 DEF FileInv
  <2>5. \A f \in HookFiles : Now(f)' = Now(f)
    <3>1. draft \notin {Absent, Blank, Broken, None}
      BY <1>6, <2>1, <2>2, DocumentsAreUnmarked
    <3>2. HookFiles \subseteq Files
      BY DEF HookFiles, Files
    <3> QED
      BY <1>3, <1>16, <2>1, <2>4, <3>1, <3>2 DEF Now, Document
  <2> QED
    BY <1>7, <1>8, <1>16, <2>1, <2>3, <2>5
<1> QED
  BY <1>2, <1>9, <1>11, <1>12, <1>13, <1>14, <1>15, <1>16

LEMMA NextPlan == Shape /\ SetupInv /\ PlanInv /\ [RNext]_rvars => PlanInv'
<1> SUFFICES ASSUME Shape, SetupInv, PlanInv, [RNext]_rvars, NEW end \in Reports, ~Idle', ~raced',
                    Last(tasks').file = end, end.kind = "quickstart", planned' # None
             PROVE  PlanOf(end)'
  BY DEF PlanInv
<1>1. CASE PlannedQuickstart
  BY <1>1, PlanBegins
<1>2. ~OtherCommand
  BY DEF OtherCommand
<1>3. CASE Continue
  <2>1. Steps \/ Abort \/ Edit
    BY <1>3 DEF Continue
  <2>2. Next /\ ~raced
    BY <2>1, HistoryGrows DEF Next
  <2>3. ~Edit
    BY DEF Edit, Idle
  <2>4. ~Idle /\ Last(tasks).file = end
    BY <2>1, <2>3, ReportStays DEF Kind
  <2>5. UNCHANGED planned
    BY <1>3 DEF Continue
  <2>6. SetupFor(end) /\ PlanOf(end)
    BY <2>2, <2>4, <2>5 DEF SetupInv, PlanInv, Setups
  <2> QED
    BY <2>2, <2>4, <2>5, <2>6, PlanStays
<1>4. CASE UNCHANGED rvars
  <2>1. UNCHANGED <<tasks, stage, draft, file, imports, raced, planned>>
    BY <1>4 DEF rvars, vars, host, work
  <2>2. PlanOf(end)
    BY <2>1 DEF PlanInv, Idle
  <2>3. UNCHANGED <<Unread, Task>> /\ \A f : Now(f)' = Now(f)
    BY <2>1 DEF Unread, Task, Now, Document
  <2> QED
    BY <2>1, <2>2, <2>3 DEF PlanOf, DraftFits, RulesFit
<1> QED
  BY <1>1, <1>2, <1>3, <1>4 DEF RNext

---------------------------------------------------------------------------
(* What the readers find at the end *)

\* The checks of a file that is as an install leaves it.
LEMMA HookedChecks ==
  ASSUME NEW a \in Agents, NEW doc, NEW replace, Hooked(a, doc, replace), Wanted(a, doc) # {}
  PROVE  /\ HookChecks(HooksAt(a, doc), Wanted(a, doc)) = {"ok"}
         /\ Adapters(HooksAt(a, doc)) = {OurGroup(Wanted(a, doc))}
<1> DEFINE groups == HooksAt(a, doc)
           our == OurGroup(Wanted(a, doc))
<1>1. our \in groups /\ \A g \in groups : g.gommage => g = our
  BY DEF Hooked
<1>2. our.gommage /\ ~our.mine /\ our.tools = Wanted(a, doc)
  BY DEF OurGroup
<1> HIDE DEF our, groups
<1>3. Adapters(groups) = {our}
  BY <1>1, <1>2 DEF Adapters
<1>4. ~\E g \in groups : g.gommage /\ Global(g)
  BY <1>1, <1>2 DEF Global
<1>5. CoverageOf({our}, Wanted(a, doc)) = "ok"
  BY <1>2 DEF CoverageOf, Covers
<1>6. HookChecks(groups, Wanted(a, doc)) = {"ok"}
  BY <1>3, <1>4, <1>5 DEF HookChecks
<1> QED
  BY <1>3, <1>6 DEF our, groups

\* An agent whose files are as a setup leaves them has nothing failing, and
\* nothing to warn of but native rules that were not to be imported.
LEMMA DoneIsReported ==
  ASSUME NEW end \in Reports, NEW a \in end.agents,
         \A f \in FilesOf(end) : Done(f, end),
         a = "claude" => Matcher(Document("settings")) # {}
  PROVE  /\ StatusOf(a) # "fail"
         /\ (a = "claude" => end.import) => StatusOf(a) = "ok"
<1>1. CASE a = "claude"
  <2> DEFINE doc == Document("settings")
  <2>1. Done("settings", end)
    BY <1>1 DEF FilesOf, Files, AgentOf
  <2>2. /\ Readable("settings") /\ Hooked("claude", doc, end.replace)
        /\ end.import => ImportCheck(doc) = "ok"
    BY <1>1, <2>1 DEF Done, DoneDoc, ImportCheck
  <2>3. HookChecks(HooksAt(a, doc), Matcher(doc)) = {"ok"}
    <3>1. a \in Agents
      BY <1>1 DEF Agents
    <3> QED
      BY <1>1, <2>2, <3>1, HookedChecks DEF Wanted
  <2>4. PathCheck("settings") = "ok"
    <3>1. doc.groups # {}
      BY <2>2 DEF Hooked, HooksAt
    <3>2. EmptyOf["settings"].groups = {}
      BY DEF EmptyOf
    <3> QED
      BY <3>1, <3>2 DEF Document, PathCheck
  <2>5. ImportCheck(doc) \in {"ok", "warn"}
    BY DEF ImportCheck
  <2>6. ChecksOf(a) = {"ok", ImportCheck(doc)}
    BY <1>1, <2>2, <2>3, <2>4 DEF ChecksOf
  <2> HIDE DEF doc
  <2> QED
    BY <1>1, <2>2, <2>5, <2>6 DEF StatusOf
<1>2. CASE a = "codex"
  <2> DEFINE doc == Document("hooks")
  <2>1. Done("hooks", end) /\ Done("config", end)
    BY <1>2 DEF FilesOf, Files, AgentOf
  <2>2. /\ Readable("hooks") /\ Hooked("codex", doc, end.replace)
        /\ Readable("config") /\ Document("config").hooks = TRUE /\ file["config"] # Absent
    BY <2>1 DEF Done, DoneDoc, IsDocument
  <2>3. HookChecks(HooksAt(a, doc), Tools) = {"ok"}
    <3>1. a \in Agents
      BY <1>2 DEF Agents
    <3> QED
      BY <1>2, <2>2, <3>1, HookedChecks, ToolsAreMapped DEF Wanted
  <2>4. PathCheck("hooks") = "ok" /\ PathCheck("config") = "ok" /\ FlagCheck(Document("config")) = "ok"
    <3>1. HooksAt("codex", doc) # {}
      BY <2>2 DEF Hooked
    <3>2. HooksAt("codex", EmptyOf["hooks"]) = {}
      BY DEF EmptyOf, HooksAt, Primary, OrEmpty
    <3> QED
      BY <2>2, <3>1, <3>2 DEF Document, PathCheck, FlagCheck
  <2>5. ChecksOf(a) = {"ok"}
    BY <1>2, <2>2, <2>3, <2>4 DEF ChecksOf
  <2> HIDE DEF doc
  <2> QED
    BY <2>5 DEF StatusOf
<1> QED
  BY <1>1, <1>2 DEF Agents, Reports

\* An agent whose files are as a setup leaves them is as its plan says.
LEMMA DoneIsPlanned ==
  ASSUME Shape, NEW end \in Reports, NEW a \in end.agents, NEW plan,
         \A f \in FilesOf(end) : Done(f, end),
         FitsPlan(a, Document(PlaceOf(a)), plan, end),
         a = "claude" => imports = AfterImport(plan, Document("settings"))
  PROVE  PlanHolds(a, plan)
<1> DEFINE f == PlaceOf(a)
           doc == Document(f)
           groups == HooksAt(a, doc)
           our == OurGroup(plan.matcher)
<1>1. a \in Agents /\ end.replace \in BOOLEAN
  BY DEF Reports
<1>2. /\ plan.matcher = Wanted(a, doc)
      /\ plan.hook.preserved = IF end.replace THEN {} ELSE Others(groups)
      /\ plan.would_write = {h \in Files : AgentOf(h) = a}
      /\ plan.import # "not_supported" <=> a = "claude"
  BY <1>1 DEF FitsPlan, Agents
<1>3. ASSUME plan.matcher # {} PROVE HookAsPlanned(a, plan) /\ \A h \in plan.would_write : IsDocument(h)
  <2>1. Done(f, end) /\ f \in Files
    BY <1>1, Places DEF FilesOf
  <2>2. Hooked(a, doc, end.replace)
    <3>1. CASE a = "claude"
      <4>1. f = "settings"
        BY <3>1 DEF PlaceOf
      <4> QED
        BY <1>2, <1>3, <2>1, <3>1, <4>1 DEF Done, DoneDoc, Wanted
    <3>2. CASE a = "codex"
      <4>1. f = "hooks"
        BY <3>2 DEF PlaceOf
      <4> QED
        BY <2>1, <3>2, <4>1 DEF Done, DoneDoc
    <3> QED
      BY <1>1, <3>1, <3>2 DEF Agents
  <2>3. our \in groups /\ our.gommage /\ \A g \in groups : g.gommage \/ end.replace => g = our
    BY <1>2, <2>2 DEF Hooked, OurGroup
  <2>4. groups = plan.hook.preserved \union {our}
    <3> HIDE DEF groups, our
    <3>1. CASE end.replace
      BY <1>2, <2>3, <3>1
    <3>2. CASE ~end.replace
      BY <1>2, <2>3, <3>2 DEF Others
    <3> QED
      BY <3>1, <3>2
  <2>5. HookAsPlanned(a, plan)
    BY <2>4 DEF HookAsPlanned
  <2>6. IsDocument(f)
    <3>1. doc # EmptyOf[f]
      <4>1. groups # {}
        BY <2>3
      <4>2. HooksAt(a, EmptyOf[f]) = {}
        BY <1>1 DEF EmptyOf, HooksAt, PlaceOf, Primary, OrEmpty, Agents
      <4> QED
        BY <4>1, <4>2
    <3> QED
      BY <2>1, <3>1 DEF Done, Readable, Document, IsDocument
  <2>7. ASSUME NEW h \in plan.would_write PROVE IsDocument(h)
    <3>1. h \in Files /\ AgentOf(h) = a
      BY <1>2, <2>7
    <3>2. CASE h = f
      BY <2>6, <3>2
    <3>3. CASE h # f
      <4>1. h = "config"
        BY <1>1, <3>1, <3>3 DEF Files, AgentOf, PlaceOf, Agents
      <4>2. Done(h, end)
        BY <3>1 DEF FilesOf
      <4> QED
        BY <4>1, <4>2 DEF Done
    <3> QED
      BY <3>2, <3>3
  <2> QED
    BY <2>5, <2>7
<1>4. ASSUME plan.import # "not_supported"
      PROVE  imports = IF plan.import \in {"would_write", "would_replace"}
                         THEN Document(PlaceOf(a)).allow ELSE plan.imports
  <2>1. a = "claude" /\ PlaceOf(a) = "settings"
    BY <1>2, <1>4 DEF PlaceOf
  <2> QED
    BY <2>1 DEF AfterImport
<1> QED
  BY <1>3, <1>4 DEF PlanHolds

\* What the readers find follows from the files and the rules.
LEMMA ReadersStay ==
  ASSUME UNCHANGED <<file, imports>>
  PROVE  /\ \A f : Document(f)' = Document(f)
         /\ \A a : StatusOf(a)' = StatusOf(a)
         /\ \A a, plan : PlanHolds(a, plan) => PlanHolds(a, plan)'
<1>1. \A f : Document(f)' = Document(f)
  BY DEF Document
<1>2. \A a : StatusOf(a)' = StatusOf(a)
  BY DEF StatusOf, ChecksOf, PathCheck, Readable, Document, ImportCheck
<1>3. \A a, plan : PlanHolds(a, plan) => PlanHolds(a, plan)'
  BY <1>1 DEF PlanHolds, HookAsPlanned, IsDocument
<1> QED
  BY <1>1, <1>2, <1>3

\* The reports agree about a setup that ends.
LEMMA EndAgrees ==
  ASSUME Shape, SetupInv, PlanInv, End, UNCHANGED planned
  PROVE  ReportsAgree'
<1>0. FileInv /\ ListInv /\ StageInv
  BY DEF Shape
<1>1. ~Idle /\ Task.op = "end" /\ last' = Task.file /\ UNCHANGED <<file, imports, raced, planned>>
  BY DEF End, Doing, host
<1>2. Len(tasks) = 1 /\ Task = tasks[1] /\ Task = Last(tasks) /\ Last(tasks).file \in Reports
  BY <1>0, <1>1, EndIsLast, Rest DEF Last
<1>3. stage = "read"
  BY <1>0, <1>1, Rest, TaskKinds DEF StageInv
<1>4. PICK end \in Reports : last' = end /\ Last(tasks).file = end
  BY <1>1, <1>2
<1>5. SUFFICES ASSUME ~raced, end.kind \in Setups PROVE ReportsAgree'
  BY <1>1, <1>4 DEF ReportsAgree, StatusHolds, AfterPlan, Setups
<1>6. SetupFor(end)
  BY <1>1, <1>4, <1>5 DEF SetupInv
<1>7. \A f \in FilesOf(end) : Done(f, end)
  <2>1. \A f : ~Ahead(f)
    BY <1>2 DEF Ahead
  <2> QED
    BY <1>6, <2>1 DEF SetupFor
<1>8. /\ \A f : Document(f)' = Document(f)
      /\ \A a : StatusOf(a)' = StatusOf(a)
      /\ \A a, plan : PlanHolds(a, plan) => PlanHolds(a, plan)'
  BY <1>1, ReadersStay
<1>9. StatusHolds'
  <2>1. \A a \in end.agents :
          (a = "claude" => Matcher(Document("settings")) # {}) =>
            /\ StatusOf(a) # "fail"
            /\ (a = "claude" => end.import) => StatusOf(a) = "ok"
    BY <1>7, DoneIsReported
  <2> QED
    BY <1>4, <1>8, <2>1 DEF StatusHolds
<1>10. ASSUME end.kind = "quickstart", planned # None, NEW a \in end.agents
       PROVE  PlanHolds(a, planned[a])'
  <2>1. PlanOf(end)
    BY <1>1, <1>4, <1>5, <1>10 DEF PlanInv
  <2>2. ~Unread /\ \A f : Now(f) = Document(f)
    BY <1>2, <1>3 DEF Unread, Now
  <2>3. /\ FitsPlan(a, Document(PlaceOf(a)), planned[a], end)
        /\ a = "claude" => imports = AfterImport(planned[a], Document("settings"))
    BY <2>1, <2>2 DEF PlanOf, RulesFit
  <2>4. PlanHolds(a, planned[a])
    BY <1>7, <2>3, DoneIsPlanned
  <2> QED
    BY <1>1, <1>8, <2>4
<1>11. AfterPlan' => \A a \in last'.agents : PlanHolds(a, planned[a])'
  BY <1>1, <1>4, <1>10 DEF AfterPlan
<1> QED
  BY <1>9, <1>11 DEF ReportsAgree

LEMMA NextReports ==
  Shape /\ RollInv /\ SetupInv /\ PlanInv /\ ReportsAgree /\ [RNext]_rvars => ReportsAgree'
<1> SUFFICES ASSUME Shape, RollInv, SetupInv, PlanInv, ReportsAgree, [RNext]_rvars
             PROVE  ReportsAgree'
  OBVIOUS
<1>0. FileInv /\ ListInv /\ StageInv
  BY DEF Shape
<1>1. ASSUME last' = None PROVE ReportsAgree'
  BY <1>1 DEF ReportsAgree, StatusHolds, AfterPlan
<1>2. CASE Install \/ Uninstall \/ Quickstart
  <2>1. last' = None
    BY <1>2, Beginnings DEF Begin
  <2> QED
    BY <1>1, <2>1
<1>3. CASE Continue
  <2>1. UNCHANGED planned
    BY <1>3 DEF Continue
  <2>2. CASE End
    BY <2>1, <2>2, EndAgrees
  <2>3. CASE Edit
    BY <1>1, <2>3 DEF Edit
  <2>4. CASE (Steps \/ Abort) /\ ~End
    <3>1. ~Idle /\ UNCHANGED last
      BY <2>4, AsideMoves DEF Steps, Aside, Abort, Doing, ReadToInstall, ReadToRemove,
         ReadToDisable, ReadToRestore, Backup, Truncate, Write, TakeSnapshot, SelfTest,
         ReadToRollBack, PurgeBackups, Finish, Fail
    <3> QED
      BY <1>1, <3>1 DEF RollInv
  <2> QED
    BY <1>3, <2>2, <2>3, <2>4 DEF Continue
<1>4. CASE UNCHANGED rvars
  <2>1. UNCHANGED <<last, file, imports, raced, planned>>
    BY <1>4 DEF rvars, vars, host, work
  <2>2. /\ \A f : Document(f)' = Document(f)
        /\ \A a : StatusOf(a)' = StatusOf(a)
        /\ \A a, plan : PlanHolds(a, plan) => PlanHolds(a, plan)'
    BY <2>1, ReadersStay
  <2>3. StatusHolds'
    BY <2>1, <2>2 DEF ReportsAgree, StatusHolds
  <2>4. AfterPlan' => \A a \in last'.agents : PlanHolds(a, planned[a])'
    BY <2>1, <2>2 DEF ReportsAgree, AfterPlan
  <2> QED
    BY <2>3, <2>4 DEF ReportsAgree
<1> QED
  BY <1>2, <1>3, <1>4 DEF RNext, PlannedQuickstart, OtherCommand

\* ReportsAgree: a setup of one agent or of both that ended well, with no edit in
\* the middle of it, is one `agent status` finds nothing wrong with.  A quickstart
\* leaves the hooks and writes the files its dry run announced where the plan
\* shows a matcher, and does with the native rules what the plan's action says,
\* with or without --no-import-native-permissions.
THEOREM ReportsAreRight == RSpec => []ReportsAgree
<1>1. RInit => Init /\ SetupInv /\ PlanInv /\ ReportsAgree
  BY DEF RInit, Init, SetupInv, PlanInv, Idle, ReportsAgree, StatusHolds, AfterPlan
<1>2. [RNext]_rvars => [Next]_vars
  BY DEF RNext, PlannedQuickstart, OtherCommand, Continue, Next, rvars
<1> QED
  BY <1>1, <1>2, InitShape, InitRoll, NextShape, NextRoll, NextSetup, NextPlan, NextReports, PTL
     DEF RSpec
=============================================================================
