------------------------------- MODULE Imports -------------------------------
(* How the files of a program become one program.  The same walk over imports is
   written once for each of those who read files: the runner, the compiler (which
   walks twice: for the texts, then to parse them), obc, the C ABI, and
   executables that carry their files to where nothing else is.  Before a file is
   read for the runner or the compiler, its conditional parts are cut out.
   A file stands for its one name here: `main` and its two libraries lie in one directory or in the `std`
   directory of the search path, a plugin elsewhere; "builtin" stands for built-in modules,
   "gone" for what is nowhere. *)
EXTENDS Naturals, Sequences, SequencesExt, FiniteSets

VARIABLES impPick, \* the files, or the lines of one of them
          impOut   \* what is made of them: NotYet before

impVars == <<impPick, impOut>>

-----------------------------------------------------------------------------
(* preprocess_source.  A frame of the stack is a conditional that is open:
   whether lines around it count, whether its present branch does, and whether
   a branch of it has. *)
Line(d, c) == [d |-> d, c |-> c]
Opening == {"if", "ifdef", "ifndef"}
Symbols == {"A", "WINDOWS", "LINUX"}

\* The runner under Linux.
OsName == "LINUX"
Evaluate(c, defines) == IF c \in {"WINDOWS", "LINUX"} THEN c = OsName ELSE c \in defines
OpenCondition(l, defines) ==
  CASE l.d = "if" -> Evaluate(l.c, defines)
    [] l.d = "ifdef" -> l.c \in defines
    [] l.d = "ifndef" -> l.c \notin defines

CurrentActive(stack) == stack = <<>> \/ Last(stack).active
OpenFrame(l, s) ==
  LET parent == CurrentActive(s.stack)
      active == parent /\ OpenCondition(l, s.defines) IN
  [s EXCEPT !.stack = Append(@, [parentActive |-> parent, active |-> active, branchTaken |-> active])]

Elif(l, f, defines) ==
  LET active == f.parentActive /\ ~f.branchTaken /\ Evaluate(l.c, defines) IN
  [f EXCEPT !.active = active, !.branchTaken = @ \/ active]
Else(f) == [f EXCEPT !.active = f.parentActive /\ ~f.branchTaken, !.branchTaken = TRUE]
OnTop(s, f) == [s EXCEPT !.stack = Append(Front(@), f)]

PreprocessLine(s, l) ==
  CASE l.d = "define" -> IF CurrentActive(s.stack) THEN [s EXCEPT !.defines = @ \cup {l.c}] ELSE s
    [] l.d \in Opening -> OpenFrame(l, s)
    [] l.d = "elif" -> IF s.stack = <<>> THEN s ELSE OnTop(s, Elif(l, Last(s.stack), s.defines))
    [] l.d = "else" -> IF s.stack = <<>> THEN s ELSE OnTop(s, Else(Last(s.stack)))
    [] l.d = "endif" -> IF s.stack = <<>> THEN s ELSE [s EXCEPT !.stack = Front(@)]
    [] l.d = "text" -> IF CurrentActive(s.stack) THEN [s EXCEPT !.out = Append(@, l.c)] ELSE s

PreprocessSource(lines) ==
  FoldLeft(PreprocessLine, [stack |-> <<>>, defines |-> {"OS", OsName}, out |-> <<>>], lines).out

(* What conditionals mean: a source is a sequence of texts, definitions and
   groups, and a group is its first branch that holds. *)
RECURSIVE Written(_), SourceMeans(_, _), GroupMeans(_, _, _)
Written(items) ==
  FlattenSeq([i \in DOMAIN items |->
    IF items[i].k = "group"
    THEN FlattenSeq([b \in DOMAIN items[i].branches |->
           <<items[i].branches[b].line>> \o Written(items[i].branches[b].body)]) \o <<Line("endif", "")>>
    ELSE <<Line(items[i].k, items[i].c)>>])

GroupMeans(branches, b, s) ==
  IF b > Len(branches) THEN s
  ELSE LET l == branches[b].line
           holds == CASE l.d \in Opening -> OpenCondition(l, s.defines)
                      [] l.d = "elif" -> Evaluate(l.c, s.defines)
                      [] l.d = "else" -> TRUE IN
       IF holds THEN SourceMeans(branches[b].body, s) ELSE GroupMeans(branches, b + 1, s)
SourceMeans(items, s) ==
  IF items = <<>> THEN s
  ELSE LET i == Head(items) IN
       SourceMeans(Tail(items),
         CASE i.k = "text" -> [s EXCEPT !.out = Append(@, i.c)]
           [] i.k = "define" -> [s EXCEPT !.defines = @ \cup {i.c}]
           [] i.k = "group" -> GroupMeans(i.branches, 1, s))

-----------------------------------------------------------------------------
(* The files.  An import is a line `#include` or a declaration `import`, with
   the extension or without, to a file. *)
Libraries == {"a", "b"}
OnDisk == {"main", "plug"} \cup Libraries
Entry(how, to, full) == [how |-> how, to |-> to, full |-> full]

(* Where the readers look for what f asks for; "gone" when they do not find it.
   obc opens exactly what is written beside f; the C ABI tries it there.  The runner and the
   compiler try extensions, then the directories of the search path; executables
   know what they carry, by its last part too. *)
Beside(files, f, e) == e.full /\ e.to \in OnDisk /\ files.place[e.to] = files.place[f]
ResolveBeside(files, f, e) == IF Beside(files, f, e) THEN e.to ELSE "gone"
ResolveImportLocal(files, f, e) ==
  IF e.to \in OnDisk /\ files.place[e.to] \in {files.place[f], "std"} THEN e.to ELSE "gone"
ResolveCarried(e, carried) == IF e.to \in carried THEN e.to ELSE "gone"

(* What a reader asks for while it loads f, in this order.  Files of "gone" are
   opened by obc and passed over by the others. *)
IsInclude(e) == e.how = "include"
IsImport(e) == e.how = "import"
ObcLoads(files, f) ==
  LET asked == SelectSeq(files.imports[f], IsInclude)
               \o SelectSeq(files.imports[f], LAMBDA e : IsImport(e) /\ e.to # "builtin") IN
  [i \in DOMAIN asked |-> ResolveBeside(files, f, asked[i])]
Found(s) == SelectSeq(s, LAMBDA g : g # "gone")
RunnerLoads(files, f) ==
  Found([i \in DOMAIN files.imports[f] |-> ResolveImportLocal(files, f, files.imports[f][i])])
\* The compiler's second walk looks for includes beside f first.
CompilerLoads(files, f) ==
  LET included == SelectSeq(files.imports[f], IsInclude) IN
  Found([i \in DOMAIN included |-> ResolveBeside(files, f, included[i])]) \o RunnerLoads(files, f)
AbiLoads(files, f) ==
  Found([i \in DOMAIN files.imports[f] |-> ResolveBeside(files, f, files.imports[f][i])])
CarriedLoads(files, f, carried) ==
  Found([i \in DOMAIN files.imports[f] |-> ResolveCarried(files.imports[f][i], carried)])

Loads(d, files, f, carried) ==
  CASE d = "obc" -> ObcLoads(files, f)
    [] d \in {"runner", "collect"} -> RunnerLoads(files, f)
    [] d = "compiler" -> CompilerLoads(files, f)
    [] d = "abi" -> AbiLoads(files, f)
    [] d = "carried" -> CarriedLoads(files, f, carried)

-----------------------------------------------------------------------------
(* load_program_recursive, load_prog, load_file: a file that was met before is
   passed over, one that cannot be read or parsed is an exception, and a file
   comes after what it imports. *)
Unloaded == [visited |-> {}, ordered |-> <<>>, threw |-> FALSE]
Unreadable(files, f) == f \in files.broken \cup {"gone"}
Place(f, s) == [s EXCEPT !.ordered = IF s.threw THEN @ ELSE Append(@, f)]

RECURSIVE LoadFile(_, _, _, _, _), LoadEach(_, _, _, _, _), LoadFileEarly(_, _, _, _, _)
LoadEach(d, files, carried, fs, s) ==
  IF fs = <<>> THEN s
  ELSE LoadEach(d, files, carried, Tail(fs), LoadFile(d, files, carried, Head(fs), s))

\* Puts a file before what it imports, as the walk for the texts may.
LoadFileEarly(d, files, carried, f, s) ==
  IF s.threw \/ f \in s.visited THEN s
  ELSE IF Unreadable(files, f) THEN [s EXCEPT !.visited = @ \cup {f}, !.threw = TRUE]
  ELSE LoadEach(d, files, carried, Loads(d, files, f, carried), Place(f, [s EXCEPT !.visited = @ \cup {f}]))

LoadFile(d, files, carried, f, s) ==
  IF s.threw \/ f \in s.visited THEN s
  ELSE IF Unreadable(files, f) THEN [s EXCEPT !.visited = @ \cup {f}, !.threw = TRUE]
  ELSE Place(f, LoadEach(d, files, carried, Loads(d, files, f, carried), [s EXCEPT !.visited = @ \cup {f}]))

(* Scripts of plugins come first for the runner and obc; a script that cannot be
   loaded ends obc and is passed over by the runner, which keeps what it brought. *)
LoadPlugins(d, files, s) ==
  LET r == LoadFile(d, files, {}, "plug", s) IN
  IF files.plugin /\ d \in {"runner", "obc"}
  THEN IF d = "runner" THEN [r EXCEPT !.threw = FALSE] ELSE r
  ELSE s
LoadProgram(d, files, carried) == LoadFile(d, files, carried, "main", LoadPlugins(d, files, Unloaded))

\* What ob_collect_files hands to an executable that will run elsewhere.
CollectFiles(files) == ToSet(LoadProgram("abi", files, {}).ordered)

-----------------------------------------------------------------------------
(* One program of many.  Entities go the way of actions, enums and type aliases
   that of structs; externs are left out.  A declaration has the name of its file; `shared` says who else
   declares one and the same name. *)
Kinds == {"action", "hook", "struct", "trait", "global"}
Decls(files, f, k) ==
  <<[name |-> f, from |-> f]>>
  \o (IF files.shared.k = k /\ f \in files.shared.by THEN <<[name |-> "shared", from |-> f]>> ELSE <<>>)
ModuleDecls(files, o, k) == FlattenSeq([i \in 1 .. Len(o) - 1 |-> Decls(files, o[i], k)])
MainDecls(files, o, k) == Decls(files, Last(o), k)
Named(s) == {s[i].name : i \in DOMAIN s}
FirstOfEach(s) == FoldLeft(LAMBDA acc, x : IF x.name \in Named(acc) THEN acc ELSE Append(acc, x), <<>>, s)
NotNamed(s, names) == SelectSeq(FirstOfEach(s), LAMBDA x : x.name \notin names)

MergeLoadedPrograms(files, o) ==
  [k \in Kinds |->
    LET mods == ModuleDecls(files, o, k)
        mine == MainDecls(files, o, k) IN
    CASE k \in {"action", "hook"} -> mods \o mine
      [] k \in {"struct", "trait"} -> NotNamed(mods, Named(mine)) \o mine
      [] k = "global" -> mine \o NotNamed(mods, Named(mine))]
MergeCompiled(files, o) ==
  [k \in Kinds |-> (IF k = "trait" THEN <<>> ELSE ModuleDecls(files, o, k)) \o MainDecls(files, o, k)]
RunPrograms(files, o) ==
  [k \in Kinds |-> (IF k \in {"action", "hook"} THEN ModuleDecls(files, o, k) ELSE <<>>) \o MainDecls(files, o, k)]
RunWithImports(files, o) ==
  [k \in Kinds |-> LET mine == MainDecls(files, o, k) IN mine \o NotNamed(ModuleDecls(files, o, k), Named(mine))]

Merge(d, files, o) ==
  CASE d = "runner" -> MergeLoadedPrograms(files, o)
    [] d = "compiler" -> MergeCompiled(files, o)
    [] d \in {"obc", "abi", "carried"} -> RunPrograms(files, o)

\* The type checker, which obc does without, takes no action and no struct twice.
DuplicatesRefused(p) == \E k \in {"action", "struct"} : Cardinality(Named(p[k])) # Len(p[k])
\* A run looks for the first declaration of a name, but stores each global in turn.
Means(p, k, n) ==
  LET named == SelectSeq(p[k], LAMBDA x : x.name = n) IN
  IF named = <<>> THEN "nothing" ELSE IF k = "global" THEN Last(named).from ELSE Head(named).from

Readers == {"obc", "runner", "compiler", "abi", "carried"}
Read(d, files) ==
  LET carried == IF d = "carried" THEN CollectFiles(files) ELSE {}
      s == LoadProgram(d, files, carried)
      collected == d = "compiler" => ~LoadProgram("collect", files, {}).threw
      p == IF s.threw THEN <<>> ELSE Merge(d, files, s.ordered) IN
  [threw |-> s.threw \/ ~collected, ordered |-> s.ordered, program |-> p,
   runs |-> ~s.threw /\ collected /\ (d = "obc" \/ ~DuplicatesRefused(p))]

-----------------------------------------------------------------------------
(* The instance: every conditional of up to three branches, nested once; every
   short list of imports; then places, plugins and shared names over fewer lists. *)
Text(c) == [k |-> "text", c |-> c]
Define(c) == [k |-> "define", c |-> c]
Group(branches) == [k |-> "group", branches |-> branches]
Branch(d, c, body) == [line |-> Line(d, c), body |-> body]
Inner ==
  {Group(<<Branch("ifdef", "A", <<Text("i")>>), Branch("else", "", <<Text("j")>>)>>),
   Group(<<Branch("if", "WINDOWS", <<Text("i")>>), Branch("elif", "A", <<Text("j")>>),
           Branch("else", "", <<Define("A")>>)>>)}
BranchBodies == {<<Text("t")>>, <<Define("A")>>} \cup {<<g>> : g \in Inner}
Openers == {Line(d, c) : d \in Opening, c \in {"A", "WINDOWS"}} \cup {Line("if", "LINUX")}
Groups ==
  LET first == {[line |-> l, body |-> b] : l \in Openers, b \in BranchBodies}
      elifs == {Branch("elif", c, b) : c \in Symbols, b \in BranchBodies}
      elses == {Branch("else", "", b) : b \in BranchBodies} IN
  {Group(<<x>>) : x \in first} \cup {Group(<<x, y>>) : x \in first, y \in elifs \cup elses}
  \cup {Group(<<x, y, Branch("else", "", <<Text("e")>>)>>) : x \in first, y \in elifs}
SourcePicks == {[k |-> "source", items |-> <<g, Define("A"), h>>] : g \in Groups, h \in Inner}

Import(to) == Entry("import", to, TRUE)
Include(to) == Entry("include", to, TRUE)
Bare(to) == Entry("import", to, FALSE)
NoneShared == [k |-> "none", by |-> {}]
Files(main, a, b, atA, atB, plug, broken, shared) ==
  [k |-> "files",
   imports |-> [f \in OnDisk |-> CASE f = "main" -> main [] f = "a" -> a [] f = "b" -> b [] f = "plug" -> plug],
   place |-> [f \in OnDisk |-> CASE f = "main" -> "here" [] f = "a" -> atA [] f = "b" -> atB [] f = "plug" -> "plugins"],
   plugin |-> plug # <<>>, broken |-> broken, shared |-> shared]

MainEntries ==
  {Import(x) : x \in Libraries \cup {"gone", "builtin"}} \cup {Include(x) : x \in Libraries} \cup {Bare(x) : x \in Libraries}
MainLists == {<<x>> : x \in MainEntries} \cup {<<x, y>> : x, y \in MainEntries}
FewLists == {<<Import("a")>>, <<Import("a"), Include("b")>>, <<Bare("b"), Import("a")>>}
GraphPicks ==
  {Files(m, a, b, "here", "here", <<>>, {}, NoneShared) :
     m \in MainLists, a \in {<<>>, <<Import("b")>>, <<Include("b"), Import("main")>>, <<Bare("b")>>},
     b \in {<<>>, <<Import("a")>>, <<Import("gone")>>}}
PlacePicks ==
  {Files(m, a, <<>>, p[1], p[2], <<>>, br, NoneShared) :
     m \in FewLists, a \in {<<>>, <<Import("b")>>}, p \in {"here", "std"} \X {"here", "std"}, br \in {{}, {"b"}}}
PluginPicks ==
  {Files(m, a, <<>>, "std", "std", <<Import(x)>>, br, NoneShared) :
     m \in FewLists, a \in {<<>>, <<Import("b")>>}, x \in Libraries, br \in {{}, {"a"}, {"b"}}}
SharedPicks ==
  {Files(m, a, <<>>, "here", "here", <<>>, {}, [k |-> k, by |-> by]) :
     m \in FewLists, a \in {<<>>, <<Import("b")>>}, k \in Kinds,
     by \in {x \in SUBSET {"main", "a", "b"} : Cardinality(x) > 1}}

NotYet == [k |-> "notYet"]
ImpIdle == impPick = NotYet /\ impOut = NotYet
ImpInit ==
  /\ impPick \in SourcePicks \cup GraphPicks \cup PlacePicks \cup PluginPicks \cup SharedPicks
  /\ impOut = NotYet

Preprocess ==
  /\ impPick.k = "source" /\ impOut = NotYet
  /\ impOut' = [k |-> "source", lines |-> PreprocessSource(Written(impPick.items))]
  /\ UNCHANGED impPick
Assemble ==
  /\ impPick.k = "files" /\ impOut = NotYet
  /\ impOut' = [k |-> "files", by |-> [d \in Readers |-> Read(d, impPick)]]
  /\ UNCHANGED impPick
ImpNext == Preprocess \/ Assemble

-----------------------------------------------------------------------------
RECURSIVE ReachFrom(_, _, _, _)
ReachFrom(d, files, carried, fs) ==
  LET more == fs \cup UNION {ToSet(Loads(d, files, f, carried)) : f \in fs \ {"gone"}} IN
  IF more = fs THEN fs ELSE ReachFrom(d, files, carried, more)

(* A walk brings each file once, what it imports before it unless that imports
   it in turn, and the main file last.  A file that cannot be read ends it, but
   for plugins of the runner that share no such file with the program. *)
WalkedOnce(d, files, r) ==
  LET carried == IF d = "carried" THEN CollectFiles(files) ELSE {}
      needed == ReachFrom(d, files, carried, {"main"})
      brought == IF files.plugin /\ d \in {"runner", "obc"}
                 THEN needed \cup ReachFrom(d, files, carried, {"plug"}) ELSE needed
      hurt(fs) == \E f \in fs : Unreadable(files, f)
      at(f) == CHOOSE i \in DOMAIN r.ordered : r.ordered[i] = f IN
  IF hurt(brought) /\ d # "runner" THEN r.threw
  ELSE IF hurt(needed) THEN files.plugin \/ r.threw
  ELSE /\ ~r.threw
       /\ IsInjective(r.ordered) /\ Last(r.ordered) = "main"
       /\ needed \subseteq ToSet(r.ordered) /\ ToSet(r.ordered) \subseteq brought
       /\ ~hurt(brought) => ToSet(r.ordered) = brought
       /\ \A f \in ToSet(r.ordered) : \A g \in ToSet(Loads(d, files, f, carried)) :
            at(g) < at(f) \/ f \in ReachFrom(d, files, carried, {g})

(* Two programs mean the same by the names of these kinds, unless two modules
   declare one and the same name. *)
AtMostOneModule(files, o, k, n) ==
  Cardinality({i \in 1 .. Len(o) - 1 : n \in Named(Decls(files, o[i], k))}) <= 1
SameMeaning(files, o, p, q, kinds) ==
  \A k \in kinds : \A n \in Named(p[k]) \cup Named(q[k]) :
    AtMostOneModule(files, o, k, n) => Means(p, k, n) = Means(q, k, n)

\* Lines that a source keeps are those of the branches that hold.  Who reads a
\* program, walks its files once and in order; a compiled program and one that is run
\* have the same files (plugins apart) and mean the same (traits apart); an
\* executable that carries its files finds elsewhere what it found here; obc and the
\* C ABI know the same actions and hooks where they know the same files; and a host
\* that merges by run_with_imports gets what the runner does (hooks apart).
ProgramsAssembled ==
  /\ impOut.k = "source" => impOut.lines = SourceMeans(impPick.items, [defines |-> {"OS", OsName}, out |-> <<>>]).out
  /\ impOut.k = "files" =>
       LET by == impOut.by
           brought(d) == ToSet(by[d].ordered) IN
       /\ \A d \in Readers : WalkedOnce(d, impPick, by[d])
       /\ ~by["abi"].threw => ~by["carried"].threw /\ brought("carried") = brought("abi")
       /\ ~impPick.plugin => by["runner"].threw = by["compiler"].threw
       /\ ~impPick.plugin /\ ~by["runner"].threw => brought("runner") = brought("compiler")
       /\ \A d \in Readers :
            (by[d].runs /\ by["runner"].runs /\ brought(d) = brought("runner")) =>
              SameMeaning(impPick, by["runner"].ordered, by[d].program, by["runner"].program,
                          {"action", "hook"} \cup (IF d = "compiler" THEN {"struct", "global"} ELSE {}))
       /\ by["runner"].runs =>
            SameMeaning(impPick, by["runner"].ordered, RunWithImports(impPick, by["runner"].ordered),
                        by["runner"].program, Kinds \ {"hook"})
=============================================================================
